---------------------------- MODULE RetrievalProofs ----------------------------
(***************************************************************************)
(* Theorems about what a search reads: Scopes, Recall, VectorCache and     *)
(* Entities, each for any constants its assumption admits.                 *)
(***************************************************************************)
EXTENDS Scopes, Recall, VectorCache, Entities,
        FiniteSetTheorems, SequenceTheorems, NaturalsInduction, WellFoundedInduction, TLAPS

-----------------------------------------------------------------------------
(* Scopes.                                                                 *)

(* The inductive invariant.                                                *)

(* A cached block is what some context with its key may read. *)
CacheIsReadable ==
    \A e \in cache :
        \E c \in Contexts : e.key = Key(c) /\ \A r \in e.block : InScope(c, r)

(* What the sync wrote carries a turn that has been. *)
SyncedHasTurn == \A r \in rows : r.via = "sync" => r.turn \in DOMAIN turns

(* While a turn goes on the scope is its author's. *)
TurnHasScope ==
    open => /\ Len(turns) \in DOMAIN turns
            /\ turns[Len(turns)] # NoOne =>
                 ctx.user = turns[Len(turns)] /\ ctx.bot = (turns[Len(turns)] = Bot)

(* What a tool wrote is of the chat and of the turn's author. *)
OfItsTurn(r) ==
    /\ r.turn \in DOMAIN turns
    /\ r.chat = ctx.chat /\ r.tier = "internal"
    /\ r.user = NoOne => r.visibility = "profile"
    /\ turns[r.turn] # NoOne => Belongs(r)

ToolsAreOfTheirTurn == \A r \in rows : r.via = "tool" => OfItsTurn(r)

IInv ==
    /\ TypeOK
    /\ CacheIsReadable /\ BlockIsReadable
    /\ SyncedHasTurn /\ SyncedOfItsAuthor
    /\ TurnHasScope /\ ToolsAreOfTheirTurn

-----------------------------------------------------------------------------
(* The scope.                                                              *)

(* A context that a turn moves to is one. *)
LEMMA WithAuthorType ==
  ASSUME NEW c \in Contexts, NEW a \in Authors
  PROVE  WithAuthor(c, a) \in Contexts
  BY DEF WithAuthor, Contexts, IsOwner, Authors, Buckets

LEMMA WriteScopeType ==
  ASSUME NEW c \in Contexts
  PROVE  WriteScope(c) \in Contexts
  BY DEF WriteScope, Contexts, Authors, Buckets

LEMMA FromInitType ==
  ASSUME NEW mode \in {"profile", "user", "chat"}, NEW gateway \in People \cup {NoOne}
  PROVE  FromInit(mode, gateway, "here") \in Contexts
  BY DEF FromInit, Contexts, IsOwner, Authors, Buckets, Chats

LEMMA RowType ==
  ASSUME NEW t \in 0..MaxTurns, NEW c \in Contexts,
         NEW via \in {"old", "tool", "sync", "window"}
  PROVE  /\ Row(t, c, via) \in Rows
         /\ Row(t, c, via).turn = t /\ Row(t, c, via).via = via
         /\ Row(t, c, via).user = c.user /\ Row(t, c, via).chat = c.chat
         /\ Row(t, c, via).tier = "internal"
         /\ c.user = NoOne => Row(t, c, via).visibility = "profile"
  BY DEF Row, Rows, Contexts, Chats

(* A turn leaves the chat as it is, and who writes for it too. *)
LEMMA ChatStays ==
  ASSUME NEW c \in Contexts, NEW a \in Authors
  PROVE  /\ WithAuthor(c, a).chat = c.chat /\ WriteScope(c).chat = c.chat
         /\ a # NoOne => WithAuthor(c, a).user = a /\ WithAuthor(c, a).bot = (a = Bot)
         /\ WriteScope(c).user = IF c.bot THEN NoOne ELSE c.user
  BY DEF WithAuthor, WriteScope, Contexts

(* The clause of a query and the predicate over rows are one. *)
LEMMA ClauseIsPredicate ==
  ASSUME NEW c
  PROVE  ScopeSql(c) = {r \in rows : InScope(c, r)}
  BY DEF ScopeSql, InScope, RowOwnerOnly, MayReadOwner

(* The key of a block names everything that decides who may read a row. *)
LEMMA KeyDecides ==
  ASSUME NEW c, NEW d, Key(c) = Key(d), NEW r, InScope(c, r)
  PROVE  InScope(d, r)
<1>1. c.user = d.user /\ c.chat = d.chat /\ c.owner = d.owner
  BY DEF Key
<1> QED  BY <1>1 DEF InScope, MayReadOwner

(* What an author's turn writes is in the author's bucket, a bot's is      *)
(* profile-wide. *)
LEMMA WriterOfTurn ==
  ASSUME NEW c \in Contexts, NEW a \in Authors, a # NoOne
  PROVE  WriteScope(WithAuthor(c, a)).user = IF a = Bot THEN NoOne ELSE a
  BY DEF WriteScope, WithAuthor, Contexts

-----------------------------------------------------------------------------
(* The steps.                                                              *)

LEMMA InitInv == Init => IInv
<1> SUFFICES ASSUME Init PROVE IInv
    OBVIOUS
<1>1. ctx \in Contexts
  BY FromInitType DEF Init
<1>2. turns \in Seq(Authors) /\ Len(turns) = 0 /\ DOMAIN turns = {}
  BY DEF Init
<1>3. TypeOK
  <2>1. Len(turns) <= MaxTurns /\ synced \in 0..Len(turns) /\ window \subseteq 1..synced
    BY <1>2, ScopeConstants DEF Init, ScopeConstants
  <2>2. rows \subseteq Rows /\ open \in BOOLEAN
    BY ScopeConstants DEF Init, ScopeConstants
  <2> QED  BY <1>1, <1>2, <2>1, <2>2 DEF Init, TypeOK
<1>4. CacheIsReadable /\ BlockIsReadable
  BY DEF Init, CacheIsReadable, BlockIsReadable
<1>5. \A r \in rows : r.via = "old"
  BY ScopeConstants DEF Init, ScopeConstants
<1>6. /\ SyncedHasTurn /\ SyncedOfItsAuthor
      /\ TurnHasScope /\ ToolsAreOfTheirTurn
  BY <1>5 DEF SyncedHasTurn, SyncedOfItsAuthor, TurnHasScope, ToolsAreOfTheirTurn, Init
<1> QED  BY <1>3, <1>4, <1>6 DEF IInv

(* A turn starts: its block is empty, and earlier turns keep their author. *)
LEMMA TurnStartInv == IInv /\ TurnStart => IInv'
<1> SUFFICES ASSUME IInv, TurnStart PROVE IInv'
    OBVIOUS
<1> USE DEF IInv
<1>1. PICK a \in Authors :
        /\ turns' = Append(turns, a)
        /\ ctx' = WithAuthor(ctx, a)
        /\ \/ window' = window /\ jobs' = jobs
           \/ window # {} /\ window' = {} /\ jobs' \in {Sealed(ctx), Sealed(ctx')}
  BY DEF TurnStart
<1>2. /\ Len(turns) \in Nat /\ Len(turns) < MaxTurns
      /\ turns' \in Seq(Authors) /\ Len(turns') = Len(turns) + 1
      /\ DOMAIN turns = 1..Len(turns) /\ DOMAIN turns' = 1..(Len(turns) + 1)
      /\ \A i \in DOMAIN turns : turns'[i] = turns[i]
  BY <1>1, AppendProperties, LenProperties DEF TurnStart, TypeOK
<1>3. /\ open' = TRUE /\ block' = {}
      /\ UNCHANGED <<synced, rows, cache>>
  BY DEF TurnStart
<1>4. ctx \in Contexts /\ ctx' \in Contexts
  BY <1>1, WithAuthorType DEF TypeOK
<1>5. \A j \in jobs' : j.turns \subseteq 1..synced /\ j.scope \in Contexts
  <2>1. \A j \in jobs : j.turns \subseteq 1..synced /\ j.scope \in Contexts
    BY DEF TypeOK
  <2>2. ASSUME NEW c \in Contexts, jobs' = Sealed(c)
        PROVE  \A j \in jobs' : j.turns \subseteq 1..synced /\ j.scope \in Contexts
    <3>1. window \subseteq 1..synced
      BY DEF TypeOK
    <3> DEFINE new == [turns |-> window, scope |-> c]
    <3>2. new.turns = window /\ new.scope = c
      OBVIOUS
    <3>3. jobs' = jobs \cup {new}
      BY <2>2 DEF Sealed
    <3> HIDE DEF new
    <3> QED  BY <2>1, <3>1, <3>2, <3>3
  <2> QED  BY <1>1, <1>4, <2>1, <2>2
<1>6. TypeOK'
  <2>1. synced' \in 0..Len(turns') /\ window' \subseteq 1..synced' /\ Len(turns') <= MaxTurns
    <3>1. synced \in 0..Len(turns) /\ window \subseteq 1..synced /\ MaxTurns \in Nat
      BY ScopeConstants DEF TypeOK, ScopeConstants
    <3>2. window' \subseteq 1..synced
      BY <1>1, <3>1
    <3> QED  BY <1>2, <1>3, <3>1, <3>2
  <2>2. (rows \subseteq Rows /\ \A e \in cache : e.block \subseteq Rows)'
    BY <1>3 DEF TypeOK
  <2> QED  BY <1>2, <1>3, <1>4, <1>5, <2>1, <2>2 DEF TypeOK
<1>7. CacheIsReadable' /\ BlockIsReadable'
  BY <1>3 DEF CacheIsReadable, BlockIsReadable
<1>8. SyncedHasTurn' /\ SyncedOfItsAuthor'
  BY <1>2, <1>3 DEF SyncedHasTurn, SyncedOfItsAuthor, Belongs
<1>9. TurnHasScope'
  <2>1. turns'[Len(turns')] = a /\ Len(turns') \in DOMAIN turns'
    BY <1>1, <1>2, AppendProperties DEF TypeOK
  <2>2. a # NoOne => ctx'.user = a /\ ctx'.bot = (a = Bot)
    BY <1>1, <1>4, ChatStays
  <2> QED  BY <2>1, <2>2 DEF TurnHasScope
<1>10. ToolsAreOfTheirTurn'
  <2>1. ctx'.chat = ctx.chat
    BY <1>1, <1>4, ChatStays
  <2> QED  BY <1>2, <1>3, <2>1 DEF ToolsAreOfTheirTurn, OfItsTurn, Belongs
<1> QED  BY <1>6, <1>7, <1>8, <1>9, <1>10

(* The turn recalls: the block was cached for a context that may read what *)
(* this one may, or is what the clause selects. *)
LEMMA PrefetchInv == IInv /\ Prefetch => IInv'
<1> SUFFICES ASSUME IInv, Prefetch PROVE IInv'
    OBVIOUS
<1> USE DEF IInv
<1> DEFINE hits == {e \in cache : e.key = Key(ctx)}
<1>1. UNCHANGED <<ctx, turns, open, synced, window, jobs, rows>>
  BY DEF Prefetch
<1>2. ctx \in Contexts
  BY DEF TypeOK
<1>3. /\ block' \subseteq Rows /\ \A r \in block' : InScope(ctx, r)
      /\ \A e \in cache' : e.block \subseteq Rows
      /\ \A e \in cache' :
           \E c \in Contexts : e.key = Key(c) /\ \A r \in e.block : InScope(c, r)
  <2>1. CASE hits # {}
    <3>1. PICK e \in hits : block' = e.block /\ cache' = cache
      BY <2>1 DEF Prefetch
    <3>2. PICK c \in Contexts : e.key = Key(c) /\ \A r \in e.block : InScope(c, r)
      BY <3>1 DEF CacheIsReadable
    <3>3. \A r \in block' : InScope(ctx, r)
      BY <3>1, <3>2, KeyDecides
    <3> QED  BY <3>1, <3>3 DEF CacheIsReadable, TypeOK
  <2>2. CASE hits = {}
    <3>1. /\ block' = ScopeSql(ctx)
          /\ cache' = cache \cup {[key |-> Key(ctx), block |-> block']}
      BY <2>2 DEF Prefetch
    <3>2. block' \subseteq Rows /\ \A r \in block' : InScope(ctx, r)
      BY <3>1, ClauseIsPredicate DEF TypeOK
    <3> DEFINE entry == [key |-> Key(ctx), block |-> block']
    <3>3. entry.key = Key(ctx) /\ entry.block = block'
      OBVIOUS
    <3>4. cache' = cache \cup {entry}
      BY <3>1
    <3> HIDE DEF entry
    <3>5. \E c \in Contexts : entry.key = Key(c) /\ \A r \in entry.block : InScope(c, r)
      BY <1>2, <3>2, <3>3
    <3> QED  BY <3>2, <3>3, <3>4, <3>5 DEF CacheIsReadable, TypeOK
  <2> QED  BY <2>1, <2>2
<1>4. TypeOK'
  BY <1>1, <1>3 DEF TypeOK
<1>5. CacheIsReadable' /\ BlockIsReadable'
  BY <1>1, <1>3 DEF CacheIsReadable, BlockIsReadable
<1>6. SyncedHasTurn' /\ SyncedOfItsAuthor'
  BY <1>1 DEF SyncedHasTurn, SyncedOfItsAuthor, Belongs
<1>7. TurnHasScope' /\ ToolsAreOfTheirTurn'
  BY <1>1 DEF TurnHasScope, ToolsAreOfTheirTurn, OfItsTurn, Belongs
<1> QED  BY <1>4, <1>5, <1>6, <1>7

(* A step that writes rows and may count turns as synced. *)
LEMMA WriteInv ==
  ASSUME IInv, UNCHANGED <<ctx, turns, cache, block>>,
         open' \in {open, FALSE}, synced' \in 0..Len(turns), window' \subseteq 1..synced',
         \A j \in jobs' : j.turns \subseteq 1..synced' /\ j.scope \in Contexts,
         NEW added \in SUBSET Rows, rows' = rows \cup added,
         \A r \in added : r.via = "sync" =>
             r.turn \in DOMAIN turns /\ (turns[r.turn] # NoOne => Belongs(r)),
         \A r \in added : r.via = "tool" => OfItsTurn(r)
  PROVE  IInv'
<1> USE DEF IInv
<1>1. TypeOK'
  BY DEF TypeOK
<1>2. CacheIsReadable' /\ BlockIsReadable'
  BY DEF CacheIsReadable, BlockIsReadable
<1>3. SyncedHasTurn' /\ SyncedOfItsAuthor'
  BY DEF SyncedHasTurn, SyncedOfItsAuthor, Belongs
<1>4. TurnHasScope'
  <2>1. open' => open
    BY DEF TypeOK
  <2> QED  BY <2>1 DEF TurnHasScope
<1>5. ToolsAreOfTheirTurn'
  BY DEF ToolsAreOfTheirTurn, OfItsTurn, Belongs
<1> QED  BY <1>1, <1>2, <1>3, <1>4, <1>5

LEMMA QuietWriteInv ==
  ASSUME IInv, UNCHANGED <<ctx, turns, cache, block, synced, window>>,
         open' \in {open, FALSE}, jobs' \subseteq jobs,
         NEW added \in SUBSET Rows, rows' = rows \cup added,
         \A r \in added : r.via # "sync" /\ (r.via = "tool" => OfItsTurn(r))
  PROVE  IInv'
<1>1. /\ synced' \in 0..Len(turns) /\ window' \subseteq 1..synced'
      /\ \A j \in jobs' : j.turns \subseteq 1..synced' /\ j.scope \in Contexts
  BY DEF IInv, TypeOK
<1>2. \A r \in added : r.via = "sync" =>
          r.turn \in DOMAIN turns /\ (turns[r.turn] # NoOne => Belongs(r))
  OBVIOUS
<1> QED  BY <1>1, <1>2, WriteInv

LEMMA RememberInv == IInv /\ Remember => IInv'
<1> SUFFICES ASSUME IInv, Remember PROVE IInv'
    OBVIOUS
<1> DEFINE new == Row(Len(turns), WriteScope(ctx), "tool")
<1>1. Len(turns) \in 0..MaxTurns /\ WriteScope(ctx) \in Contexts
  BY WriteScopeType, LenProperties, ScopeConstants DEF IInv, TypeOK, ScopeConstants
<1>2. /\ new \in Rows /\ new.via = "tool" /\ new.turn = Len(turns)
      /\ new.chat = ctx.chat /\ new.tier = "internal"
      /\ new.user = (IF ctx.bot THEN NoOne ELSE ctx.user)
      /\ new.user = NoOne => new.visibility = "profile"
  <2>1. ctx \in Contexts /\ NoOne \in Authors
    BY DEF IInv, TypeOK, Authors
  <2>2. /\ WriteScope(ctx).chat = ctx.chat
        /\ WriteScope(ctx).user = IF ctx.bot THEN NoOne ELSE ctx.user
    BY <2>1, ChatStays
  <2> QED  BY <1>1, <2>2, RowType
<1>3. rows' = rows \cup {new} /\ UNCHANGED <<ctx, turns, open, synced, window, jobs, cache, block>>
  BY DEF Remember
<1> HIDE DEF new
<1>4. OfItsTurn(new)
  <2>1. Len(turns) \in DOMAIN turns
    BY DEF IInv, TurnHasScope, Remember
  <2>2. turns[Len(turns)] # NoOne =>
          ctx.user = turns[Len(turns)] /\ ctx.bot = (turns[Len(turns)] = Bot)
    BY DEF IInv, TurnHasScope, Remember
  <2> QED  BY <1>2, <2>1, <2>2 DEF OfItsTurn, Belongs
<1>5. {new} \in SUBSET Rows /\ \A r \in {new} : r.via # "sync" /\ (r.via = "tool" => OfItsTurn(r))
  BY <1>2, <1>4
<1> QED  BY <1>3, <1>5, QuietWriteInv

LEMMA TurnEndInv == IInv /\ TurnEnd => IInv'
<1> SUFFICES ASSUME IInv, TurnEnd PROVE IInv'
    OBVIOUS
<1>1. /\ open' = FALSE /\ rows' = rows \cup {}
      /\ UNCHANGED <<ctx, turns, synced, window, jobs, cache, block>>
  BY DEF TurnEnd
<1>2. {} \in SUBSET Rows /\ \A r \in {} : r.via # "sync" /\ (r.via = "tool" => OfItsTurn(r))
  OBVIOUS
<1> QED  BY <1>1, <1>2, QuietWriteInv

(* The sync writes under the author of the turn it has, whoever speaks. *)
LEMMA SyncInv == IInv /\ Sync => IInv'
<1> SUFFICES ASSUME IInv, Sync PROVE IInv'
    OBVIOUS
<1> DEFINE t   == synced + 1
           a   == turns[t]
           new == Row(t, WriteScope(WithAuthor(ctx, a)), "sync")
<1>1. /\ synced' = t /\ window' = window \cup {t} /\ rows' = rows \cup {new}
      /\ UNCHANGED <<ctx, turns, open, jobs, cache, block>>
      /\ synced < Ended
  BY DEF Sync
<1>2. t \in 1..Len(turns) /\ t \in 0..MaxTurns /\ Len(turns) \in Nat
  BY <1>1, LenProperties, ScopeConstants DEF IInv, TypeOK, Ended, ScopeConstants
<1>3. a \in Authors /\ DOMAIN turns = 1..Len(turns)
  BY <1>2, ElementOfSeq, LenProperties DEF IInv, TypeOK
<1>4. WithAuthor(ctx, a) \in Contexts /\ WriteScope(WithAuthor(ctx, a)) \in Contexts
  BY <1>3, WithAuthorType, WriteScopeType DEF IInv, TypeOK
<1>5. /\ new \in Rows /\ new.turn = t
      /\ new.user = WriteScope(WithAuthor(ctx, a)).user /\ new.via = "sync"
  BY <1>2, <1>4, RowType
<1>6. a # NoOne => new.user = IF a = Bot THEN NoOne ELSE a
  BY <1>3, <1>5, WriterOfTurn DEF IInv, TypeOK
<1> HIDE DEF new
<1>7. turns[new.turn] # NoOne => Belongs(new)
  BY <1>5, <1>6 DEF Belongs
<1>8. /\ \A j \in jobs' : j.turns \subseteq 1..synced' /\ j.scope \in Contexts
      /\ window' \subseteq 1..synced' /\ synced' \in 0..Len(turns) /\ open' \in {open, FALSE}
  <2>1. synced \in Nat /\ 1..synced \subseteq 1..synced' /\ t \in 1..synced' /\ synced' \in 0..Len(turns)
    BY <1>1, <1>2 DEF IInv, TypeOK
  <2>2. /\ window \subseteq 1..synced
        /\ \A j \in jobs : j.turns \subseteq 1..synced /\ j.scope \in Contexts
    BY DEF IInv, TypeOK
  <2> QED  BY <1>1, <2>1, <2>2
<1>9. {new} \in SUBSET Rows /\ \A r \in {new} : r.via = "sync" =>
             r.turn \in DOMAIN turns /\ (turns[r.turn] # NoOne => Belongs(r))
  BY <1>2, <1>3, <1>5, <1>7
<1>10. \A r \in {new} : r.via = "tool" => OfItsTurn(r)
  BY <1>5
<1> QED  BY <1>1, <1>8, <1>9, <1>10, WriteInv

LEMMA ExtractInv == IInv /\ ExtractWindow => IInv'
<1> SUFFICES ASSUME IInv, ExtractWindow PROVE IInv'
    OBVIOUS
<1>1. PICK j \in jobs :
        /\ jobs' = jobs \ {j}
        /\ rows' = rows \cup {Row(t, j.scope, "window") : t \in j.turns}
        /\ UNCHANGED <<ctx, turns, open, synced, window, cache, block>>
  BY DEF ExtractWindow
<1> DEFINE added == {Row(t, j.scope, "window") : t \in j.turns}
<1>2. /\ j.turns \subseteq 1..synced /\ j.scope \in Contexts
      /\ synced \in 0..Len(turns) /\ Len(turns) \in Nat /\ Len(turns) <= MaxTurns
  BY LenProperties DEF IInv, TypeOK
<1>3. \A t \in j.turns : t \in 0..MaxTurns
  BY <1>2, ScopeConstants DEF ScopeConstants
<1>4. \A r \in added : r \in Rows /\ r.via = "window"
  BY <1>2, <1>3, RowType
<1> HIDE DEF added
<1>5. rows' = rows \cup added
  BY <1>1 DEF added
<1>6. added \in SUBSET Rows /\ \A r \in added : r.via # "sync" /\ (r.via = "tool" => OfItsTurn(r))
  BY <1>4
<1> QED  BY <1>1, <1>5, <1>6, QuietWriteInv

LEMMA NextInv == IInv /\ [Next]_scopeVars => IInv'
<1> SUFFICES ASSUME IInv, [Next]_scopeVars PROVE IInv'
    OBVIOUS
<1>1. CASE UNCHANGED scopeVars
  <2>1. UNCHANGED <<ctx, turns, cache, block, open, synced, window, jobs>> /\ rows' = rows \cup {}
    BY <1>1 DEF scopeVars
  <2>2. {} \in SUBSET Rows /\ \A r \in {} : r.via # "sync" /\ (r.via = "tool" => OfItsTurn(r))
    OBVIOUS
  <2> QED  BY <2>1, <2>2, QuietWriteInv
<1>2. CASE Next
  BY <1>2, TurnStartInv, PrefetchInv, RememberInv, TurnEndInv, SyncInv, ExtractInv DEF Next
<1> QED  BY <1>1, <1>2

-----------------------------------------------------------------------------
(* The theorems.                                                           *)

(* Every variable has its type. *)
THEOREM TypeCorrect == Spec => []TypeOK
<1>1. IInv => TypeOK
  BY DEF IInv
<1> QED  BY InitInv, NextInv, <1>1, PTL DEF Spec

(* The predicate over rows and the clause of the queries admit the same    *)
(* rows, and no turn is shown a row its own scope does not admit, however  *)
(* the authors of a chat take turns and whatever is cached. *)
THEOREM ScopesAreKept == Spec => []ScopeIsKept
<1>1. IInv => ScopeIsKept
  BY ClauseIsPredicate DEF IInv, ScopeIsKept, SqlAgrees
<1> QED  BY InitInv, NextInv, <1>1, PTL DEF Spec

(* What sync_turn extracts from an author's turn is in the author's        *)
(* bucket, and a bot's is profile-wide, however far the session moved on. *)
THEOREM SyncsAreOfTheirAuthor == Spec => []SyncedOfItsAuthor
<1>1. IInv => SyncedOfItsAuthor
  BY DEF IInv
<1> QED  BY InitInv, NextInv, <1>1, PTL DEF Spec

(* An author reads back what a tool wrote in an earlier turn of theirs,    *)
(* whoever spoke in between, and whether they are a guest or a bot. *)
THEOREM AuthorsReadBack == Spec => []ReadsBack
<1>1. IInv => ReadsBack
  <2> SUFFICES ASSUME IInv, open, NEW r \in rows, r.via = "tool",
                      turns[Len(turns)] # NoOne, turns[r.turn] = turns[Len(turns)]
               PROVE  InScope(ctx, r)
    BY DEF ReadsBack
  <2>1. OfItsTurn(r) /\ ctx.user = turns[Len(turns)]
    BY DEF IInv, ToolsAreOfTheirTurn, TurnHasScope
  <2>2. r.tier # "sensitive" /\ ~(r.user = NoOne /\ r.visibility = "user")
    BY <2>1 DEF OfItsTurn
  <2>3. r.user \in {ctx.user, NoOne}
    BY <2>1 DEF OfItsTurn, Belongs
  <2> QED  BY <2>1, <2>2, <2>3 DEF InScope, RowOwnerOnly, OfItsTurn
<1> QED  BY InitInv, NextInv, <1>1, PTL DEF Spec

-----------------------------------------------------------------------------
(* Recall.                                                                 *)

(* The inductive invariant.                                                *)

Searching == {"find", "features"}
Placed    == {"rows", "predecessors"}

(* What a retrieval carries from step to step. *)
PassTyped ==
    /\ pass.step = "none" => pass = Idle
    /\ pass.step \in Searching =>
           pass \in [step : Searching, left : SUBSET Generators, found : SUBSET Memories,
                     whole : BOOLEAN]
    /\ pass.step \in Placed => pass.place \in [DOMAIN pass.place -> Nat]
    /\ pass.step = "predecessors" => DOMAIN pass.texts = DOMAIN pass.place
    /\ pass.step # "none" => ~answer.whole

(* The memories a retrieval holds. *)
Held ==
    IF pass.step \in Searching THEN pass.found
    ELSE IF pass.step \in Placed THEN DOMAIN pass.place
    ELSE IF pass.step = "items" THEN DOMAIN pass.texts
    ELSE {}

WasLive(m, t) == \E may \in BOOLEAN : <<m, t, "active", may>> \in seen

(* Their present text, which the packer will be given, was live meanwhile. *)
HeldWasLive ==
    \A m \in Held : m \in Memories /\ status[m] # "absent" /\ WasLive(m, text[m])

SightIsSeen == pass.step # "none" => Sight \subseteq seen

(* What passed the gate could be read, and is what it was if nobody has    *)
(* touched it. *)
GatedIsReadable ==
    pass.step \in {"predecessors", "items"} =>
        \A m \in DOMAIN pass.texts : /\ <<m, pass.texts[m], "active", TRUE>> \in seen
                                     /\ m \in steady => pass.texts[m] = text[m]

QuotedIsReadable ==
    pass.step = "items" =>
        \A p \in DOMAIN pass.quoted :
            p \in Memories /\ <<p, pass.quoted[p], "superseded", TRUE>> \in seen

(* A row that has been replaced since the gate was so by a new one. *)
ReplacedByOthers ==
    pass.step = "predecessors" =>
        \A m \in DOMAIN pass.place : status[m] = "superseded" => successor[m] \notin DOMAIN pass.place

(* The pinned rows nobody has touched, and how they are carried. *)
Untouched == pinned \cap Admitted \cap steady

PinnedIsHeld ==
    /\ pass.step = "find" /\ "pinned" \notin pass.left /\ pass.whole => Untouched \subseteq pass.found
    /\ pass.step = "features" /\ pass.whole => Untouched \subseteq pass.found
    /\ pass.step = "rows" /\ pass.whole => Untouched \subseteq DOMAIN pass.place
    /\ pass.step = "predecessors" /\ pass.whole =>
           \A m \in Untouched : m \in DOMAIN pass.place /\ pass.texts[m] = text[m]
    /\ pass.step = "items" /\ pass.whole =>
           \A m \in Untouched : \E n \in DOMAIN pass.texts : pass.texts[n] = text[m]

RecallInv ==
    /\ RecallTypeOK /\ PassTyped
    /\ HeldWasLive /\ SightIsSeen /\ GatedIsReadable /\ QuotedIsReadable
    /\ ReplacedByOthers /\ PinnedIsHeld
    /\ AnswerIsReadable

Sights == Memories \X Texts \X {"active", "superseded"} \X BOOLEAN

LEMMA SightTyped == text \in [Memories -> Texts] => Sight \subseteq Sights
<1> SUFFICES ASSUME text \in [Memories -> Texts], NEW m \in Memories,
                    status[m] \in {"active", "superseded"}
             PROVE  <<m, text[m], status[m], Readable(m)>> \in Sights
  BY DEF Sight
<1>1. Readable(m) \in BOOLEAN /\ text[m] \in Texts
  BY DEF Readable
<1> QED
  BY <1>1 DEF Sights

-----------------------------------------------------------------------------
(* The rows of one text. *)

LEMMA LeastNumber ==
  ASSUME NEW T, T \subseteq Nat, T # {}
  PROVE  \E b \in T : \A c \in T : b <= c
<1>1. PICK R : IsWellFoundedOn(R, Nat) /\ \A i, j \in Nat : i < j => <<i, j>> \in R
  <2>1. \A i, j \in Nat : i < j => <<i, j>> \in OpToRel(<, Nat)
    BY DEF OpToRel
  <2> QED
    BY <2>1, NatLessThanWellFounded
<1>2. PICK b \in T : \A y \in T : ~ (<<y, b>> \in R)
  <2>1. IsWellFoundedOn(R, Nat)
    BY <1>1
  <2> QED
    BY <2>1, WFMin, Zenon
<1>3. ASSUME NEW c \in T PROVE b <= c
  <2>1. b \in Nat /\ c \in Nat /\ ~ (<<c, b>> \in R)
    BY <1>2
  <2>2. ~(c < b)
    BY <1>1, <2>1
  <2> QED
    BY <2>1, <2>2
<1> QED
  BY <1>3

(* Of the rows of one text some row is beaten by none. *)
LEMMA SomeRowIsUnbeaten ==
  ASSUME NEW place, NEW texts, place \in [DOMAIN place -> Nat], NEW m \in DOMAIN place
  PROVE  \E n \in DOMAIN place :
            texts[n] = texts[m] /\ \A k \in DOMAIN place : ~Beats(place, texts, k, n)
<1> DEFINE same == {n \in DOMAIN place : texts[n] = texts[m]}
           own  == IF same \cap Narrow # {} THEN same \cap Narrow ELSE same
           at   == {place[n] : n \in own}
<1>1. own # {} /\ own \subseteq DOMAIN place
  OBVIOUS
<1>2. at # {} /\ at \subseteq Nat
  BY <1>1
<1>3. PICK least \in at : \A k \in at : least <= k
  BY <1>2, LeastNumber
<1>4. PICK n \in own : place[n] = least
  OBVIOUS
<1>5. n \in DOMAIN place /\ texts[n] = texts[m]
  BY <1>1
<1>6. ASSUME NEW k \in DOMAIN place, Beats(place, texts, k, n) PROVE FALSE
  <2>1. k \in same
    BY <1>5, <1>6 DEF Beats
  <2>2. CASE same \cap Narrow # {}
    <3>1. n \in Narrow
      BY <2>2
    <3>2. k \in own /\ place[k] < place[n]
      BY <1>6, <2>1, <2>2, <3>1 DEF Beats
    <3> QED
      BY <1>3, <1>4, <1>5, <3>2
  <2>3. CASE same \cap Narrow = {}
    <3>1. n \notin Narrow /\ k \notin Narrow /\ k \in own
      BY <1>1, <1>5, <2>1, <2>3
    <3>2. place[k] < place[n]
      BY <1>6, <3>1 DEF Beats
    <3> QED
      BY <1>3, <1>4, <1>5, <3>1, <3>2
  <2> QED
    BY <2>2, <2>3
<1> QED
  BY <1>5, <1>6

-----------------------------------------------------------------------------
(* The writers.                                                            *)

(* What every write does to the rows and to the history. *)
Wrote(touched) ==
    /\ reader' = reader /\ pass' = pass /\ answer' = answer
    /\ steady' = steady \ touched
    /\ pass = Idle => seen' = seen
    /\ pass # Idle => seen' = seen \cup Sight'
    /\ \A m \in Memories :
         /\ m \notin touched => /\ status'[m] = status[m] /\ text'[m] = text[m]
                                /\ (m \in private') <=> (m \in private)
                                /\ (m \in pinned') <=> (m \in pinned)
         /\ status[m] # "absent" => status'[m] # "absent"
         /\ text'[m] = text[m] \/ status[m] = "absent" \/ status'[m] = "active"
         /\ status'[m] = "superseded" =>
               \/ status[m] = "superseded" /\ successor'[m] = successor[m]
               \/ successor'[m] \in Memories /\ status[successor'[m]] = "absent"

WriterStep == Add \/ Edit \/ Replace \/ Forget \/ Restore \/ Purge
ReaderStep == Begin \/ Find \/ Rank \/ Gate \/ Diversify \/ Items

LEMMA WriterWrites ==
  ASSUME RecallTypeOK, WriterStep
  PROVE  \E touched : Wrote(touched)
<1> USE DEF Wrote, Written, Worded, reading, Live, RecallTypeOK
<1>1. CASE Add
  <2>1. PICK m \in Memories, t \in Texts, tier \in {"owner", "any"}, pin \in BOOLEAN :
            /\ status[m] = "absent" /\ status' = [status EXCEPT ![m] = "active"]
            /\ Worded(m, t, tier, pin) /\ successor' = successor /\ Written({m})
    BY <1>1 DEF Add
  <2>2. Wrote({m})
    BY <2>1
  <2> QED
    BY <2>2
<1>2. CASE Edit
  <2>1. PICK m \in Live, t \in Texts, tier \in {"owner", "any"}, pin \in BOOLEAN :
            /\ Worded(m, t, tier, pin) /\ status' = status /\ successor' = successor /\ Written({m})
    BY <1>2 DEF Edit
  <2>2. Wrote({m})
    BY <2>1
  <2> QED
    BY <2>2
<1>3. CASE Replace
  <2>1. PICK old \in Live, new \in Memories, t \in Texts, tier \in {"owner", "any"}, pin \in BOOLEAN :
            /\ status[new] = "absent"
            /\ status' = [status EXCEPT ![old] = "superseded", ![new] = "active"]
            /\ Worded(new, t, tier, pin) /\ successor' = [successor EXCEPT ![old] = new]
            /\ Written({old, new})
    BY <1>3 DEF Replace
  <2>2. old \in Memories /\ old # new
    BY <2>1
  <2>3. \A m \in Memories : m \notin {old, new} =>
            /\ status'[m] = status[m] /\ text'[m] = text[m] /\ successor'[m] = successor[m]
            /\ ((m \in private') <=> (m \in private)) /\ ((m \in pinned') <=> (m \in pinned))
    BY <2>1, <2>2
  <2>4. status'[old] = "superseded" /\ successor'[old] = new /\ text'[old] = text[old] /\ status'[new] = "active"
    BY <2>1, <2>2
  <2>5. Wrote({old, new})
    BY <2>1, <2>2, <2>3, <2>4
  <2> QED
    BY <2>5
<1>4. CASE Forget
  <2>1. PICK m \in Memories :
            /\ status' = [status EXCEPT ![m] = "deleted"]
            /\ UNCHANGED <<text, private, pinned, successor>> /\ Written({m})
    BY <1>4 DEF Forget
  <2>2. Wrote({m})
    BY <2>1
  <2> QED
    BY <2>2
<1>5. CASE Restore
  <2>1. PICK m \in Memories :
            /\ status' = [status EXCEPT ![m] = "active"]
            /\ UNCHANGED <<text, private, pinned, successor>> /\ Written({m})
    BY <1>5 DEF Restore
  <2>2. Wrote({m})
    BY <2>1
  <2> QED
    BY <2>2
<1>6. CASE Purge
  <2>1. PICK m \in Memories :
            /\ status[m] = "deleted" /\ status' = [status EXCEPT ![m] = "purged"]
            /\ successor' = [successor EXCEPT ![m] = Nobody]
            /\ UNCHANGED <<text, private, pinned>> /\ Written({m})
    BY <1>6 DEF Purge
  <2>2. \A n \in Memories : n # m => status'[n] = status[n] /\ successor'[n] = successor[n]
    BY <2>1
  <2>3. status'[m] = "purged"
    BY <2>1
  <2>4. Wrote({m})
    BY <2>1, <2>2, <2>3
  <2> QED
    BY <2>4
<1> QED
  BY <1>1, <1>2, <1>3, <1>4, <1>5, <1>6 DEF WriterStep

LEMMA WriterTyped ==
  ASSUME RecallTypeOK, WriterStep
  PROVE  RecallTypeOK'
<1> USE DEF Written, Worded, reading, Live, RecallTypeOK
<1>0. writes' \in 0..MaxWrites /\ steady' \subseteq Memories
  BY RecallConstants DEF WriterStep, Add, Edit, Replace, Forget, Restore, Purge, RecallConstants
<1>1. /\ status' \in [Memories -> States] /\ text' \in [Memories -> Texts]
      /\ successor' \in [Memories -> Memories \cup {Nobody}]
      /\ private' \subseteq Memories /\ pinned' \subseteq Memories
  BY DEF WriterStep, Add, Edit, Replace, Forget, Restore, Purge, States
<1>2. \A m \in Memories : status'[m] = "superseded" => successor'[m] \in Memories
  <2>1. PICK touched : Wrote(touched)
    BY WriterWrites
  <2> QED
    BY <2>1 DEF Wrote
<1>3. seen' \subseteq Sights
  <2>1. seen' \in {seen, seen \cup Sight'}
    BY DEF WriterStep, Add, Edit, Replace, Forget, Restore, Purge
  <2>2. Sight' \subseteq Sights
    <3> SUFFICES ASSUME NEW m \in Memories, status'[m] \in {"active", "superseded"}
                 PROVE  <<m, text'[m], status'[m], Readable(m)'>> \in Sights
      BY DEF Sight
    <3>1. Readable(m)' \in BOOLEAN /\ text'[m] \in Texts
      BY <1>1 DEF Readable
    <3> QED
      BY <3>1 DEF Sights
  <2> QED
    BY <2>1, <2>2 DEF Sights
<1>4. UNCHANGED reading
  BY DEF WriterStep, Add, Edit, Replace, Forget, Restore, Purge
<1> QED
  BY <1>0, <1>1, <1>2, <1>3, <1>4 DEF Sights

LEMMA WriterKeeps ==
  ASSUME RecallInv, WriterStep
  PROVE  RecallInv'
<1>1. RecallTypeOK'
  BY WriterTyped DEF RecallInv
<1>2. PICK touched : Wrote(touched)
  BY WriterWrites DEF RecallInv
<1>3. /\ reader' = reader /\ pass' = pass /\ answer' = answer
      /\ Held' = Held /\ seen \subseteq seen' /\ steady' \subseteq steady
  BY <1>2 DEF Wrote, Held
<1>4. PassTyped'
  BY <1>3 DEF RecallInv, PassTyped
<1>5. SightIsSeen'
  BY <1>2, <1>3 DEF SightIsSeen, Wrote, Idle
<1>6. HeldWasLive'
  <2> SUFFICES ASSUME NEW m \in Held
               PROVE  m \in Memories /\ status'[m] # "absent" /\ WasLive(m, text[m])'
    BY <1>3 DEF HeldWasLive
  <2>1. pass.step # "none" /\ pass # Idle
    BY DEF Held, Searching, Placed, Idle
  <2>2. m \in Memories /\ status[m] # "absent" /\ WasLive(m, text[m])
    BY DEF RecallInv, HeldWasLive
  <2>3. status'[m] # "absent" /\ (text'[m] = text[m] \/ status'[m] = "active")
    BY <1>2, <2>2 DEF Wrote
  <2>4. CASE text'[m] = text[m]
    BY <1>3, <2>2, <2>3, <2>4 DEF WasLive
  <2>5. CASE status'[m] = "active"
    <3>1. <<m, text'[m], "active", Readable(m)'>> \in Sight'
      BY <2>2, <2>5 DEF Sight
    <3>2. Readable(m)' \in BOOLEAN
      BY DEF Readable
    <3> QED
      BY <1>2, <2>1, <2>2, <2>3, <3>1, <3>2 DEF Wrote, WasLive
  <2> QED
    BY <2>3, <2>4, <2>5
<1>7. GatedIsReadable' /\ QuotedIsReadable'
  <2>1. \A m \in Memories : m \in steady' => text'[m] = text[m]
    BY <1>2 DEF Wrote
  <2>2. pass.step \in {"predecessors", "items"} => DOMAIN pass.texts \subseteq Memories
    BY DEF RecallInv, PassTyped, HeldWasLive, Held, Searching, Placed
  <2> QED
    BY <1>3, <2>1, <2>2 DEF RecallInv, GatedIsReadable, QuotedIsReadable
<1>8. ReplacedByOthers'
  <2> SUFFICES ASSUME pass.step = "predecessors", NEW m \in DOMAIN pass.place, status'[m] = "superseded"
               PROVE  successor'[m] \notin DOMAIN pass.place
    BY <1>3 DEF ReplacedByOthers
  <2>1. \A n \in DOMAIN pass.place : n \in Memories /\ status[n] # "absent"
    BY DEF RecallInv, HeldWasLive, Held, Placed, Searching
  <2>2. \/ status[m] = "superseded" /\ successor'[m] = successor[m]
        \/ successor'[m] \in Memories /\ status[successor'[m]] = "absent"
    BY <1>2, <2>1 DEF Wrote
  <2> QED
    BY <2>1, <2>2 DEF RecallInv, ReplacedByOthers
<1>9. PinnedIsHeld'
  <2>1. Untouched' \subseteq Untouched /\ \A m \in Untouched' : text'[m] = text[m]
    BY <1>2, <1>3 DEF Untouched, Admitted, Live, Readable, Wrote
  <2> QED
    BY <1>3, <2>1 DEF RecallInv, PinnedIsHeld
<1>10. AnswerIsReadable'
  <2>1. pass.step = "none" => seen' = seen
    BY <1>2 DEF Wrote, RecallInv, PassTyped
  <2> QED
    BY <1>3, <2>1 DEF RecallInv, AnswerIsReadable
<1> QED
  BY <1>1, <1>4, <1>5, <1>6, <1>7, <1>8, <1>9, <1>10 DEF RecallInv

-----------------------------------------------------------------------------
(* The retrieval.                                                          *)

LEMMA InitKeeps ==
  ASSUME RecallInit
  PROVE  RecallInv
<1> USE DEF RecallInit, Idle, NoAnswer
<1>1. RecallTypeOK
  BY RecallConstants DEF RecallTypeOK, States, RecallConstants
<1>2. PassTyped /\ Held = {}
  BY DEF PassTyped, Held, Searching, Placed
<1>3. SightIsSeen /\ GatedIsReadable /\ QuotedIsReadable /\ ReplacedByOthers /\ PinnedIsHeld
  BY DEF SightIsSeen, GatedIsReadable, QuotedIsReadable, ReplacedByOthers, PinnedIsHeld
<1>4. AnswerIsReadable
  BY DEF AnswerIsReadable
<1> QED
  BY <1>1, <1>2, <1>3, <1>4 DEF RecallInv, HeldWasLive

(* A step that leaves the rows and the history of what was live alone.     *)
LEMMA RowsStayTyped ==
  ASSUME RecallTypeOK, UNCHANGED stored, steady' \subseteq Memories,
         seen' \subseteq Sights,
         pass'.step \in {"none", "find", "features", "rows", "predecessors", "items"},
         DOMAIN answer'.items \subseteq DOMAIN answer'.rows, DOMAIN answer'.quoted \subseteq Memories
  PROVE  RecallTypeOK'
  BY DEF RecallTypeOK, stored, Sights

LEMMA BeginKeeps ==
  ASSUME RecallInv, Begin
  PROVE  RecallInv'
<1> USE DEF Begin, Idle, NoAnswer
<1>1. /\ pass' = [step |-> "find", left |-> Generators, found |-> {}, whole |-> TRUE]
      /\ answer' = NoAnswer /\ steady' = Memories /\ seen' = Sight
      /\ UNCHANGED stored /\ RecallTypeOK
  BY DEF RecallInv
<1>2. seen' \subseteq Sights /\ Sight' = Sight
  BY <1>1, SightTyped DEF Sight, Readable, stored, RecallTypeOK
<1>3. RecallTypeOK'
  BY <1>1, <1>2, RowsStayTyped
<1>4. PassTyped'
  BY <1>1 DEF PassTyped, Searching, Placed
<1>5. Held' = {}
  BY <1>1 DEF Held, Searching, Placed
<1>6. SightIsSeen'
  BY <1>1, <1>2 DEF SightIsSeen
<1>7. GatedIsReadable' /\ QuotedIsReadable' /\ ReplacedByOthers' /\ PinnedIsHeld'
  BY <1>1 DEF GatedIsReadable, QuotedIsReadable, ReplacedByOthers, PinnedIsHeld, Generators
<1>8. AnswerIsReadable'
  BY <1>1 DEF AnswerIsReadable
<1> QED
  BY <1>3, <1>4, <1>5, <1>6, <1>7, <1>8 DEF RecallInv, HeldWasLive

(* What a step of the retrieval but the first and the last leaves alone.   *)
LEMMA ReadsOnly ==
  ASSUME RecallInv, pass.step # "none", UNCHANGED <<stored, answer, steady, seen>>,
         pass'.step # "none"
  PROVE  /\ RecallTypeOK /\ ~answer'.whole
         /\ Untouched' = Untouched /\ Live' = Live /\ Admitted' = Admitted
         /\ SightIsSeen' /\ AnswerIsReadable'
         /\ \A m : WasLive(m, text[m])' <=> WasLive(m, text[m])
         /\ \A m \in Admitted : m \in Memories /\ <<m, text[m], "active", TRUE>> \in seen
<1>1. /\ RecallTypeOK /\ ~answer'.whole
      /\ Untouched' = Untouched /\ Live' = Live /\ Admitted' = Admitted /\ Sight' = Sight
  BY DEF RecallInv, PassTyped, Untouched, Admitted, Live, Readable, Sight, stored
<1>2. SightIsSeen' /\ Sight \subseteq seen
  BY <1>1 DEF RecallInv, SightIsSeen
<1>3. AnswerIsReadable' /\ \A m : WasLive(m, text[m])' <=> WasLive(m, text[m])
  BY DEF AnswerIsReadable, WasLive, stored
<1>4. \A m \in Admitted : m \in Memories /\ <<m, text[m], "active", TRUE>> \in Sight
  BY DEF Admitted, Live, Sight, Readable
<1> QED
  BY <1>1, <1>2, <1>3, <1>4

LEMMA FindKeeps ==
  ASSUME RecallInv, Find
  PROVE  RecallInv'
<1>1. pass.step = "find" /\ UNCHANGED <<stored, answer, steady, seen>>
  BY DEF Find
<1>2. pass \in [step : Searching, left : SUBSET Generators, found : SUBSET Memories, whole : BOOLEAN]
  BY <1>1 DEF RecallInv, PassTyped, Searching
<1>3. Admitted \subseteq Memories
  BY DEF Admitted, Live
<1> DEFINE Gathered ==
      /\ pass' \in [step : Searching, left : SUBSET Generators, found : SUBSET Memories, whole : BOOLEAN]
      /\ pass'.found \subseteq pass.found \cup Admitted
      /\ pass'.step = "find" /\ "pinned" \notin pass'.left /\ pass'.whole => Untouched \subseteq pass'.found
      /\ pass'.step = "features" /\ pass'.whole => Untouched \subseteq pass'.found
<1>4. Gathered
  <2>1. ASSUME NEW g \in pass.left, NEW hits \in SUBSET Admitted, hits \in Returned(g),
               pass' = [pass EXCEPT !.left = @ \ {g}, !.found = @ \cup hits,
                                    !.whole = @ /\ ~Crowded(g)]
        PROVE  Gathered
    <3>1. /\ pass'.step = "find" /\ pass'.left = pass.left \ {g}
          /\ pass'.found = pass.found \cup hits /\ pass'.whole = (pass.whole /\ ~Crowded(g))
          /\ pass' \in [step : Searching, left : SUBSET Generators, found : SUBSET Memories, whole : BOOLEAN]
      BY <1>1, <1>2, <1>3, <2>1 DEF Crowded
    <3>2. CASE g = "pinned"
      <4>1. ~Crowded(g) => hits = Admitted \cap pinned
        BY <2>1, <3>2 DEF Returned
      <4> QED
        BY <3>1, <4>1 DEF Untouched
    <3>3. CASE g # "pinned"
      <4>1. "pinned" \notin pass.left /\ pass.whole => Untouched \subseteq pass.found
        BY <1>1 DEF RecallInv, PinnedIsHeld
      <4> QED
        BY <3>1, <3>3, <4>1
    <3> QED
      BY <3>2, <3>3
  <2>2. CASE pass.left = {} /\ pass' = [pass EXCEPT !.step = "features"]
    <3>1. pass.whole => Untouched \subseteq pass.found
      BY <1>1, <2>2 DEF RecallInv, PinnedIsHeld
    <3> QED
      BY <1>2, <2>2, <3>1 DEF Searching
  <2>3. ASSUME NEW hits \in SUBSET Admitted,
               pass' = [pass EXCEPT !.step = "features", !.found = @ \cup hits, !.whole = FALSE]
        PROVE  Gathered
    BY <1>2, <1>3, <2>3 DEF Searching
  <2> QED
    BY <2>1, <2>2, <2>3 DEF Find
<1>5. pass'.step \in Searching /\ pass.step \in Searching /\ pass'.step # "none" /\ pass.step # "none"
  BY <1>1, <1>4 DEF Searching
<1>6. RecallTypeOK'
  BY <1>1, <1>5, ReadsOnly, RowsStayTyped DEF RecallTypeOK, Searching, Sights
<1>7. PassTyped'
  BY <1>1, <1>4, <1>5, ReadsOnly DEF PassTyped, Searching, Placed
<1>8. HeldWasLive'
  <2>1. \A m \in Admitted : m \in Memories /\ status[m] # "absent" /\ WasLive(m, text[m])
    <3>1. \A m \in Admitted : m \in Memories /\ status[m] # "absent"
      BY DEF Admitted, Live
    <3> QED
      BY <1>1, <1>5, <3>1, ReadsOnly DEF WasLive
  <2>2. Held' = pass'.found /\ Held = pass.found
    BY <1>5 DEF Held
  <2>3. \A m \in pass'.found : m \in Memories /\ status[m] # "absent" /\ WasLive(m, text[m])
    BY <1>4, <2>1, <2>2 DEF RecallInv, HeldWasLive
  <2> QED
    BY <1>1, <1>5, <2>2, <2>3, ReadsOnly DEF HeldWasLive, stored
<1>9. GatedIsReadable' /\ QuotedIsReadable' /\ ReplacedByOthers' /\ PinnedIsHeld'
  BY <1>1, <1>4, <1>5, ReadsOnly
  DEF GatedIsReadable, QuotedIsReadable, ReplacedByOthers, PinnedIsHeld, Searching
<1> QED
  BY <1>1, <1>5, <1>6, <1>7, <1>8, <1>9, ReadsOnly DEF RecallInv

LEMMA RankKeeps ==
  ASSUME RecallInv, Rank
  PROVE  RecallInv'
<1>1. pass.step = "features" /\ UNCHANGED <<stored, answer, steady, seen>>
  BY DEF Rank
<1>2. PICK place \in Injection(pass.found \cap Admitted, 1..Cardinality(pass.found \cap Admitted)) :
          pass' = [step |-> "rows", place |-> place, whole |-> pass.whole]
  BY DEF Rank
<1>3. DOMAIN place = pass.found \cap Admitted /\ place \in [DOMAIN place -> Nat]
  BY <1>2 DEF Injection
<1>4. pass'.step = "rows" /\ pass'.place = place /\ pass'.whole = pass.whole
  BY <1>2
<1>5. RecallTypeOK'
  BY <1>1, <1>4, RowsStayTyped, ReadsOnly DEF RecallTypeOK, Sights
<1>6. PassTyped'
  BY <1>1, <1>3, <1>4, ReadsOnly DEF PassTyped, Searching, Placed
<1>7. HeldWasLive'
  <2>1. Held' = DOMAIN place /\ Held = pass.found
    BY <1>1, <1>4 DEF Held, Searching, Placed
  <2> QED
    BY <1>1, <1>3, <1>4, <2>1, ReadsOnly DEF RecallInv, HeldWasLive, stored
<1>8. GatedIsReadable' /\ QuotedIsReadable' /\ ReplacedByOthers'
  BY <1>4 DEF GatedIsReadable, QuotedIsReadable, ReplacedByOthers
<1>9. PinnedIsHeld'
  BY <1>1, <1>3, <1>4, ReadsOnly DEF RecallInv, PinnedIsHeld, Untouched
<1> QED
  BY <1>1, <1>4, <1>5, <1>6, <1>7, <1>8, <1>9, ReadsOnly DEF RecallInv

LEMMA GateKeeps ==
  ASSUME RecallInv, Gate
  PROVE  RecallInv'
<1>1. pass.step = "rows" /\ UNCHANGED <<stored, answer, steady, seen>>
  BY DEF Gate
<1>2. PICK passed \in SUBSET (DOMAIN pass.place \cap Admitted) :
          DOMAIN pass.place \cap Admitted \cap pinned \subseteq passed /\ Gated(passed)
  BY DEF Gate
<1>3. /\ pass'.step = "predecessors" /\ pass'.whole = pass.whole
      /\ pass'.place = [m \in passed |-> pass.place[m]] /\ pass'.texts = [m \in passed |-> text[m]]
  BY <1>2 DEF Gated, Restrict, Texted
<1>4. pass.place \in [DOMAIN pass.place -> Nat]
  BY <1>1 DEF RecallInv, PassTyped, Placed
<1>5. RecallTypeOK'
  BY <1>1, <1>3, RowsStayTyped, ReadsOnly DEF RecallTypeOK, Sights
<1>6. PassTyped'
  <2>1. pass'.place \in [passed -> Nat]
    BY <1>2, <1>3, <1>4
  <2> QED
    BY <1>1, <1>3, <2>1, ReadsOnly DEF PassTyped, Searching, Placed
<1>7. HeldWasLive'
  <2>1. Held' = passed /\ Held = DOMAIN pass.place
    BY <1>1, <1>3 DEF Held, Searching, Placed
  <2> QED
    BY <1>1, <1>2, <1>3, <2>1, ReadsOnly DEF RecallInv, HeldWasLive, stored
<1>8. GatedIsReadable' /\ QuotedIsReadable'
  BY <1>1, <1>2, <1>3, ReadsOnly DEF GatedIsReadable, QuotedIsReadable, stored
<1>9. ReplacedByOthers'
  <2>1. \A m \in passed : status[m] = "active"
    BY <1>2 DEF Admitted, Live
  <2> QED
    BY <1>1, <1>3, <2>1 DEF ReplacedByOthers, stored
<1>10. PinnedIsHeld'
  <2>1. pass.whole => Untouched \subseteq passed
    BY <1>1, <1>2 DEF RecallInv, PinnedIsHeld, Untouched
  <2> QED
    BY <1>1, <1>3, <2>1, ReadsOnly DEF PinnedIsHeld, stored
<1> QED
  BY <1>1, <1>3, <1>5, <1>6, <1>7, <1>8, <1>9, <1>10, ReadsOnly DEF RecallInv

LEMMA DiversifyKeeps ==
  ASSUME RecallInv, Diversify
  PROVE  RecallInv'
<1> DEFINE kept == Collapsed(pass.place, pass.texts)
<1>1. pass.step = "predecessors" /\ UNCHANGED <<stored, answer, steady, seen>>
  BY DEF Diversify
<1>2. PICK lately \in SUBSET UNION {Predecessors(m) : m \in kept} :
          /\ pass'.step = "items" /\ pass'.whole = pass.whole
          /\ pass'.texts = [m \in kept |-> pass.texts[m]]
          /\ pass'.quoted = [m \in lately |-> text[m]]
  BY DEF Diversify, Texted, Restrict
<1>3. kept \subseteq DOMAIN pass.place /\ DOMAIN pass.place = DOMAIN pass.texts
  BY <1>1 DEF Collapsed, RecallInv, PassTyped
<1>4. \A p \in lately : p \in Memories /\ <<p, text[p], "superseded", TRUE>> \in seen
  <2>1. \A p \in lately : p \in Memories /\ <<p, text[p], "superseded", TRUE>> \in Sight
    BY <1>2 DEF Predecessors, Sight, Readable
  <2> QED
    BY <1>1, <2>1 DEF RecallInv, SightIsSeen
<1> HIDE DEF kept
<1>5. RecallTypeOK'
  BY <1>1, <1>2, RowsStayTyped, ReadsOnly DEF RecallTypeOK, Sights
<1>6. PassTyped'
  BY <1>1, <1>2, ReadsOnly DEF PassTyped, Searching, Placed
<1>7. HeldWasLive'
  <2>1. Held' = kept /\ Held = DOMAIN pass.place
    BY <1>1, <1>2 DEF Held, Searching, Placed
  <2> QED
    BY <1>1, <1>2, <1>3, <2>1, ReadsOnly DEF RecallInv, HeldWasLive, stored
<1>8. GatedIsReadable'
  BY <1>1, <1>2, <1>3 DEF RecallInv, GatedIsReadable, stored
<1>9. QuotedIsReadable' /\ ReplacedByOthers'
  BY <1>1, <1>2, <1>4 DEF QuotedIsReadable, ReplacedByOthers
<1>10. PinnedIsHeld'
  <2> SUFFICES ASSUME pass.whole, NEW m \in Untouched
               PROVE  \E n \in kept : pass.texts[n] = text[m]
    BY <1>1, <1>2, ReadsOnly DEF PinnedIsHeld, stored
  <2>1. m \in DOMAIN pass.place /\ pass.texts[m] = text[m]
    BY <1>1 DEF RecallInv, PinnedIsHeld
  <2>2. pass.place \in [DOMAIN pass.place -> Nat]
    BY <1>1 DEF RecallInv, PassTyped, Placed
  <2>3. PICK n \in DOMAIN pass.place :
            /\ pass.texts[n] = pass.texts[m]
            /\ \A k \in DOMAIN pass.place : ~Beats(pass.place, pass.texts, k, n)
    BY <2>1, <2>2, SomeRowIsUnbeaten
  <2>4. \A s \in DOMAIN pass.place : n \notin Predecessors(s)
    BY <1>1 DEF RecallInv, ReplacedByOthers, Predecessors
  <2>5. n \in kept
    BY <2>3, <2>4 DEF kept, Collapsed
  <2> QED
    BY <2>1, <2>3, <2>5
<1> QED
  BY <1>1, <1>2, <1>5, <1>6, <1>7, <1>8, <1>9, <1>10, ReadsOnly DEF RecallInv

LEMMA ItemsKeeps ==
  ASSUME RecallInv, Items
  PROVE  RecallInv'
<1> DEFINE given == {m \in DOMAIN pass.texts : status[m] # "purged"}
<1>1. pass.step = "items" /\ UNCHANGED <<stored, steady, seen>> /\ RecallTypeOK
  BY DEF RecallInv, Items
<1>2. /\ pass' = Idle /\ pass'.step = "none" /\ answer'.rows = pass.texts /\ answer'.quoted = pass.quoted
      /\ answer'.items = [m \in given |-> text[m]]
  BY DEF Items, Idle, Texted
<1>3. Held = DOMAIN pass.texts /\ Held' = {}
  BY <1>1, <1>2 DEF Held, Searching, Placed
<1>4. RecallTypeOK'
  <2>1. DOMAIN answer'.items \subseteq DOMAIN answer'.rows /\ DOMAIN answer'.quoted \subseteq Memories
    BY <1>1, <1>2 DEF RecallInv, QuotedIsReadable
  <2> QED
    BY <1>1, <1>2, <2>1, RowsStayTyped DEF RecallTypeOK, Sights
<1>5. PassTyped' /\ SightIsSeen' /\ GatedIsReadable' /\ QuotedIsReadable' /\ ReplacedByOthers' /\ PinnedIsHeld'
  BY <1>2 DEF PassTyped, SightIsSeen, GatedIsReadable, QuotedIsReadable, ReplacedByOthers, PinnedIsHeld,
              Searching, Placed
<1>6. HeldWasLive'
  BY <1>3 DEF HeldWasLive
<1>7. AnswerIsReadable'
  <2>1. \A m \in given : m \in DOMAIN pass.texts /\ WasLive(m, text[m])
    BY <1>3 DEF RecallInv, HeldWasLive
  <2> QED
    BY <1>1, <1>2, <2>1 DEF RecallInv, AnswerIsReadable, GatedIsReadable, QuotedIsReadable, WasLive
<1> QED
  BY <1>4, <1>5, <1>6, <1>7 DEF RecallInv

LEMMA StutterKeepsRecall ==
  ASSUME RecallInv, UNCHANGED recallVars
  PROVE  RecallInv'
<1>1. RecallTypeOK' /\ PassTyped'
  BY DEF RecallInv, recallVars, RecallTypeOK, PassTyped
<1>2. Held' = Held /\ Untouched' = Untouched /\ Sight' = Sight
  BY DEF recallVars, Held, Untouched, Admitted, Live, Readable, Sight
<1>3. HeldWasLive' /\ SightIsSeen' /\ GatedIsReadable' /\ QuotedIsReadable' /\ ReplacedByOthers'
  BY <1>2 DEF RecallInv, recallVars, HeldWasLive, WasLive, SightIsSeen, GatedIsReadable, QuotedIsReadable,
              ReplacedByOthers
<1>4. PinnedIsHeld' /\ AnswerIsReadable'
  BY <1>2 DEF RecallInv, recallVars, PinnedIsHeld, AnswerIsReadable
<1> QED
  BY <1>1, <1>3, <1>4 DEF RecallInv

LEMMA NextKeepsRecall == RecallInv /\ [RecallNext]_recallVars => RecallInv'
<1> SUFFICES ASSUME RecallInv, [RecallNext]_recallVars PROVE RecallInv'
  OBVIOUS
<1>1. CASE WriterStep
  BY <1>1, WriterKeeps
<1>2. CASE ReaderStep
  BY <1>2, BeginKeeps, FindKeeps, RankKeeps, GateKeeps, DiversifyKeeps, ItemsKeeps DEF ReaderStep
<1>3. CASE UNCHANGED recallVars
  BY <1>3, StutterKeepsRecall
<1> QED
  BY <1>1, <1>2, <1>3 DEF RecallNext, WriterStep, ReaderStep

-----------------------------------------------------------------------------
(* The theorems.                                                           *)

LEMMA RecallIsInvariant == RecallSpec => []RecallInv
  BY InitKeeps, NextKeepsRecall, PTL DEF RecallSpec

(* Every variable has its type, for any rows, buckets, tiers and pins. *)
THEOREM RecallTypes == RecallSpec => []RecallTypeOK
  BY RecallIsInvariant, PTL DEF RecallInv

(* What passed the gate could be read with its text at some moment of the  *)
(* call, and so could what is quoted (load_rows, load_predecessors); what  *)
(* the packer is given was live with its text meanwhile, and is what       *)
(* passed unless the row was written during the call. *)
THEOREM AnswersAreReadable == RecallSpec => []AnswerIsReadable
  BY RecallIsInvariant, PTL DEF RecallInv

(* A pinned row that nothing touched during a retrieval which left nothing *)
(* out is answered for, by itself or by a row with its text. *)
THEOREM PinnedIsAnswered == RecallSpec => PinnedKept
<1>1. RecallInv /\ [RecallNext]_recallVars =>
         (answer'.whole /\ pass.step = "items" =>
            \A m \in pinned \cap Admitted \cap steady :
               \/ m \in DOMAIN answer'.items
               \/ \E n \in DOMAIN answer'.rows : answer'.rows[n] = text[m])
         \/ UNCHANGED recallVars
  <2> SUFFICES ASSUME RecallInv, RecallNext, answer'.whole, pass.step = "items",
                      NEW m \in Untouched
               PROVE  \E n \in DOMAIN answer'.rows : answer'.rows[n] = text[m]
    BY DEF Untouched
  <2>1. ~answer.whole /\ answer' # answer
    BY DEF RecallInv, PassTyped
  <2>2. Items
    <3>1. ~WriterStep
      BY <2>1 DEF WriterStep, Add, Edit, Replace, Forget, Restore, Purge, Written, reading
    <3> QED
      BY <3>1 DEF RecallNext, WriterStep, Begin, Find, Rank, Gate, Diversify, Idle
  <2>3. answer'.rows = pass.texts /\ pass.whole
    BY <2>2 DEF Items
  <2> QED
    BY <2>3 DEF RecallInv, PinnedIsHeld
<1> QED
  BY <1>1, RecallIsInvariant, PTL DEF RecallSpec, PinnedKept

-----------------------------------------------------------------------------
(* VectorCache.                                                            *)

(* The inductive invariant of the vector cache.                            *)

SearchTyped == search.step = "use" => search.served \subseteq (Embeddable \X Wordings)

(* A put that is not committed is of a live memory's present text. *)
OpenPutIsCurrent == tx.open => tx.of \in active /\ tx.text = wording[tx.of]

SettledIsStored ==
    \A m \in settled : m \in active /\ m \in DOMAIN vectors /\ vectors[m].text = wording[m]

(* No fingerprint is ahead of the puts, and while a put that no search has *)
(* looked at is open they are all behind. *)
Behind(fp) == fp[3] \in Nat /\ fp[3] <= puts /\ (tx.open /\ tx.quiet => fp[3] < puts)

FingerprintsAreBehind ==
    /\ snapshot = NoSnap \/ Behind(snapshot.fp)
    /\ search.step = "build" => Behind(search.fp)

(* The snapshot of the present count has what was put. *)
SnapshotHasSettled ==
    snapshot # NoSnap /\ snapshot.fp[3] = puts =>
        \A m \in settled : <<m, wording[m]>> \in snapshot.served

CacheInv ==
    /\ CacheTypeOK /\ SearchTyped /\ OpenPutIsCurrent
    /\ SettledIsStored /\ FingerprintsAreBehind /\ SnapshotHasSettled

-----------------------------------------------------------------------------
(* The rows' numbers. *)

LEMMA MaxOf ==
  ASSUME NEW S, S \subseteq 1..MaxRowid, S # {}
  PROVE  Max(S) \in S /\ \A x \in S : x <= Max(S)
<1>1. MaxRowid \in Nat
  BY CacheConstants DEF CacheConstants
<1> DEFINE T == {MaxRowid - x : x \in S}
<1>2. T \subseteq Nat /\ T # {}
  <2>1. \A x \in S : MaxRowid - x \in Nat
    BY <1>1
  <2> QED
    BY <2>1
<1>3. PICK b \in T : \A c \in T : b <= c
  BY <1>2, LeastNumber
<1>4. PICK x \in S : b = MaxRowid - x
  BY <1>3
<1>5. \A y \in S : x >= y
  <2> SUFFICES ASSUME NEW y \in S PROVE x >= y
    OBVIOUS
  <2>1. MaxRowid - y \in T /\ x \in Int /\ y \in Int
    BY <1>1
  <2>2. MaxRowid - x <= MaxRowid - y
    BY <1>3, <1>4, <2>1
  <2> QED
    BY <1>1, <2>1, <2>2
<1>6. Max(S) \in S /\ \A y \in S : Max(S) >= y
  BY <1>5, Zenon DEF Max
<1>7. ASSUME NEW y \in S PROVE y <= Max(S)
  BY <1>6, <1>1
<1> QED
  BY <1>6, <1>7

LEMMA ReplacedIs ==
  ASSUME CacheTypeOK, NEW m \in Embeddable, NEW t \in Wordings, Newest < MaxRowid
  PROVE  /\ DOMAIN Replaced(m, t) = DOMAIN vectors \cup {m}
         /\ Replaced(m, t)[m].text = t
         /\ \A n \in DOMAIN vectors : n # m => Replaced(m, t)[n] = vectors[n]
         /\ \A n \in DOMAIN Replaced(m, t) : Replaced(m, t)[n] \in [text : Wordings, rowid : 1..MaxRowid]
         /\ \A n, k \in DOMAIN Replaced(m, t) :
                n # k => Replaced(m, t)[n].rowid # Replaced(m, t)[k].rowid
<1>1. MaxRowid \in Nat
  BY CacheConstants DEF CacheConstants
<1>2. /\ \A n \in DOMAIN vectors : vectors[n] \in [text : Wordings, rowid : 1..MaxRowid]
      /\ \A n, k \in DOMAIN vectors : n # k => vectors[n].rowid # vectors[k].rowid
  BY DEF CacheTypeOK
<1>3. Newest \in 0..MaxRowid /\ \A n \in DOMAIN vectors : vectors[n].rowid <= Newest
  <2>1. CASE DOMAIN vectors = {}
    BY <1>1, <2>1 DEF Newest
  <2>2. CASE DOMAIN vectors # {}
    <3>1. Rowids # {} /\ Rowids \subseteq 1..MaxRowid
      BY <1>2, <2>2 DEF Rowids
    <3>2. Max(Rowids) \in Rowids /\ \A x \in Rowids : x <= Max(Rowids)
      BY <3>1, MaxOf
    <3>3. Newest = Max(Rowids) /\ \A n \in DOMAIN vectors : vectors[n].rowid \in Rowids
      BY <2>2 DEF Newest, Rowids
    <3> QED
      BY <1>1, <3>1, <3>2, <3>3
  <2> QED
    BY <2>1, <2>2
<1>4. Newest + 1 \in 1..MaxRowid /\ \A n \in DOMAIN vectors : vectors[n].rowid # Newest + 1
  BY <1>1, <1>2, <1>3
<1> QED
  BY <1>2, <1>4 DEF Replaced

-----------------------------------------------------------------------------
(* The steps. *)

LEMMA CacheBegins ==
  ASSUME CacheInit
  PROVE  CacheInv
<1>1. CacheTypeOK
  <2>1. 1 \in Wordings /\ 0 \in 0..MaxPuts
    BY CacheConstants DEF CacheConstants, Wordings
  <2> QED
    BY <2>1 DEF CacheInit, CacheTypeOK, NoTx, NoSnap
<1> QED
  BY <1>1 DEF CacheInit, CacheInv, SearchTyped, OpenPutIsCurrent, SettledIsStored,
              FingerprintsAreBehind, SnapshotHasSettled, NoTx, NoSnap

LEMMA EditTextKeeps ==
  ASSUME CacheInv, EditText
  PROVE  CacheInv'
<1> USE DEF CacheInv
<1>1. PICK m \in active :
          /\ wording[m] < MaxTexts /\ wording' = [wording EXCEPT ![m] = @ + 1] /\ settled' = settled \ {m}
  BY DEF EditText
<1>2. ~tx.open /\ UNCHANGED <<active, vectors, puts, tx, snapshot, search, used>>
  BY DEF EditText
<1>3. wording' \in [Embeddable -> Wordings] /\ \A n \in Embeddable : n # m => wording'[n] = wording[n]
  <2>1. wording[m] + 1 \in Wordings
    BY <1>1, CacheConstants DEF CacheTypeOK, CacheConstants, Wordings
  <2> QED
    BY <1>1, <2>1 DEF CacheTypeOK
<1>4. CacheTypeOK'
  BY <1>1, <1>2, <1>3 DEF CacheTypeOK
<1>5. SearchTyped' /\ OpenPutIsCurrent'
  BY <1>2 DEF SearchTyped, OpenPutIsCurrent
<1>6. SettledIsStored' /\ SnapshotHasSettled'
  BY <1>1, <1>2, <1>3 DEF SettledIsStored, SnapshotHasSettled, CacheTypeOK
<1>7. FingerprintsAreBehind'
  BY <1>2 DEF FingerprintsAreBehind, Behind
<1> QED
  BY <1>4, <1>5, <1>6, <1>7

LEMMA SetStatusKeeps ==
  ASSUME CacheInv, SetStatus
  PROVE  CacheInv'
<1> USE DEF CacheInv
<1>1. PICK m \in Embeddable :
          /\ active' = IF m \in active THEN active \ {m} ELSE active \cup {m}
          /\ settled' = settled \ {m}
  BY DEF SetStatus
<1>2. ~tx.open /\ UNCHANGED <<wording, vectors, puts, tx, snapshot, search, used>>
  BY DEF SetStatus
<1>4. CacheTypeOK'
  BY <1>1, <1>2 DEF CacheTypeOK
<1>5. SearchTyped' /\ OpenPutIsCurrent'
  BY <1>2 DEF SearchTyped, OpenPutIsCurrent
<1>6. SettledIsStored' /\ SnapshotHasSettled'
  BY <1>1, <1>2 DEF SettledIsStored, SnapshotHasSettled
<1>7. FingerprintsAreBehind'
  BY <1>2 DEF FingerprintsAreBehind, Behind
<1> QED
  BY <1>4, <1>5, <1>6, <1>7

LEMMA PurgeVectorKeeps ==
  ASSUME CacheInv, PurgeVector
  PROVE  CacheInv'
<1> USE DEF CacheInv
<1>1. PICK m \in DOMAIN vectors \ active : vectors' = Restrict(vectors, DOMAIN vectors \ {m})
  BY DEF PurgeVector
<1>2. ~tx.open /\ UNCHANGED <<wording, active, puts, tx, snapshot, search, used, settled>>
  BY DEF PurgeVector
<1>3. DOMAIN vectors' = DOMAIN vectors \ {m} /\ \A n \in DOMAIN vectors' : vectors'[n] = vectors[n]
  BY <1>1 DEF Restrict
<1>4. CacheTypeOK'
  BY <1>2, <1>3 DEF CacheTypeOK
<1>5. SearchTyped' /\ OpenPutIsCurrent'
  BY <1>2 DEF SearchTyped, OpenPutIsCurrent
<1>6. SettledIsStored' /\ SnapshotHasSettled'
  BY <1>1, <1>2, <1>3 DEF SettledIsStored, SnapshotHasSettled
<1>7. FingerprintsAreBehind'
  BY <1>2 DEF FingerprintsAreBehind, Behind
<1> QED
  BY <1>4, <1>5, <1>6, <1>7

LEMMA PutKeeps ==
  ASSUME CacheInv, Put
  PROVE  CacheInv'
<1> USE DEF CacheInv
<1>1. PICK m \in active : tx' = [open |-> TRUE, of |-> m, text |-> wording[m], quiet |-> TRUE]
  BY DEF Put
<1>2. ~tx.open /\ puts < MaxPuts /\ puts' = puts + 1
      /\ UNCHANGED <<wording, active, vectors, snapshot, search, used, settled>>
  BY DEF Put
<1>3. puts \in Nat /\ puts' \in 0..MaxPuts
  BY <1>2, CacheConstants DEF CacheTypeOK, CacheConstants
<1>4. CacheTypeOK'
  <2>1. tx' \in [open : {TRUE}, of : Embeddable, text : Wordings, quiet : BOOLEAN]
    BY <1>1 DEF CacheTypeOK
  <2> QED
    BY <1>2, <1>3, <2>1 DEF CacheTypeOK
<1>5. SearchTyped' /\ OpenPutIsCurrent'
  BY <1>1, <1>2 DEF SearchTyped, OpenPutIsCurrent
<1>6. \A n \in Nat : n <= puts => n <= puts' /\ n < puts'
  BY <1>2, <1>3
<1>7. FingerprintsAreBehind'
  BY <1>2, <1>6 DEF FingerprintsAreBehind, Behind
<1>8. SettledIsStored'
  BY <1>2 DEF SettledIsStored
<1>9. SnapshotHasSettled'
  <2>1. snapshot = NoSnap \/ (snapshot.fp[3] \in Nat /\ snapshot.fp[3] <= puts)
    BY DEF FingerprintsAreBehind, Behind
  <2> QED
    BY <1>2, <1>3, <2>1 DEF SnapshotHasSettled
<1> QED
  BY <1>4, <1>5, <1>7, <1>8, <1>9

LEMMA PutCommitKeeps ==
  ASSUME CacheInv, PutCommit
  PROVE  CacheInv'
<1> USE DEF CacheInv
<1>1. /\ tx.open /\ Newest < MaxRowid /\ vectors' = Replaced(tx.of, tx.text) /\ tx' = NoTx
      /\ settled' = IF tx.quiet /\ search.step = "none" THEN settled \cup {tx.of} ELSE settled \ {tx.of}
      /\ UNCHANGED <<wording, active, puts, snapshot, search, used>>
  BY DEF PutCommit
<1>2. tx.of \in Embeddable /\ tx.text \in Wordings /\ tx.of \in active /\ tx.text = wording[tx.of]
  BY <1>1 DEF CacheTypeOK, OpenPutIsCurrent, NoTx
<1>3. /\ DOMAIN vectors' = DOMAIN vectors \cup {tx.of}
      /\ vectors'[tx.of].text = tx.text
      /\ \A n \in DOMAIN vectors : n # tx.of => vectors'[n] = vectors[n]
      /\ \A n \in DOMAIN vectors' : vectors'[n] \in [text : Wordings, rowid : 1..MaxRowid]
      /\ \A n, k \in DOMAIN vectors' : n # k => vectors'[n].rowid # vectors'[k].rowid
  <2>1. /\ DOMAIN Replaced(tx.of, tx.text) = DOMAIN vectors \cup {tx.of}
        /\ Replaced(tx.of, tx.text)[tx.of].text = tx.text
        /\ \A n \in DOMAIN vectors : n # tx.of => Replaced(tx.of, tx.text)[n] = vectors[n]
        /\ \A n \in DOMAIN Replaced(tx.of, tx.text) : Replaced(tx.of, tx.text)[n] \in [text : Wordings, rowid : 1..MaxRowid]
        /\ \A n, k \in DOMAIN Replaced(tx.of, tx.text) : n # k => Replaced(tx.of, tx.text)[n].rowid # Replaced(tx.of, tx.text)[k].rowid
    <3>1. CacheTypeOK /\ tx.of \in Embeddable /\ tx.text \in Wordings /\ Newest < MaxRowid
      BY <1>1, <1>2
    <3> HIDE DEF CacheInv
    <3> QED
      BY <3>1, ReplacedIs
  <2>2. vectors' = Replaced(tx.of, tx.text)
    BY <1>1
  <2> QED
    BY <2>1, <2>2
<1>4. CacheTypeOK'
  BY <1>1, <1>2, <1>3 DEF CacheTypeOK
<1>5. SearchTyped' /\ OpenPutIsCurrent'
  BY <1>1 DEF SearchTyped, OpenPutIsCurrent, NoTx
<1>6. SettledIsStored'
  BY <1>1, <1>2, <1>3 DEF SettledIsStored
<1>7. FingerprintsAreBehind'
  BY <1>1 DEF FingerprintsAreBehind, Behind, NoTx
<1>8. SnapshotHasSettled'
  <2>1. CASE tx.quiet
    <3>1. snapshot = NoSnap \/ snapshot.fp[3] # puts
      BY <1>1, <2>1 DEF FingerprintsAreBehind, Behind, CacheTypeOK
    <3> QED
      BY <1>1, <3>1 DEF SnapshotHasSettled
  <2>2. CASE ~tx.quiet
    BY <1>1, <2>2 DEF SnapshotHasSettled
  <2> QED
    BY <2>1, <2>2
<1> QED
  BY <1>4, <1>5, <1>6, <1>7, <1>8

LEMMA PutRollbackKeeps ==
  ASSUME CacheInv, PutRollback
  PROVE  CacheInv'
<1> USE DEF CacheInv
<1>1. tx' = NoTx /\ UNCHANGED <<wording, active, vectors, puts, snapshot, search, used, settled>>
  BY DEF PutRollback
<1> QED
  BY <1>1 DEF CacheTypeOK, SearchTyped, OpenPutIsCurrent, SettledIsStored,
              FingerprintsAreBehind, SnapshotHasSettled, Behind, NoTx

LEMMA PutElsewhereKeeps ==
  ASSUME CacheInv, PutElsewhere
  PROVE  CacheInv'
<1> USE DEF CacheInv
<1>1. PICK m \in active : vectors' = Replaced(m, wording[m])
  BY DEF PutElsewhere
<1>2. ~tx.open /\ Newest < MaxRowid
      /\ UNCHANGED <<wording, active, puts, tx, snapshot, search, used, settled>>
  BY DEF PutElsewhere
<1>3. m \in Embeddable /\ wording[m] \in Wordings
  BY DEF CacheTypeOK
<1>4. /\ DOMAIN vectors' = DOMAIN vectors \cup {m}
      /\ vectors'[m].text = wording[m]
      /\ \A n \in DOMAIN vectors : n # m => vectors'[n] = vectors[n]
      /\ \A n \in DOMAIN vectors' : vectors'[n] \in [text : Wordings, rowid : 1..MaxRowid]
      /\ \A n, k \in DOMAIN vectors' : n # k => vectors'[n].rowid # vectors'[k].rowid
  <2>1. /\ DOMAIN Replaced(m, wording[m]) = DOMAIN vectors \cup {m}
        /\ Replaced(m, wording[m])[m].text = wording[m]
        /\ \A n \in DOMAIN vectors : n # m => Replaced(m, wording[m])[n] = vectors[n]
        /\ \A n \in DOMAIN Replaced(m, wording[m]) : Replaced(m, wording[m])[n] \in [text : Wordings, rowid : 1..MaxRowid]
        /\ \A n, k \in DOMAIN Replaced(m, wording[m]) : n # k => Replaced(m, wording[m])[n].rowid # Replaced(m, wording[m])[k].rowid
    BY <1>1, <1>2, <1>3, ReplacedIs
  <2>2. vectors' = Replaced(m, wording[m])
    BY <1>1
  <2> QED
    BY <2>1, <2>2
<1>5. CacheTypeOK'
  BY <1>2, <1>3, <1>4 DEF CacheTypeOK
<1>6. SearchTyped' /\ OpenPutIsCurrent' /\ FingerprintsAreBehind' /\ SnapshotHasSettled'
  BY <1>2 DEF SearchTyped, OpenPutIsCurrent, FingerprintsAreBehind, SnapshotHasSettled, Behind
<1>7. SettledIsStored'
  BY <1>2, <1>4 DEF SettledIsStored
<1> QED
  BY <1>5, <1>6, <1>7

LEMMA LoadedType ==
  ASSUME CacheTypeOK
  PROVE  Loaded \subseteq (Embeddable \X Wordings)
  BY DEF CacheTypeOK, Loaded

LEMMA FingerprintIs == Fingerprint[3] = puts /\ Fingerprint # NoSnap.fp
  BY DEF Fingerprint, NoSnap

LEMMA LookKeeps ==
  ASSUME CacheInv, Look
  PROVE  CacheInv'
<1> USE DEF CacheInv
<1>1. /\ search.step = "none"
      /\ search' = IF snapshot.fp = Fingerprint
                   THEN [step |-> "use", served |-> snapshot.served]
                   ELSE [step |-> "build", fp |-> Fingerprint]
      /\ used' = {} /\ tx' = IF tx.open THEN [tx EXCEPT !.quiet = FALSE] ELSE tx
      /\ UNCHANGED <<wording, active, vectors, puts, snapshot, settled>>
  BY DEF Look
<1>2. /\ tx.open => /\ tx' \in [open : {TRUE}, of : Embeddable, text : Wordings, quiet : BOOLEAN]
                    /\ tx'.of = tx.of /\ tx'.text = tx.text /\ ~tx'.quiet
      /\ ~tx.open => tx' = tx
      /\ tx'.open => tx.open
  <2>1. CASE tx.open
    <3>1. tx \in [open : {TRUE}, of : Embeddable, text : Wordings, quiet : BOOLEAN]
      <4>1. tx # NoTx
        BY <2>1 DEF NoTx
      <4> QED
        BY <4>1 DEF CacheTypeOK
    <3> QED
      BY <1>1, <2>1, <3>1
  <2>2. CASE ~tx.open
    BY <1>1, <2>2
  <2> QED
    BY <2>1, <2>2
<1>3. CacheTypeOK'
  BY <1>1, <1>2 DEF CacheTypeOK
<1>4. SearchTyped' /\ OpenPutIsCurrent' /\ SettledIsStored'
  BY <1>1, <1>2 DEF SearchTyped, OpenPutIsCurrent, SettledIsStored, CacheTypeOK
<1>5. FingerprintsAreBehind'
  <2>0. puts \in Nat
    BY DEF CacheTypeOK
  <2>1. ~(tx'.open /\ tx'.quiet)
    BY <1>2
  <2>2. search'.step = "build" => search'.fp[3] = puts
    BY <1>1, FingerprintIs
  <2> QED
    BY <1>1, <2>0, <2>1, <2>2 DEF FingerprintsAreBehind, Behind
<1>6. SnapshotHasSettled'
  BY <1>1 DEF SnapshotHasSettled
<1> QED
  BY <1>3, <1>4, <1>5, <1>6

LEMMA BuildKeeps ==
  ASSUME CacheInv, Build
  PROVE  CacheInv'
<1> USE DEF CacheInv
<1>1. /\ search.step = "build" /\ snapshot' = [fp |-> search.fp, served |-> Loaded]
      /\ search' = [step |-> "use", served |-> Loaded]
      /\ UNCHANGED <<wording, active, vectors, puts, tx, used, settled>>
  BY DEF Build, store
<1>2. CacheTypeOK' /\ SearchTyped'
  BY <1>1, LoadedType DEF CacheTypeOK, SearchTyped
<1>3. OpenPutIsCurrent' /\ SettledIsStored' /\ FingerprintsAreBehind'
  BY <1>1 DEF OpenPutIsCurrent, SettledIsStored, FingerprintsAreBehind, Behind
<1>4. SnapshotHasSettled'
  <2>1. \A m \in settled : <<m, wording[m]>> \in Loaded
    BY DEF SettledIsStored, Loaded
  <2> QED
    BY <1>1, <2>1 DEF SnapshotHasSettled
<1> QED
  BY <1>2, <1>3, <1>4

LEMMA UseKeeps ==
  ASSUME CacheInv, Use
  PROVE  CacheInv'
<1> USE DEF CacheInv
<1>1. /\ search.step = "use" /\ used' = {p \in search.served : p[1] \in active}
      /\ search' = [step |-> "none"]
      /\ UNCHANGED <<wording, active, vectors, puts, tx, snapshot, settled>>
  BY DEF Use, store
<1>2. CacheTypeOK'
  BY <1>1 DEF CacheTypeOK, SearchTyped
<1> QED
  BY <1>1, <1>2 DEF SearchTyped, OpenPutIsCurrent, SettledIsStored, FingerprintsAreBehind,
                    SnapshotHasSettled, Behind

LEMMA NextKeepsCache == CacheInv /\ [CacheNext]_cacheVars => CacheInv'
<1> SUFFICES ASSUME CacheInv, [CacheNext]_cacheVars PROVE CacheInv'
  OBVIOUS
<1>1. CASE UNCHANGED cacheVars
  BY <1>1 DEF cacheVars, CacheInv, CacheTypeOK, SearchTyped, OpenPutIsCurrent, SettledIsStored,
              FingerprintsAreBehind, SnapshotHasSettled, Behind
<1>2. CASE CacheNext
  BY <1>2, EditTextKeeps, SetStatusKeeps, PurgeVectorKeeps, PutKeeps, PutCommitKeeps, PutRollbackKeeps,
     PutElsewhereKeeps, LookKeeps, BuildKeeps, UseKeeps DEF CacheNext
<1> QED
  BY <1>1, <1>2

LEMMA CacheIsInvariant == CacheSpec => []CacheInv
  BY CacheBegins, NextKeepsCache, PTL DEF CacheSpec

(* Every variable has its type, and no two vectors one rowid. *)
THEOREM CacheTypes == CacheSpec => []CacheTypeOK
  BY CacheIsInvariant, PTL DEF CacheInv

(* A search that takes the snapshot finds what this process has put.       *)
THEOREM PutsAreSeen == CacheSpec => OwnPutSeen
<1>1. CacheInv /\ [CacheNext]_cacheVars =>
         (search.step = "none" /\ search'.step = "use" =>
             \A m \in settled : \E p \in search'.served : p = <<m, wording[m]>>)
         \/ UNCHANGED cacheVars
  <2> SUFFICES ASSUME CacheInv, CacheNext, search.step = "none", search'.step = "use", NEW m \in settled
               PROVE  <<m, wording[m]>> \in search'.served
    OBVIOUS
  <2>1. Look
    BY DEF CacheNext, EditText, SetStatus, PurgeVector, Put, PutCommit, PutRollback, PutElsewhere, Build, Use
  <2>2. snapshot.fp = Fingerprint /\ search'.served = snapshot.served
    BY <2>1 DEF Look
  <2> QED
    BY <2>2, FingerprintIs DEF CacheInv, SnapshotHasSettled
<1> QED
  BY <1>1, CacheIsInvariant, PTL DEF CacheSpec, OwnPutSeen

-----------------------------------------------------------------------------
(* Entities.                                                               *)

(* The inductive invariant of the entities.                                *)

Keys == Profiles \X Phrases

(* A sighting list has one memory at most: of its profile, which proposed  *)
(* the name and has not been purged. *)
SightingIsEarned(key) ==
    \/ sighted[key] = <<>>
    \/ \E m \in MemoryRows : /\ sighted[key] = <<m>> /\ Profile[m] = key[1]
                             /\ <<m, key[2]>> \in said /\ rowStatus[m] # "purged"

Sightings == DOMAIN sighted = Keys /\ \A key \in Keys : SightingIsEarned(key)

ProposedIsSaid == \A m \in MemoryRows : \A p \in rowText[m].proposes : <<m, p>> \in said

ProposedByTwo(e) ==
    \E m, n \in MemoryRows : /\ m # n /\ Profile[m] = e[1] /\ Profile[n] = e[1]
                             /\ <<m, e[2]>> \in said /\ <<n, e[2]>> \in said

EntityHasTwo == \A e \in entities : ProposedByTwo(e)

(* What a live memory proposes is known or sighted in it once its job is done. *)
LinkedOrSighted ==
    \A m \in MemoryRows : rowStatus[m] = "active" /\ m \notin linkJobs =>
        \A p \in rowText[m].proposes : Called(p) # {} \/ sighted[<<Profile[m], p>>] = <<m>>

LinksAreOfRows == \A l \in links : rowStatus[l[1]] # "purged"

EntitiesInv ==
    /\ EntitiesTypeOK
    /\ Sightings /\ ProposedIsSaid /\ EntityHasTwo /\ LinkedOrSighted /\ LinksAreOfRows

-----------------------------------------------------------------------------
(* The sighting lists.                                                     *)

LEMMA OneIn == \A m : ToSet(<<m>>) = {m} /\ DOMAIN <<m>> = 1..1 /\ Len(<<m>>) = 1 /\ <<m>> # <<>>
  BY DEF ToSet

LEMMA WithoutOne ==
  ASSUME NEW m, NEW n
  PROVE  /\ Without(<<>>, m) = <<>>
         /\ Without(<<m>>, m) = <<>>
         /\ m # n => Without(<<n>>, m) = <<n>>
<1>1. Without(<<>>, m) = <<>>
  BY DEF Without, ToSet
<1>2. Without(<<m>>, m) = <<>>
  <2>1. (CHOOSE i \in DOMAIN <<m>> : <<m>>[i] = m) = 1
    BY OneIn
  <2>2. RemoveAt(<<m>>, 1) = <<>>
    BY DEF RemoveAt
  <2> QED
    BY <2>1, <2>2, OneIn DEF Without
<1>3. m # n => Without(<<n>>, m) = <<n>>
  BY OneIn DEF Without
<1> QED
  BY <1>1, <1>2, <1>3

LEMMA OldestIsFirst ==
  ASSUME NEW k \in Int, k <= 1
  PROVE  Max({1, k}) = 1
<1>1. 1 \in {1, k} /\ \A y \in {1, k} : 1 >= y
  OBVIOUS
<1>2. \A x \in {1, k} : (\A y \in {1, k} : x >= y) => x = 1
  OBVIOUS
<1> QED
  BY <1>1, <1>2 DEF Max

LEMMA CapFits ==
  ASSUME NEW l \in {1, 2}, NEW c \in Nat, c >= 2
  PROVE  l - c + 1 \in Int /\ l - c + 1 <= 1
  OBVIOUS

LEMMA BumpedIs ==
  ASSUME NEW key, NEW m \in MemoryRows, NEW n \in MemoryRows
  PROVE  /\ sighted[key] = <<>> => Bumped(key, m) = <<m>>
         /\ sighted[key] = <<m>> => Bumped(key, m) = <<m>>
         /\ sighted[key] = <<n>> /\ n # m => Len(Bumped(key, m)) = 2
<1>0. SeenCap \in Nat /\ SeenCap >= 2
  BY EntityConstants DEF EntityConstants
<1>1. ASSUME NEW all \in Seq(MemoryRows), Len(all) \in {1, 2}
      PROVE  SubSeq(all, Max({1, Len(all) - SeenCap + 1}), Len(all)) = all
  <2>1. Len(all) - SeenCap + 1 \in Int /\ Len(all) - SeenCap + 1 <= 1
    BY <1>0, <1>1, CapFits
  <2>2. Max({1, Len(all) - SeenCap + 1}) = 1
    BY <2>1, OldestIsFirst
  <2>3. SubSeq(all, 1, Len(all)) = all
    BY <1>1, SubSeqFull
  <2> QED
    BY <2>2, <2>3
<1>2. /\ <<m>> \in Seq(MemoryRows) /\ Len(<<m>>) = 1
      /\ Append(<<n>>, m) \in Seq(MemoryRows) /\ Len(Append(<<n>>, m)) = 2
  OBVIOUS
<1>3. ASSUME sighted[key] = <<>> PROVE Bumped(key, m) = <<m>>
  <2>1. m \notin ToSet(sighted[key]) /\ Append(sighted[key], m) = <<m>>
    BY <1>3 DEF ToSet
  <2>2. (IF m \in ToSet(sighted[key]) THEN sighted[key] ELSE Append(sighted[key], m)) = <<m>>
    BY <2>1
  <2> QED
    BY <1>1, <1>2, <2>2 DEF Bumped
<1>4. ASSUME sighted[key] = <<m>> PROVE Bumped(key, m) = <<m>>
  <2>1. (IF m \in ToSet(sighted[key]) THEN sighted[key] ELSE Append(sighted[key], m)) = <<m>>
    BY <1>4, OneIn
  <2> QED
    BY <1>1, <1>2, <2>1 DEF Bumped
<1>5. ASSUME sighted[key] = <<n>>, n # m PROVE Len(Bumped(key, m)) = 2
  <2>1. (IF m \in ToSet(sighted[key]) THEN sighted[key] ELSE Append(sighted[key], m)) = Append(<<n>>, m)
    BY <1>5, OneIn
  <2> QED
    BY <1>1, <1>2, <2>1 DEF Bumped
<1> QED
  BY <1>3, <1>4, <1>5

-----------------------------------------------------------------------------
LEMMA ShortList ==
  ASSUME NEW s, s = <<>> \/ \E m \in MemoryRows : s = <<m>>
  PROVE  s \in Seq(MemoryRows) /\ Len(s) <= SeenCap
<1>1. SeenCap \in Nat /\ SeenCap >= 2
  BY EntityConstants DEF EntityConstants
<1>2. CASE s = <<>>
  BY <1>1, <1>2
<1>3. CASE \E m \in MemoryRows : s = <<m>>
  <2>1. PICK m \in MemoryRows : s = <<m>>
    BY <1>3
  <2> QED
    BY <1>1, <2>1
<1> QED
  BY <1>2, <1>3

(* What a link does. *)

NewEntity(m, e) ==
    \E p \in rowText[m].proposes : \E n \in MemoryRows :
        e = <<Profile[m], p>> /\ n # m /\ sighted[e] = <<n>>

LEMMA LinkDoes ==
  ASSUME EntitiesInv, NEW m \in MemoryRows, rowStatus[m] # "purged", Link(m)
  PROVE  /\ entities \subseteq entities' /\ \A e \in entities' \ entities : e \in Keys /\ NewEntity(m, e)
         /\ links' \subseteq links \cup ({m} \X entities')
         /\ DOMAIN sighted' = Keys
         /\ \A p \in rowText[m].proposes :
                (\E e \in entities' : e[2] = p) \/ sighted'[<<Profile[m], p>>] = <<m>>
         /\ \A k \in Keys :
              /\ \/ sighted'[k] = sighted[k] \/ sighted'[k] = <<>>
                 \/ sighted'[k] = <<m>> /\ k[1] = Profile[m] /\ k[2] \in rowText[m].proposes
              /\ \/ sighted'[k] = sighted[k] \/ sighted[k] = <<>> \/ \E e \in entities' : e[2] = k[2]
<1> DEFINE unknown == {p \in rowText[m].proposes : Called(p) = {}}
           key(p) == <<Profile[m], p>>
           born == {p \in unknown : Len(Bumped(key(p), m)) >= 2}
<1>1. entities' = entities \cup {key(p) : p \in born}
  BY DEF Link
<1>2. PICK f \in Resolutions(rowText[m].names) :
          links' = links \cup {<<m, e>> : e \in {f[p] : p \in DOMAIN f} \cup {key(p) : p \in born}}
  BY DEF Link
<1>3. sighted' = [k \in DOMAIN sighted |->
                     IF k[1] # Profile[m] \/ k[2] \notin unknown THEN sighted[k]
                     ELSE IF k[2] \in born THEN <<>> ELSE Bumped(k, m)]
  BY DEF Link
<1>4. \A p \in rowText[m].proposes : key(p) \in Keys
  <2>1. rowText[m] \in RowTexts \cup {Unsaid}
    BY DEF EntitiesInv, EntitiesTypeOK
  <2>2. rowText[m].proposes \subseteq Phrases
    BY <2>1, EntityConstants DEF EntityConstants, Unsaid
  <2> QED
    BY <2>2 DEF Keys, Profiles
<1>5. \A k \in Keys : SightingIsEarned(k)
  BY DEF EntitiesInv, Sightings
<1>6. DOMAIN sighted = Keys
  BY DEF EntitiesInv, Sightings
<1>7. \A k \in Keys : k[1] = Profile[m] => k = key(k[2])
  BY DEF Keys
<1>8. ASSUME NEW k \in Keys
      PROVE  \/ sighted[k] = <<>> /\ Bumped(k, m) = <<m>>
             \/ sighted[k] = <<m>> /\ Bumped(k, m) = <<m>>
             \/ Len(Bumped(k, m)) = 2 /\ \E n \in MemoryRows : n # m /\ sighted[k] = <<n>>
  BY <1>5, <1>8, BumpedIs DEF SightingIsEarned
<1>9. Len(<<m>>) = 1
  OBVIOUS
<1> HIDE DEF born
<1>10. \A p \in unknown : p \in born <=> Len(Bumped(key(p), m)) >= 2
  BY DEF born
<1>11. born \subseteq unknown /\ unknown \subseteq rowText[m].proposes
  BY DEF born
<1>12. \A e \in entities' \ entities : e \in Keys /\ NewEntity(m, e)
  <2> SUFFICES ASSUME NEW p \in born PROVE key(p) \in Keys /\ NewEntity(m, key(p))
    BY <1>1
  <2>1. p \in rowText[m].proposes /\ key(p) \in Keys /\ Len(Bumped(key(p), m)) >= 2
    BY <1>4, <1>10, <1>11
  <2>2. Bumped(key(p), m) # <<m>>
    <3>1. ~(1 >= 2)
      OBVIOUS
    <3> QED
      BY <1>9, <2>1, <3>1, Zenon
  <2>3. \E n \in MemoryRows : n # m /\ sighted[key(p)] = <<n>>
    BY <1>8, <2>1, <2>2
  <2> QED
    BY <2>1, <2>3 DEF NewEntity
<1>13. links' \subseteq links \cup ({m} \X entities')
  BY <1>1, <1>2 DEF Resolutions
<1>14. ASSUME NEW p \in rowText[m].proposes
       PROVE  (\E e \in entities' : e[2] = p) \/ sighted'[key(p)] = <<m>>
  <2>1. CASE p \notin unknown
    BY <1>1, <2>1 DEF Called
  <2>2. CASE p \in born
    <3>1. key(p) \in entities' /\ key(p)[2] = p
      BY <1>1, <2>2
    <3> QED
      BY <3>1
  <2>3. CASE p \in unknown /\ p \notin born
    <3>1. key(p) \in Keys /\ key(p)[1] = Profile[m] /\ key(p)[2] = p
      BY <1>4
    <3>2. sighted'[key(p)] = Bumped(key(p), m)
      BY <1>3, <1>6, <2>3, <3>1
    <3> QED
      BY <1>8, <1>10, <2>3, <3>1, <3>2
  <2> QED
    BY <2>1, <2>2, <2>3
<1>15. ASSUME NEW k \in Keys
       PROVE  /\ \/ sighted'[k] = sighted[k] \/ sighted'[k] = <<>>
                 \/ sighted'[k] = <<m>> /\ k[1] = Profile[m] /\ k[2] \in rowText[m].proposes
              /\ \/ sighted'[k] = sighted[k] \/ sighted[k] = <<>> \/ \E e \in entities' : e[2] = k[2]
  <2>1. CASE k[1] # Profile[m] \/ k[2] \notin unknown
    BY <1>3, <1>6, <2>1
  <2>2. CASE k[1] = Profile[m] /\ k[2] \in born
    <3>1. sighted'[k] = <<>>
      BY <1>3, <1>6, <1>11, <2>2
    <3>2. key(k[2]) \in entities' /\ key(k[2])[2] = k[2]
      BY <1>1, <2>2
    <3> QED
      BY <3>1, <3>2
  <2>3. CASE k[1] = Profile[m] /\ k[2] \in unknown /\ k[2] \notin born
    <3>1. sighted'[k] = Bumped(k, m)
      BY <1>3, <1>6, <2>3
    <3>2. k = key(k[2])
      BY <1>7, <2>3
    <3> QED
      BY <1>8, <1>10, <1>11, <2>3, <3>1, <3>2
  <2> QED
    BY <2>1, <2>2, <2>3
<1> QED
  BY <1>1, <1>3, <1>6, <1>12, <1>13, <1>14, <1>15

(* A step of the jobs: a link, or none. *)
LEMMA LinkKeeps ==
  ASSUME EntitiesInv, NEW m \in MemoryRows, rowStatus[m] \in {"active", "pending"}, Link(m),
         UNCHANGED <<rowStatus, rowText, said>>, linkJobs' \subseteq linkJobs, linkJobs \ {m} \subseteq linkJobs'
  PROVE  EntitiesInv'
<1>1. /\ entities \subseteq entities' /\ \A e \in entities' \ entities : e \in Keys /\ NewEntity(m, e)
      /\ links' \subseteq links \cup ({m} \X entities')
      /\ DOMAIN sighted' = Keys
      /\ \A p \in rowText[m].proposes :
             (\E e \in entities' : e[2] = p) \/ sighted'[<<Profile[m], p>>] = <<m>>
      /\ \A k \in Keys :
           /\ \/ sighted'[k] = sighted[k] \/ sighted'[k] = <<>>
              \/ sighted'[k] = <<m>> /\ k[1] = Profile[m] /\ k[2] \in rowText[m].proposes
           /\ \/ sighted'[k] = sighted[k] \/ sighted[k] = <<>> \/ \E e \in entities' : e[2] = k[2]
  BY LinkDoes
<1>2. ProposedIsSaid'
  BY DEF EntitiesInv, ProposedIsSaid
<1>3. Sightings'
  <2> SUFFICES ASSUME NEW k \in Keys PROVE SightingIsEarned(k)'
    BY <1>1 DEF Sightings
  <2>1. SightingIsEarned(k)
    BY DEF EntitiesInv, Sightings
  <2>2. \A p \in rowText[m].proposes : <<m, p>> \in said
    BY DEF EntitiesInv, ProposedIsSaid
  <2>3. CASE sighted'[k] = sighted[k] \/ sighted'[k] = <<>>
    BY <2>1, <2>3 DEF SightingIsEarned
  <2>4. CASE sighted'[k] = <<m>> /\ k[1] = Profile[m] /\ k[2] \in rowText[m].proposes
    BY <2>2, <2>4 DEF SightingIsEarned
  <2> QED
    BY <1>1, <2>3, <2>4
<1>4. EntityHasTwo'
  <2>1. \A e \in entities : ProposedByTwo(e)
    BY DEF EntitiesInv, EntityHasTwo
  <2>2. ASSUME NEW e \in entities' \ entities PROVE ProposedByTwo(e)
    <3>1. PICK p \in rowText[m].proposes, n \in MemoryRows :
              e = <<Profile[m], p>> /\ n # m /\ sighted[e] = <<n>> /\ e \in Keys
      BY <1>1 DEF NewEntity
    <3>2. <<m, p>> \in said
      BY DEF EntitiesInv, ProposedIsSaid
    <3>3. SightingIsEarned(e)
      BY <3>1 DEF EntitiesInv, Sightings
    <3>4. PICK k \in MemoryRows : sighted[e] = <<k>> /\ Profile[k] = e[1] /\ <<k, e[2]>> \in said
      <4>1. sighted[e] # <<>>
        BY <3>1, OneIn
      <4> QED
        BY <3>3, <4>1 DEF SightingIsEarned
    <3>5. k = n
      BY <3>1, <3>4
    <3> QED
      BY <3>1, <3>2, <3>4, <3>5 DEF ProposedByTwo
  <2>3. \A e \in entities' : ProposedByTwo(e)
    BY <2>1, <2>2
  <2> QED
    BY <2>3 DEF EntityHasTwo, ProposedByTwo
<1>5. LinkedOrSighted'
  <2> SUFFICES ASSUME NEW n \in MemoryRows, rowStatus[n] = "active", n \notin linkJobs',
                      NEW p \in rowText[n].proposes
               PROVE  (\E e \in entities' : e[2] = p) \/ sighted'[<<Profile[n], p>>] = <<n>>
    BY DEF LinkedOrSighted, Called
  <2>1. CASE n = m
    BY <1>1, <2>1
  <2>2. CASE n # m
    <3>1. Called(p) # {} \/ sighted[<<Profile[n], p>>] = <<n>>
      BY <2>2 DEF EntitiesInv, LinkedOrSighted
    <3>2. CASE Called(p) # {}
      BY <1>1, <3>2 DEF Called
    <3>3. CASE sighted[<<Profile[n], p>>] = <<n>>
      <4>1. rowText[n].proposes \subseteq Phrases
        <5>1. rowText[n] \in RowTexts \cup {Unsaid}
          BY DEF EntitiesInv, EntitiesTypeOK
        <5> QED
          BY <5>1, EntityConstants DEF EntityConstants, Unsaid
      <4>2. <<Profile[n], p>> \in Keys
        BY <4>1 DEF Keys, Profiles
      <4>3. <<n>> # <<>>
        OBVIOUS
      <4> QED
        BY <1>1, <3>3, <4>2, <4>3
    <3> QED
      BY <3>1, <3>2, <3>3
  <2> QED
    BY <2>1, <2>2
<1>6. LinksAreOfRows'
  BY <1>1 DEF EntitiesInv, LinksAreOfRows
<1>7. EntitiesTypeOK'
  <2>1. entities' \subseteq Profiles \X Phrases
    BY <1>1 DEF EntitiesInv, EntitiesTypeOK, Keys
  <2>2. links' \subseteq MemoryRows \X entities'
    BY <1>1 DEF EntitiesInv, EntitiesTypeOK
  <2>3. \A k \in Profiles \X Phrases : sighted'[k] \in Seq(MemoryRows) /\ Len(sighted'[k]) <= SeenCap
    <3> SUFFICES ASSUME NEW k \in Keys
                 PROVE  sighted'[k] \in Seq(MemoryRows) /\ Len(sighted'[k]) <= SeenCap
      BY DEF Keys
    <3>1. sighted'[k] = <<>> \/ \E n \in MemoryRows : sighted'[k] = <<n>>
      BY <1>3 DEF Sightings, SightingIsEarned
    <3> QED
      BY <3>1, ShortList
  <2> QED
    BY <2>1, <2>2, <2>3 DEF EntitiesInv, EntitiesTypeOK
<1> QED
  BY <1>2, <1>3, <1>4, <1>5, <1>6, <1>7 DEF EntitiesInv

-----------------------------------------------------------------------------
(* The store's steps.                                                      *)

LEMMA EntitiesBegin ==
  ASSUME EntitiesInit
  PROVE  EntitiesInv
<1>1. \A k \in Keys : sighted[k] = <<>>
  BY DEF EntitiesInit, Keys
<1>2. EntitiesTypeOK
  <2>1. \A k \in Keys : sighted[k] \in Seq(MemoryRows) /\ Len(sighted[k]) <= SeenCap
    BY <1>1, ShortList
  <2> QED
    BY <2>1 DEF EntitiesInit, EntitiesTypeOK, Keys
<1> QED
  BY <1>1, <1>2 DEF EntitiesInit, EntitiesInv, Sightings, SightingIsEarned, ProposedIsSaid, EntityHasTwo,
                    LinkedOrSighted, LinksAreOfRows, Unsaid, Keys

(* A step that leaves the entities alone, adds to what is said, and gives  *)
(* a job to whatever becomes live or says something else. *)
Plain(m) ==
    /\ entities' = entities /\ links' = links /\ sighted' = sighted /\ said \subseteq said'
    /\ linkJobs \subseteq linkJobs'
    /\ \A n \in MemoryRows : n # m => rowStatus'[n] = rowStatus[n] /\ rowText'[n] = rowText[n]
    /\ rowStatus'[m] # "purged"
    /\ rowStatus'[m] = "active" => m \in linkJobs'
    /\ \A p \in rowText'[m].proposes : <<m, p>> \in said'
    /\ rowStatus' \in [MemoryRows -> {"none", "pending", "active", "deleted", "purged"}]
    /\ rowText' \in [MemoryRows -> RowTexts \cup {Unsaid}]
    /\ linkJobs' \subseteq MemoryRows /\ said' \subseteq MemoryRows \X Phrases

LEMMA PlainKeeps ==
  ASSUME EntitiesInv, NEW m \in MemoryRows, Plain(m)
  PROVE  EntitiesInv'
<1> USE DEF EntitiesInv, Plain
<1>1. EntitiesTypeOK'
  BY DEF EntitiesTypeOK
<1>2. Sightings'
  <2> SUFFICES ASSUME NEW k \in Keys PROVE SightingIsEarned(k)'
    BY DEF Sightings
  <2>1. sighted'[k] = sighted[k] /\ SightingIsEarned(k)
    BY DEF Sightings
  <2>2. \A n \in MemoryRows : rowStatus[n] # "purged" => rowStatus'[n] # "purged"
    OBVIOUS
  <2> QED
    BY <2>1, <2>2 DEF SightingIsEarned
<1>3. ProposedIsSaid'
  BY DEF ProposedIsSaid
<1>4. EntityHasTwo'
  BY DEF EntityHasTwo, ProposedByTwo
<1>5. LinkedOrSighted'
  BY DEF LinkedOrSighted, Called
<1>6. LinksAreOfRows'
  BY DEF LinksAreOfRows, EntitiesTypeOK
<1> QED
  BY <1>1, <1>2, <1>3, <1>4, <1>5, <1>6

LEMMA StoreStepsArePlain ==
  ASSUME EntitiesInv, NEW m \in MemoryRows,
         \/ \E t \in RowTexts : EditRow(m, t) \/ \E st \in {"active", "pending"} : AddRow(m, t, st)
         \/ Revive(m)
  PROVE  Plain(m)
<1>1. ASSUME NEW t \in RowTexts
      PROVE  t.proposes \subseteq Phrases
  BY EntityConstants DEF EntityConstants
<1>2. CASE \E t \in RowTexts : EditRow(m, t)
  <2>1. PICK t \in RowTexts : EditRow(m, t)
    BY <1>2
  <2>2. /\ rowText' = [rowText EXCEPT ![m] = t] /\ said' = said \cup ({m} \X t.proposes)
        /\ linkJobs' = linkJobs \cup {m} /\ rowStatus' = rowStatus /\ rowStatus[m] \in {"active", "pending"}
        /\ entities' = entities /\ links' = links /\ sighted' = sighted
    BY <2>1 DEF EditRow, Says
  <2> QED
    BY <1>1, <2>2 DEF Plain, EntitiesInv, EntitiesTypeOK
<1>3. CASE \E t \in RowTexts, st \in {"active", "pending"} : AddRow(m, t, st)
  <2>1. PICK t \in RowTexts, st \in {"active", "pending"} : AddRow(m, t, st)
    BY <1>3
  <2>2. /\ rowText' = [rowText EXCEPT ![m] = t] /\ said' = said \cup ({m} \X t.proposes)
        /\ linkJobs' = IF st = "active" THEN linkJobs \cup {m} ELSE linkJobs
        /\ rowStatus' = [rowStatus EXCEPT ![m] = st]
        /\ entities' = entities /\ links' = links /\ sighted' = sighted
    BY <2>1 DEF AddRow, Says
  <2> QED
    BY <1>1, <2>2 DEF Plain, EntitiesInv, EntitiesTypeOK
<1>4. CASE Revive(m)
  BY <1>4 DEF Revive, Plain, EntitiesInv, EntitiesTypeOK, ProposedIsSaid
<1> QED
  BY <1>2, <1>3, <1>4

LEMMA ForgetRowKeeps ==
  ASSUME EntitiesInv, NEW m \in MemoryRows, ForgetRow(m)
  PROVE  EntitiesInv'
<1>1. Plain(m)
  BY DEF ForgetRow, Plain, EntitiesInv, EntitiesTypeOK, ProposedIsSaid
<1> QED
  BY <1>1, PlainKeeps

LEMMA PurgeRowKeeps ==
  ASSUME EntitiesInv, NEW m \in MemoryRows, PurgeRow(m)
  PROVE  EntitiesInv'
<1>1. /\ rowStatus' = [rowStatus EXCEPT ![m] = "purged"] /\ rowText' = [rowText EXCEPT ![m] = Unsaid]
      /\ links' = {l \in links : l[1] # m} /\ sighted' = ForgetSightings(m)
      /\ UNCHANGED <<linkJobs, entities, said, says>>
  BY DEF PurgeRow
<1>2. /\ rowStatus' \in [MemoryRows -> {"none", "pending", "active", "deleted", "purged"}]
      /\ rowText' \in [MemoryRows -> RowTexts \cup {Unsaid}]
      /\ rowStatus'[m] = "purged" /\ rowText'[m] = Unsaid
      /\ \A n \in MemoryRows : n # m => rowStatus'[n] = rowStatus[n] /\ rowText'[n] = rowText[n]
  BY <1>1 DEF EntitiesInv, EntitiesTypeOK
<1>3. Unsaid.proposes = {}
  BY DEF Unsaid
<1>4. DOMAIN sighted' = Keys
  BY <1>1 DEF ForgetSightings, EntitiesInv, Sightings
<1>5. ASSUME NEW k \in Keys
      PROVE  /\ sighted'[k] = <<>> \/ sighted'[k] = sighted[k]
             /\ \A n \in MemoryRows : n # m /\ sighted[k] = <<n>> => sighted'[k] = <<n>>
             /\ sighted[k] = <<m>> /\ k[1] = Profile[m] => sighted'[k] = <<>>
  <2>1. sighted'[k] = IF k[1] = Profile[m] THEN Without(sighted[k], m) ELSE sighted[k]
    BY <1>1 DEF ForgetSightings, EntitiesInv, Sightings
  <2>2. SightingIsEarned(k)
    BY DEF EntitiesInv, Sightings
  <2>3. sighted[k] = <<>> \/ sighted[k] = <<m>> \/ \E n \in MemoryRows : n # m /\ sighted[k] = <<n>>
    BY <2>2 DEF SightingIsEarned
  <2>4. \A n : n # m => <<n>> # <<m>>
    BY OneIn
  <2> QED
    BY <2>1, <2>3, <2>4, OneIn, WithoutOne
<1>6. Sightings'
  <2> SUFFICES ASSUME NEW k \in Keys PROVE SightingIsEarned(k)'
    BY <1>4 DEF Sightings
  <2>1. SightingIsEarned(k)
    BY DEF EntitiesInv, Sightings
  <2>2. CASE sighted'[k] = <<>>
    BY <2>2 DEF SightingIsEarned
  <2>3. CASE sighted'[k] # <<>>
    <3>1. sighted'[k] = sighted[k]
      BY <1>5, <2>3
    <3>2. PICK n \in MemoryRows : /\ sighted[k] = <<n>> /\ Profile[n] = k[1]
                                  /\ <<n, k[2]>> \in said /\ rowStatus[n] # "purged"
      BY <2>1, <2>3, <3>1 DEF SightingIsEarned
    <3>3. n # m
      BY <1>5, <2>3, <3>2
    <3> QED
      BY <1>1, <1>2, <3>1, <3>2, <3>3 DEF SightingIsEarned
  <2> QED
    BY <2>2, <2>3
<1>7. EntitiesTypeOK'
  <2>1. \A k \in Keys : sighted'[k] \in Seq(MemoryRows) /\ Len(sighted'[k]) <= SeenCap
    <3> SUFFICES ASSUME NEW k \in Keys
                 PROVE  sighted'[k] \in Seq(MemoryRows) /\ Len(sighted'[k]) <= SeenCap
      OBVIOUS
    <3>1. sighted'[k] = <<>> \/ \E n \in MemoryRows : sighted'[k] = <<n>>
      BY <1>6 DEF Sightings, SightingIsEarned
    <3> QED
      BY <3>1, ShortList
  <2> QED
    BY <1>1, <1>2, <2>1 DEF EntitiesInv, EntitiesTypeOK, Keys
<1>8. ProposedIsSaid' /\ EntityHasTwo'
  BY <1>1, <1>2, <1>3 DEF EntitiesInv, ProposedIsSaid, EntityHasTwo, ProposedByTwo
<1>9. LinkedOrSighted'
  <2> SUFFICES ASSUME NEW n \in MemoryRows, rowStatus'[n] = "active", n \notin linkJobs',
                      NEW p \in rowText'[n].proposes
               PROVE  Called(p) # {} \/ sighted'[<<Profile[n], p>>] = <<n>>
    BY <1>1 DEF LinkedOrSighted, Called
  <2>1. n # m
    BY <1>2
  <2>2. rowStatus[n] = "active" /\ n \notin linkJobs /\ p \in rowText[n].proposes
    BY <1>1, <1>2, <2>1
  <2>3. Called(p) # {} \/ sighted[<<Profile[n], p>>] = <<n>>
    BY <2>2 DEF EntitiesInv, LinkedOrSighted
  <2>4. <<Profile[n], p>> \in Keys
    <3>1. <<n, p>> \in said
      BY <2>2 DEF EntitiesInv, ProposedIsSaid
    <3> QED
      BY <3>1 DEF EntitiesInv, EntitiesTypeOK, Keys, Profiles
  <2> QED
    BY <1>5, <2>1, <2>3, <2>4
<1>10. LinksAreOfRows'
  BY <1>1, <1>2 DEF EntitiesInv, LinksAreOfRows, EntitiesTypeOK
<1> QED
  BY <1>6, <1>7, <1>8, <1>9, <1>10 DEF EntitiesInv

LEMMA RunJobKeeps ==
  ASSUME EntitiesInv, NEW m \in MemoryRows, RunJob(m)
  PROVE  EntitiesInv'
<1>1. linkJobs' \in {linkJobs, linkJobs \ {m}} /\ UNCHANGED <<rowStatus, rowText, said, says>>
  BY DEF RunJob
<1>2. CASE rowStatus[m] = "active"
  <2>1. Link(m)
    BY <1>2 DEF RunJob
  <2> QED
    BY <1>1, <1>2, <2>1, LinkKeeps
<1>3. CASE rowStatus[m] # "active"
  <2>1. UNCHANGED <<entities, links, sighted>>
    BY <1>3 DEF RunJob
  <2> QED
    BY <1>1, <1>3, <2>1 DEF EntitiesInv, EntitiesTypeOK, Sightings, SightingIsEarned, ProposedIsSaid,
                            EntityHasTwo, ProposedByTwo, LinkedOrSighted, LinksAreOfRows, Called
<1> QED
  BY <1>2, <1>3

LEMMA NextKeepsEntities == EntitiesInv /\ [EntitiesNext]_entityVars => EntitiesInv'
<1> SUFFICES ASSUME EntitiesInv, [EntitiesNext]_entityVars PROVE EntitiesInv'
  OBVIOUS
<1>1. CASE UNCHANGED entityVars
  BY <1>1 DEF entityVars, EntitiesInv, EntitiesTypeOK, Sightings, SightingIsEarned, ProposedIsSaid,
              EntityHasTwo, ProposedByTwo, LinkedOrSighted, LinksAreOfRows, Called
<1>2. CASE EntitiesNext
  <2>1. PICK m \in MemoryRows :
            \/ \E t \in RowTexts : EditRow(m, t) \/ \E st \in {"active", "pending"} : AddRow(m, t, st)
            \/ Revive(m) \/ ForgetRow(m) \/ PurgeRow(m)
            \/ RunJob(m) \/ LinkCandidate(m)
    BY <1>2 DEF EntitiesNext
  <2>2. CASE LinkCandidate(m)
    BY <2>2, LinkKeeps DEF LinkCandidate
  <2> QED
    BY <2>1, <2>2, StoreStepsArePlain, PlainKeeps, ForgetRowKeeps, PurgeRowKeeps, RunJobKeeps
<1> QED
  BY <1>1, <1>2

LEMMA EntitiesInvHolds == EntitiesSpec => []EntitiesInv
  BY EntitiesBegin, NextKeepsEntities, PTL DEF EntitiesSpec

(* Every variable has its type, for any rows, texts and grams. *)
THEOREM EntityTypes == EntitiesSpec => []EntitiesTypeOK
  BY EntitiesInvHolds, PTL DEF EntitiesInv

LEMMA TwoAreTwo ==
  ASSUME NEW S, IsFiniteSet(S), NEW m \in S, NEW n \in S, m # n
  PROVE  Cardinality(S) >= 2
<1>1. {m, n} \subseteq S /\ IsFiniteSet({m, n}) /\ Cardinality({m, n}) = 2
  <2>1. IsFiniteSet({m}) /\ Cardinality({m}) = 1
    BY FS_Singleton
  <2>2. {m} \cup {n} = {m, n} /\ n \notin {m}
    OBVIOUS
  <2>3. IsFiniteSet({m} \cup {n}) /\ Cardinality({m} \cup {n}) = Cardinality({m}) + 1
    BY <2>1, <2>2, FS_AddElement
  <2> QED
    BY <2>1, <2>2, <2>3
<1>2. Cardinality({m, n}) <= Cardinality(S) /\ Cardinality(S) \in Nat
  BY <1>1, FS_Subset, FS_CardinalityType
<1> QED
  BY <1>1, <1>2

(* A name is an entity exactly when it has been earned, and a purge leaves *)
(* nothing behind. *)
THEOREM EntitiesStayTrue == EntitiesSpec => []EntitiesAreTrue
<1>1. EntitiesInv => EntitiesAreTrue
  <2> SUFFICES ASSUME EntitiesInv PROVE EntitiesAreTrue
    OBVIOUS
  <2>1. ASSUME NEW e \in entities PROVE Cardinality(Proposers(e[1], e[2])) >= 2
    <3>1. PICK m, n \in MemoryRows : /\ m # n /\ Profile[m] = e[1] /\ Profile[n] = e[1]
                                     /\ <<m, e[2]>> \in said /\ <<n, e[2]>> \in said
      BY DEF EntitiesInv, EntityHasTwo, ProposedByTwo
    <3>2. m \in Proposers(e[1], e[2]) /\ n \in Proposers(e[1], e[2])
      BY <3>1 DEF Proposers
    <3>3. IsFiniteSet(Proposers(e[1], e[2]))
      <4>1. Proposers(e[1], e[2]) \subseteq MemoryRows
        BY DEF Proposers
      <4> QED
        BY <4>1, FS_Subset, EntityConstants DEF EntityConstants
    <3> QED
      BY <3>1, <3>2, <3>3, TwoAreTwo
  <2>2. ASSUME NEW m \in MemoryRows, NEW n \in MemoryRows,
               NEW p \in rowText[m].proposes \cap rowText[n].proposes,
               m # n, Profile[m] = Profile[n], rowStatus[m] = "active", rowStatus[n] = "active",
               {m, n} \cap linkJobs = {}
        PROVE  Called(p) # {}
    <3>1. Called(p) # {} \/ sighted[<<Profile[m], p>>] = <<m>>
      BY <2>2 DEF EntitiesInv, LinkedOrSighted
    <3>2. Called(p) # {} \/ sighted[<<Profile[m], p>>] = <<n>>
      BY <2>2 DEF EntitiesInv, LinkedOrSighted
    <3>3. <<m>> # <<n>>
      BY <2>2, OneIn
    <3> QED
      BY <3>1, <3>2, <3>3
  <2>3. PurgedLeavesNoTrace
    <3> SUFFICES ASSUME NEW m \in MemoryRows, rowStatus[m] = "purged"
                 PROVE  /\ \A l \in links : l[1] # m
                        /\ \A key \in DOMAIN sighted : m \notin ToSet(sighted[key])
      BY DEF PurgedLeavesNoTrace
    <3>1. ASSUME NEW key \in DOMAIN sighted PROVE m \notin ToSet(sighted[key])
      <4>1. sighted[key] = <<>> \/ \E n \in MemoryRows : sighted[key] = <<n>> /\ n # m
        BY DEF EntitiesInv, Sightings, SightingIsEarned
      <4>2. ToSet(<<>>) = {}
        BY DEF ToSet
      <4> QED
        BY <4>1, <4>2, OneIn
    <3> QED
      BY <3>1 DEF EntitiesInv, LinksAreOfRows
  <2> QED
    BY <2>1, <2>2, <2>3 DEF EntitiesAreTrue, EntitiesAreEarned
<1> QED
  BY <1>1, EntitiesInvHolds, PTL
=============================================================================
