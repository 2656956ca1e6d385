------------------------------- MODULE Prefetch -------------------------------
(***************************************************************************)
(* The prefetch service (em/provider/prefetch_service.py): one block of    *)
(* memories per turn, from a cache or from retrieval, under a deadline.    *)
(*                                                                         *)
(* The turn's thread holds the connection lock for a whole call.  Each     *)
(* generator runs on a worker thread, which the caller waits for until the *)
(* deadline and then abandons; while it is still busy the next calls skip  *)
(* it.  A second thread answers queued questions ahead of time, under the  *)
(* same lock and with no deadline.  Other processes and the provider's own *)
(* threads commit writes at any moment: no call is a transaction, so each  *)
(* of its statements reads the store of that moment.                       *)
(*                                                                         *)
(* One question and one scope, since both are part of the cache's key.  A  *)
(* generation is the number of commits so far (PRAGMA data_version and     *)
(* note_write); an entry of another generation never answers, so the last  *)
(* one stored stands for the cache.  Two generators stand for six.  Calls  *)
(* after close are left out: the provider drops the service with it.       *)
(***************************************************************************)
EXTENDS Integers, Sequences

CONSTANTS
    Memories,
    Pinned, Hot,       \* pinned or constraints; scoring 0.8 or more
    DedupTurns,        \* prefetch.dedup_turns
    RepeatTurns,       \* constraint_repeat_turns
    HotGap,            \* _HOT_MIN_GAP_TURNS
    Askers,            \* sessions that ask ahead
    QueueMax,          \* maxsize of the precompute queue
    MaxCalls,          \* bounds: calls, commits, questions asked ahead
    MaxWrites,
    MaxAsks

PrefetchConstants ==
    /\ Pinned \subseteq Memories /\ Hot \subseteq Memories
    /\ {DedupTurns, RepeatTurns, HotGap, MaxCalls, MaxWrites, MaxAsks} \subseteq Nat
    /\ QueueMax \in Nat \ {0}

ASSUME PrefetchConstants

VARIABLES
    live,        \* active memories
    generation,  \* commits so far
    cache,       \* the entry last stored, with its generation
    calls,       \* _turn: calls so far
    recent,      \* _recent: the turn a memory was last injected, 0 for none
    lock,        \* who holds _conn_lock
    call,        \* the turn's call
    worker,      \* the generator thread
    asked,       \* session of every question queued so far, in order
    queue,       \* _precompute_queue, as positions in asked; Stop ends it
    cancelled,   \* questions marked as cancelled
    ended,       \* questions whose done is set
    dropped,     \* questions taken out of a full queue
    answered,    \* history: questions that were computed
    ahead,       \* the precompute thread
    closed,
    shown,       \* history: the turn a memory was last shown,
    touched      \*   memories that were live at some moment of the call

prefetchVars == <<live, generation, cache, calls, recent, lock, call, worker, asked,
                  queue, cancelled, ended, dropped, answered, ahead, closed,
                  shown, touched>>
service   == <<cache, calls, recent>>
questions == <<asked, queue, cancelled, ended, dropped, answered, ahead>>

Stop       == 0
Idle       == 0
Left       == 0 - 1
NoEntry    == [gen |-> 0 - 1, rows |-> {}]
NoCall     == [step |-> "none"]
Generators == <<"pinned", "bm25">>
Ever(m)    == shown[m] > 0

(* Every variable has its type; who is in a call holds the lock. *)
PrefetchTypeOK ==
    /\ live \subseteq Memories
    /\ generation \in 0..MaxWrites
    /\ cache.gen \in -1..MaxWrites /\ cache.rows \subseteq Memories
    /\ calls \in 0..MaxCalls
    /\ recent \in [Memories -> 0..MaxCalls]
    /\ lock \in {"free", "turn", "ahead", "close"}
    /\ call.step \in {"none", "generate", "wait", "load", "finish"}
    /\ lock = "turn" <=> call # NoCall
    /\ worker.busy \in BOOLEAN
    /\ asked \in Seq(Askers)
    /\ queue \in Seq(0..MaxAsks) /\ Len(queue) <= QueueMax
    /\ cancelled \cup ended \cup dropped \cup answered \subseteq 1..MaxAsks
    /\ ahead \in {Idle, Left} \cup 1..MaxAsks
    /\ closed \in {"no", "asked", "yes"}
    /\ shown \in [Memories -> 0..MaxCalls]
    /\ touched \subseteq Memories

PrefetchInit ==
    /\ live \in SUBSET Memories
    /\ generation = 0
    /\ cache = NoEntry
    /\ calls = 0
    /\ recent = [m \in Memories |-> 0]
    /\ lock = "free"
    /\ call = NoCall
    /\ worker = [busy |-> FALSE]
    /\ asked = <<>>
    /\ queue = <<>>
    /\ cancelled = {} /\ ended = {} /\ dropped = {} /\ answered = {}
    /\ ahead = Idle
    /\ closed = "no"
    /\ shown = recent
    /\ touched = {}

(* A write of anybody: a memory is added, restored, forgotten or replaced. *)
Commit ==
    /\ generation < MaxWrites
    /\ generation' = generation + 1
    /\ \E m \in Memories : live' = IF m \in live THEN live \ {m} ELSE live \cup {m}
    /\ touched' = IF call = NoCall THEN touched ELSE touched \cup live'
    /\ UNCHANGED <<service, lock, call, worker, questions, closed, shown>>
-----------------------------------------------------------------------------
(* A turn's call.                                                          *)

Miss(gen) == [step |-> "generate", gen |-> gen, left |-> Generators, found |-> {},
              whole |-> TRUE]
Hit       == [step |-> "finish", gen |-> cache.gen, rows |-> cache.rows, store |-> FALSE]

(* prefetch takes the lock, and reads the generation before anything else. *)
Begin ==
    /\ closed = "no" /\ calls < MaxCalls
    /\ lock = "free" /\ lock' = "turn"
    /\ call' = IF cache.gen = generation THEN Hit ELSE Miss(generation)
    /\ touched' = live
    /\ UNCHANGED <<live, generation, service, worker, questions, closed, shown>>

CutShort == [call EXCEPT !.step = "load", !.whole = FALSE]

(* _run_generator hands the next generator to the worker, unless the       *)
(* worker still runs an abandoned one; a deadline that has passed ends the *)
(* stage as well.                                                          *)
Generate ==
    /\ call.step = "generate"
    /\ \/ /\ call.left = <<>>
          /\ call' = [call EXCEPT !.step = "load"]
          /\ worker' = worker
       \/ /\ call.left # <<>> /\ ~worker.busy
          /\ call' = [call EXCEPT !.step = "wait"]
          /\ worker' = [busy |-> TRUE, name |-> Head(call.left), for |-> calls + 1]
       \/ /\ call.left # <<>>
          /\ call' = CutShort
          /\ worker' = worker
    /\ UNCHANGED <<live, generation, service, lock, questions, closed, shown, touched>>

Finds(name) == IF name = "pinned" THEN live \cap Pinned ELSE live \ Pinned

(* The worker reads through a connection of its own and is done; its       *)
(* caller, if it still waits, goes on with what was found.                 *)
WorkerEnd ==
    /\ worker.busy
    /\ worker' = [busy |-> FALSE]
    /\ call' = IF call.step = "wait" /\ worker.for = calls + 1
               THEN [call EXCEPT !.step = "generate", !.left = Tail(@),
                                 !.found = @ \cup Finds(worker.name)]
               ELSE call
    /\ UNCHANGED <<live, generation, service, lock, questions, closed, shown, touched>>

(* The caller's wait ends with the deadline: what was found before it is   *)
(* kept.                                                                   *)
Deadline ==
    /\ call.step = "wait"
    /\ call' = CutShort
    /\ UNCHANGED <<live, generation, service, lock, worker, questions, closed, shown, touched>>

(* load_features and load_rows keep what is active; load_pack_items reads  *)
(* the text of what they kept.                                             *)
Load ==
    /\ call.step = "load"
    /\ call' = [step |-> "finish", gen |-> call.gen, rows |-> call.found \cap live,
                store |-> call.whole]
    /\ UNCHANGED <<live, generation, service, lock, worker, questions, closed, shown, touched>>

(* _dedup_filter. *)
Fresh(m, t) ==
    \/ recent[m] = 0
    \/ m \in Pinned /\ t - recent[m] >= RepeatTurns
    \/ m \notin Pinned /\ t - recent[m] > DedupTurns
    \/ m \notin Pinned /\ t - recent[m] > HotGap /\ m \in Hot

(* Variant: the history is kept for the shorter of the two distances. *)
PrunedEarly(r, t) ==
    [m \in Memories |-> IF t - r[m] <= DedupTurns THEN r[m] ELSE 0]

(* _prune_recent. *)
Pruned(r, t) ==
    LET longer == IF DedupTurns > RepeatTurns THEN DedupTurns ELSE RepeatTurns
    IN  [m \in Memories |-> IF t - r[m] <= longer + 1 THEN r[m] ELSE 0]

(* Variant: the entry is stamped with the generation of its end. *)
EntryLate == [gen |-> generation, rows |-> call.rows]

Entry == [gen |-> call.gen, rows |-> call.rows]

(* The block is packed into its budget, what is in it is remembered, and a *)
(* whole answer is cached.                                                 *)
Finish ==
    /\ call.step = "finish"
    /\ calls' = calls + 1
    /\ \E chosen \in SUBSET {m \in call.rows : Fresh(m, calls + 1)} :
         /\ recent' = Pruned([m \in Memories |-> IF m \in chosen THEN calls + 1
                                                ELSE recent[m]],
                             calls + 1)
         /\ shown' = [m \in Memories |-> IF m \in chosen THEN calls + 1 ELSE shown[m]]
    /\ cache' = IF call.store THEN Entry ELSE cache
    /\ call' = NoCall
    /\ lock' = "free"
    /\ UNCHANGED <<live, generation, worker, questions, closed, touched>>
-----------------------------------------------------------------------------
(* Questions asked ahead.                                                  *)

Latest(s) == {h \in DOMAIN asked : asked[h] = s /\ \A i \in DOMAIN asked : asked[i] = s => i <= h}

(* queue_precompute: the session's last question that is not done is       *)
(* cancelled; a full queue gives up its oldest.                            *)
Ask ==
    /\ closed = "no" /\ Len(asked) < MaxAsks
    /\ \E s \in Askers :
         /\ asked' = Append(asked, s)
         /\ cancelled' = cancelled \cup (Latest(s) \ ended)
    /\ LET full == Len(queue) = QueueMax
       IN  /\ queue' = Append(IF full THEN Tail(queue) ELSE queue, Len(asked'))
           /\ dropped' = IF full THEN dropped \cup {Head(queue)} ELSE dropped
    /\ UNCHANGED <<live, generation, service, lock, call, worker, ended, answered, ahead,
                   closed, shown, touched>>

Superseded(h) == h \in cancelled \/ h \notin Latest(asked[h])

(* Variant: a question is skipped without being marked as done. *)
TakeSilently ==
    /\ ahead = Idle /\ queue # <<>>
    /\ queue' = Tail(queue)
    /\ ahead' = IF Head(queue) = Stop THEN Left
                ELSE IF Superseded(Head(queue)) THEN Idle ELSE Head(queue)
    /\ ended' = ended
    /\ UNCHANGED <<live, generation, service, lock, call, worker, asked, cancelled, dropped,
                   answered, closed, shown, touched>>

(* _precompute_worker_loop takes the next: it leaves at the sentinel, and  *)
(* skips a question that a newer one of its session replaced.              *)
Take ==
    /\ ahead = Idle /\ queue # <<>>
    /\ queue' = Tail(queue)
    /\ LET h == Head(queue)
       IN  /\ ahead' = IF h = Stop THEN Left ELSE IF Superseded(h) THEN Idle ELSE h
           /\ ended' = IF h # Stop /\ Superseded(h) THEN ended \cup {h} ELSE ended
    /\ UNCHANGED <<live, generation, service, lock, call, worker, asked, cancelled, dropped,
                   answered, closed, shown, touched>>

(* precompute under the connection lock; whatever it raises, the question  *)
(* is done.                                                                *)
AheadBegin ==
    /\ ahead \in DOMAIN asked
    /\ lock = "free" /\ lock' = "ahead"
    /\ UNCHANGED <<live, generation, service, call, worker, questions, closed, shown, touched>>

AheadEnd ==
    /\ lock = "ahead" /\ lock' = "free"
    /\ ended' = ended \cup {ahead}
    /\ answered' = answered \cup {ahead}
    /\ ahead' = Idle
    /\ UNCHANGED <<live, generation, service, call, worker, asked, queue, cancelled, dropped,
                   closed, shown, touched>>
-----------------------------------------------------------------------------
(* close: the sentinel goes out first, unless the queue is full; after the *)
(* joins, which give up, the connection goes under its lock.               *)
CloseAsk ==
    /\ closed = "no" /\ closed' = "asked"
    /\ call = NoCall
    /\ queue' = IF Len(queue) < QueueMax THEN Append(queue, Stop) ELSE queue
    /\ UNCHANGED <<live, generation, service, lock, call, worker, asked, cancelled, ended,
                   dropped, answered, ahead, shown, touched>>

CloseEnd ==
    /\ closed = "asked" /\ lock = "free"
    /\ closed' = "yes"
    /\ UNCHANGED <<live, generation, service, lock, call, worker, questions, shown, touched>>

PrefetchNext ==
    \/ Commit
    \/ Begin \/ Generate \/ WorkerEnd \/ Deadline \/ Load \/ Finish
    \/ Ask \/ Take \/ AheadBegin \/ AheadEnd
    \/ CloseAsk \/ CloseEnd

PrefetchSpec == PrefetchInit /\ [][PrefetchNext]_prefetchVars

(* The threads run: a call goes on to its end, a read comes back, and the  *)
(* precompute thread takes what is queued; a lock that is free again and   *)
(* again is given to who waits for it.  Nobody has to ask, write or close. *)
PrefetchFairness ==
    /\ WF_prefetchVars(Generate) /\ WF_prefetchVars(WorkerEnd)
    /\ WF_prefetchVars(Load) /\ WF_prefetchVars(Finish)
    /\ WF_prefetchVars(Take) /\ SF_prefetchVars(AheadBegin) /\ WF_prefetchVars(AheadEnd)

-----------------------------------------------------------------------------
(* Properties.                                                             *)

(* Nothing is shown that was gone before the call began: a cached block    *)
(* never outlives a commit, although retrieval reads in several statements *)
(* and on two connections, commits fall between them, and an abandoned     *)
(* generator may still be reading.                                         *)
HitIsCurrent ==
    call.step = "finish" => call.rows \subseteq touched

(* A memory that was shown comes back only after its distance: pinned rows *)
(* after constraint_repeat_turns, the others after more than dedup_turns,  *)
(* or sooner when they score high (section 4.2 in prefetch_service.py);    *)
(* the history that is pruned every turn is long enough for both.          *)
GapKept ==
    [][ \A m \in Memories : shown'[m] # shown[m] /\ Ever(m) =>
          LET gap == shown'[m] - shown[m]
          IN  IF m \in Pinned THEN gap >= RepeatTurns
              ELSE gap > DedupTurns \/ (m \in Hot /\ gap > HotGap) ]_prefetchVars

(* Every question that is queued is done in the end, unless a full queue   *)
(* dropped it, and it was computed unless its session asked again.         *)
AsksEnd ==
    \A h \in 1..MaxAsks :
        h \in DOMAIN asked ~>
            \/ h \in dropped
            \/ h \in answered
            \/ h \in ended /\ \E i \in DOMAIN asked : i > h /\ asked[i] = asked[h]

(* Both worker threads leave after close: "stop the workers and close the  *)
(* read connection" (close).                                               *)
WorkersLeave == closed = "asked" ~> ahead = Left
=============================================================================
