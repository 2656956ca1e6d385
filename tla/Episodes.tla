------------------------------- MODULE Episodes -------------------------------
(***************************************************************************)
(* The episodes of a conversation: what the provider's hooks write of it   *)
(* (em/provider/provider.py, session_digest.py), how the facade keys the   *)
(* rows (em/facade/engine.py), and the embed jobs the repository asks for  *)
(* (em/store/episodes.py, em/embeddings/jobs.py).                          *)
(*                                                                         *)
(* A text is the set of the turns and the pinned constraints it was made   *)
(* from.  The host calls turns, undos and compressions on its own thread,  *)
(* syncs and session ends on a queue behind it; each provider is a         *)
(* process.  A hook that raises writes nothing.  How a digest samples its  *)
(* turns, the candidates extracted at a session's end and the windows      *)
(* sealed beside (Windows) are not here.                                   *)
(***************************************************************************)
EXTENDS Integers, FiniteSets

CONSTANTS
    Providers, Sessions,   \* a host without sessions says ""
    Slug,        \* session -> its name in an episode id (sanitised, cut at 80)
    Salient,     \* the turns that a handoff is made of
    Pins,        \* the constraints the user may have pinned, now or then
    BufferMax,   \* turns the provider remembers
    SameMoment,  \* two writes may fall into one millisecond
    MaxTurns, MaxWrites   \* bounds

EpisodeConstants ==
    /\ Salient \subseteq 1..MaxTurns /\ Pins \cap 1..MaxTurns = {} /\ BufferMax \in Nat \ {0}
    /\ SameMoment \in BOOLEAN /\ MaxTurns \in Nat /\ MaxWrites \in Nat
    /\ Sessions # {} /\ DOMAIN Slug = Sessions

VARIABLES
    sid,         \* provider -> _session_id
    talk,        \* provider -> the turns in the host's transcript
    toSync,      \* provider -> turns whose sync_turn waits in the queue
    buffer,      \* provider -> _session_turns
    flush,       \* provider -> the digest on_turn_start is writing
    episodes,    \* legacy_id -> row
    chunks,      \* precompress evidence: <<session, turn>>
    jobs,        \* embed jobs: <<legacy_id, stamp>>
    reading,     \* the jobs whose text is being embedded
    embedded,    \* legacy_id -> the text its vector is of
    now,         \* the last stamp
    turns,       \* history: the turns said so far
    undone,      \* history: the turns taken back
    handed       \* history: what compressions were given, of what and last with
                 \*   which pins: <<session, evidence, pins>>

episodeVars == <<sid, talk, toSync, buffer, flush, episodes, chunks, jobs, reading,
                 embedded, now, turns, undone, handed>>

NoFlush == [text |-> {}, session |-> "", wave |-> 0]

EndOf(s)     == <<"end", Slug[s], 0, {}>>
WaveOf(s, n) == <<"wave", Slug[s], n, {}>>
NewKey(n)    == <<"made", "", n, {}>>      \* a random id

(* Variant: the evidence is not named.                                     *)
PreOfSession(s, e) == <<"pre", Slug[s], 0, {}>>

(* By the fingerprint of its evidence.                                     *)
PreOf(s, e)  == <<"pre", Slug[s], 0, e>>

EpisodesInit ==
    /\ sid \in [Providers -> Sessions]
    /\ talk = [p \in Providers |-> {}] /\ toSync = talk /\ buffer = talk
    /\ flush = [p \in Providers |-> NoFlush]
    /\ episodes = <<>> /\ embedded = <<>>
    /\ chunks = {} /\ jobs = {} /\ reading = {} /\ now = 0
    /\ turns = 0 /\ undone = {} /\ handed = {}

(* Every variable has its type. *)
EpisodesTypeOK ==
    /\ sid \in [Providers -> Sessions]
    /\ talk \in [Providers -> SUBSET (1..turns)]
    /\ toSync \in [Providers -> SUBSET (1..turns)] /\ buffer \in [Providers -> SUBSET (1..turns)]
    /\ \A k \in DOMAIN episodes : /\ episodes[k].kind \in {"session", "manual", "delegation", "precompress"}
                                  /\ episodes[k].text \subseteq 1..turns \cup Pins
    /\ DOMAIN embedded \subseteq DOMAIN episodes
    /\ turns \in 0..MaxTurns /\ now \in 0..MaxWrites
-----------------------------------------------------------------------------
(* The rows.                                                               *)

(* Variant: the number is not looked up.                                   *)
FirstWave(s) == 1

(* next_episode_wave: one more than the largest there is under that name.  *)
NextWave(s) ==
    LET taken == {k[3] : k \in {l \in DOMAIN episodes : l[1] = "wave" /\ l[2] = Slug[s]}}
    IN  CHOOSE n \in 1..MaxWrites + 1 : /\ n - 1 \in taken \cup {0}
                                        /\ \A m \in taken : m < n

(* Only a manual row and one that names its session's key may have none.   *)
Raises(key, kind, s) ==
    IF key \in DOMAIN episodes THEN episodes[key].kind = "manual"
    ELSE s = "" /\ kind # "session"

(* _write_episode: a row of that key is written over, else one is added    *)
(* and numbered within its session and kind; either asks for its vector.   *)
WriteEpisode(key, kind, s, text) ==
    LET stamp  == IF SameMoment THEN {now, now + 1} \cap 1..MaxWrites ELSE {now + 1}
        window == Cardinality({k \in DOMAIN episodes :
                      episodes[k].kind = kind /\ episodes[k].session = s})
        row(t) == IF key \in DOMAIN episodes THEN [episodes[key] EXCEPT !.text = text, !.stamp = t]
                  ELSE [kind |-> IF s = "" THEN "manual" ELSE kind, session |-> s,
                        window |-> IF s = "" THEN 0 ELSE window, text |-> text, stamp |-> t]
    IN  /\ now < MaxWrites /\ ~Raises(key, kind, s)
        /\ \E t \in stamp :
               /\ now' = t
               /\ episodes' = [k \in DOMAIN episodes \cup {key} |->
                                   IF k = key THEN row(t) ELSE episodes[k]]
               /\ jobs' = jobs \cup {<<key, t>>}

Unwritten == UNCHANGED <<episodes, jobs, now>>
Beside    == UNCHANGED <<reading, embedded>>
-----------------------------------------------------------------------------
(* Turns.                                                                  *)

Newest(S, n) == {t \in S : Cardinality({u \in S : u >= t}) <= n}

Say(p) ==
    /\ turns < MaxTurns /\ flush[p] = NoFlush
    /\ turns' = turns + 1
    /\ talk' = [talk EXCEPT ![p] = @ \cup {turns'}]
    /\ toSync' = [toSync EXCEPT ![p] = @ \cup {turns'}]
    /\ UNCHANGED <<sid, buffer, flush, chunks, undone, handed>>
    /\ Unwritten /\ Beside

(* sync_turn, in order.                                                    *)
Sync(p) ==
    /\ \E t \in toSync[p] :
           /\ \A u \in toSync[p] : t <= u
           /\ buffer' = [buffer EXCEPT ![p] = Newest(@ \cup {t}, BufferMax)]
           /\ toSync' = [toSync EXCEPT ![p] = @ \ {t}]
    /\ UNCHANGED <<sid, talk, flush, chunks, turns, undone, handed>>
    /\ Unwritten /\ Beside

(* on_session_switch, rewound: the host has taken back the last exchange.  *)
Undo(p) ==
    /\ talk[p] # {} /\ flush[p] = NoFlush
    /\ LET last == Newest(talk[p], 1)
       IN  /\ talk' = [talk EXCEPT ![p] = @ \ last]
           /\ undone' = undone \cup last
    /\ UNCHANGED <<sid, toSync, buffer, flush, chunks, turns, handed>>
    /\ Unwritten /\ Beside

(* A switch that resets nothing: the user resumes another session.         *)
Resume(p, s) ==
    /\ s # sid[p] /\ flush[p] = NoFlush
    /\ sid' = [sid EXCEPT ![p] = s] /\ talk' = [talk EXCEPT ![p] = {}]
    /\ UNCHANGED <<toSync, buffer, flush, chunks, turns, undone, handed>>
    /\ Unwritten /\ Beside

(* The process dies, or is let go.                                         *)
Restart(p) ==
    /\ buffer' = [buffer EXCEPT ![p] = {}] /\ toSync' = [toSync EXCEPT ![p] = {}]
    /\ flush' = [flush EXCEPT ![p] = NoFlush]
    /\ <<buffer', toSync', flush'>> # <<buffer, toSync, flush>>
    /\ UNCHANGED <<sid, talk, chunks, turns, undone, handed>>
    /\ Unwritten /\ Beside
-----------------------------------------------------------------------------
(* What the hooks write.                                                   *)

(* on_turn_start, every so many turns: the number of the wave is looked up *)
Cadence(p) ==
    /\ buffer[p] # {} /\ flush[p] = NoFlush
    /\ flush' = [flush EXCEPT ![p] =
                    [text |-> buffer[p], session |-> sid[p], wave |-> NextWave(sid[p])]]
    /\ UNCHANGED <<sid, talk, toSync, buffer, chunks, turns, undone, handed>>
    /\ Unwritten /\ Beside

(* and then the wave is written, or the write fails.                       *)
FlushWave(p) ==
    /\ flush[p] # NoFlush
    /\ flush' = [flush EXCEPT ![p] = NoFlush]
    /\ LET f == flush[p]
       IN  Unwritten \/ WriteEpisode(WaveOf(f.session, f.wave), "session", f.session, f.text)
    /\ UNCHANGED <<sid, talk, toSync, buffer, chunks, turns, undone, handed>>
    /\ Beside

(* on_session_end, behind the syncs, and once more perhaps; the buffer is  *)
(* forgotten whatever happens.                                             *)
EndSession(p) ==
    /\ toSync[p] = {} /\ talk[p] # {} /\ flush[p] = NoFlush
    /\ buffer' = [buffer EXCEPT ![p] = {}]
    /\ Unwritten \/ WriteEpisode(EndOf(sid[p]), "session", sid[p], talk[p])
    /\ UNCHANGED <<sid, talk, toSync, flush, chunks, turns, undone, handed>>
    /\ Beside

(* A new session after it.                                                 *)
NewSession(p, s) ==
    /\ toSync[p] = {} /\ flush[p] = NoFlush /\ s # sid[p]
    /\ sid' = [sid EXCEPT ![p] = s] /\ talk' = [talk EXCEPT ![p] = {}]
    /\ buffer' = [buffer EXCEPT ![p] = {}]
    /\ UNCHANGED <<toSync, flush, chunks, turns, undone, handed>>
    /\ Unwritten /\ Beside

(* on_pre_compress: the evidence, and the handoff if there is one, in one  *)
(* transaction; what it returns is the handoff, or nothing.  The handoff   *)
(* is of the salient turns and of what is pinned at that moment, as much   *)
(* of it as fits; a retry of the same evidence is written over the last.   *)
Compress(p) ==
    LET evidence == talk[p]
        key      == PreOf(sid[p], evidence)
        archived == {<<sid[p], t>> : t \in evidence}
        retried  == {h \in handed : h[1] = sid[p] /\ h[2] = evidence}
    IN  /\ evidence # {} /\ flush[p] = NoFlush
        /\ \/ Unwritten /\ UNCHANGED <<chunks, handed>>
           \/ /\ evidence \cap Salient = {} /\ Unwritten
              /\ chunks' = chunks \cup archived /\ UNCHANGED handed
           \/ \E pins \in SUBSET Pins :
                 LET handoff == (evidence \cap Salient) \cup pins
                 IN  /\ handoff # {}
                     /\ WriteEpisode(key, "precompress", sid[p], handoff)
                     /\ chunks' = chunks \cup archived
                     /\ handed' = (handed \ retried) \cup {<<sid[p], evidence, pins>>}
        /\ UNCHANGED <<sid, talk, toSync, buffer, flush, turns, undone>>
        /\ Beside

(* on_delegation, before its extraction is asked for (JobQueue).           *)
Delegate(p) ==
    /\ talk[p] # {} /\ flush[p] = NoFlush
    /\ WriteEpisode(NewKey(Cardinality(DOMAIN episodes)), "delegation", sid[p], Newest(talk[p], 1))
    /\ UNCHANGED <<sid, talk, toSync, buffer, flush, chunks, turns, undone, handed>>
    /\ Beside
-----------------------------------------------------------------------------
(* The embed jobs of episodes.                                             *)

EmbedStarts(j) ==
    /\ j \in jobs
    /\ IF episodes[j[1]].stamp = j[2]
       THEN reading' = reading \cup {<<j, episodes[j[1]].text>>}
       ELSE UNCHANGED reading
    /\ jobs' = IF episodes[j[1]].stamp = j[2] THEN jobs ELSE jobs \ {j}
    /\ <<reading', jobs'>> # <<reading, jobs>>
    /\ UNCHANGED <<sid, talk, toSync, buffer, flush, episodes, chunks, embedded, now, turns,
                   undone, handed>>

(* The vector is put if the row has not been written over meanwhile.  Who  *)
(* lost the lease goes on beside the next.                                 *)
EmbedEnds(r) ==
    /\ r \in reading
    /\ reading' = reading \ {r} /\ jobs' = jobs \ {r[1]}
    /\ LET key == r[1][1]
       IN  embedded' = IF episodes[key].stamp # r[1][2] THEN embedded
                       ELSE [k \in DOMAIN embedded \cup {key} |->
                                 IF k = key THEN r[2] ELSE embedded[k]]
    /\ UNCHANGED <<sid, talk, toSync, buffer, flush, episodes, chunks, now, turns, undone, handed>>

(* The worker dies with it; the job is run again.                          *)
EmbedDies(r) ==
    /\ r \in reading /\ reading' = reading \ {r}
    /\ UNCHANGED <<sid, talk, toSync, buffer, flush, episodes, chunks, jobs, embedded, now,
                   turns, undone, handed>>

EpisodesNext ==
    \/ \E p \in Providers : \/ Say(p) \/ Sync(p) \/ Undo(p) \/ Restart(p) \/ Cadence(p)
                            \/ FlushWave(p) \/ EndSession(p) \/ Compress(p) \/ Delegate(p)
                            \/ \E s \in Sessions : Resume(p, s) \/ NewSession(p, s)
    \/ \E j \in jobs : EmbedStarts(j)
    \/ \E r \in reading : EmbedEnds(r) \/ EmbedDies(r)

EpisodesSpec == EpisodesInit /\ [][EpisodesNext]_episodeVars
-----------------------------------------------------------------------------
(* Properties.                                                             *)

(* No wave or delegation is ever written over by other text ("earlier     *)
(* waves are never overwritten", _flush_session_digest), a session's last  *)
(* digest only by its own session, and a handoff only by a retry of the    *)
(* same evidence in that session, with what is pinned by then: as long as  *)
(* no two processes are in sessions of one name.                           *)
EpisodesKept ==
    [][ \A k \in DOMAIN episodes :
          /\ episodes'[k].session = episodes[k].session
          /\ episodes'[k].text # episodes[k].text =>
                 \E p \in Providers :
                     /\ sid[p] = episodes[k].session
                     /\ \/ k[1] = "end"
                        \/ /\ k[1] = "pre" /\ k[4] = talk[p]
                           /\ episodes'[k].text \ Pins = episodes[k].text \ Pins
      ]_episodeVars

(* What a compression was given stays true: its evidence is archived, and  *)
(* its handoff, the one given last of that evidence, has one episode, after *)
(* any retry and later compressions ("a non-empty return GUARANTEES both   *)
(* committed", on_pre_compress).                                           *)
HandedKept ==
    \A h \in handed :
        /\ \A t \in h[2] : <<h[1], t>> \in chunks
        /\ \E k \in DOMAIN episodes : /\ episodes[k].session = h[1]
                                      /\ episodes[k].text = (h[2] \cap Salient) \cup h[3]
                                      /\ episodes[k].kind = "precompress"
        /\ Cardinality({k \in DOMAIN episodes : k[1] = "pre" /\ episodes[k].session = h[1]})
             = Cardinality({g \in handed : g[1] = h[1]})

(* The vector of an episode is of its text, or a job for it waits.         *)
EpisodeAsked ==
    \A k \in DOMAIN episodes :
        \/ k \in DOMAIN embedded /\ embedded[k] = episodes[k].text
        \/ <<k, episodes[k].stamp>> \in jobs

(* What a compression was given is archived and has its episode, and an     *)
(* episode has the vector of its text, or a job that will see to it. *)
CheckpointKept == HandedKept /\ EpisodeAsked

(* Expected, and refuted: what was taken back is in no later episode ("the *)
(* host removed the last exchange, so the undone turn's writes have to go  *)
(* with it", on_session_switch).  The buffer still has it.                 *)
UndoneIsNotDigested ==
    [][ \A k \in DOMAIN episodes' \ DOMAIN episodes :
          k[1] = "wave" => episodes'[k].text \cap undone = {} ]_episodeVars
=============================================================================
