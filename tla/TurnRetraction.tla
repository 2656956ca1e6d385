---------------------------- MODULE TurnRetraction ----------------------------
(***************************************************************************)
(* /undo: the provider numbers the turns of a session, stamps what is      *)
(* written during a turn with the number, and answers a rewound switch     *)
(* with a retract_turns job that soft-deletes what carries the number of   *)
(* the undone turn or a later one (em/provider/provider.py,                *)
(* em/store/retract.py).                                                   *)
(*                                                                         *)
(* The host runs on_turn_start and the tools on the agent thread, and      *)
(* sync_turn on one background thread, in order, some time after the turn. *)
(* A session switch waits for that thread; /undo does not.                 *)
(*                                                                         *)
(* Exchanges are numbered 1, 2, ... in the order the host starts them, in  *)
(* all sessions: this is the host's view, which the provider does not      *)
(* have.  An exchange has two messages.  The fail-soft paths on which the  *)
(* counter or the job is not written at all are left out, and so are the   *)
(* rows entropicmem_update writes, which carry no turn.                    *)
(***************************************************************************)
EXTENDS Integers, Sequences, FiniteSets

CONSTANTS
    Sessions,
    MaxTurns,      \* bound: exchanges
    MaxRows,       \* bound: memories
    Origins,       \* who writes memories: "tool" (entropicmem_remember),
                   \*   "auto" (auto-extraction), "window" (window extraction)
    PromptWorker   \* the worker runs a retraction before the next turn

Turns == 1..MaxTurns
Rows  == 1..MaxRows

ASSUME TurnConstants ==
    /\ Sessions # {}
    /\ MaxTurns \in Nat
    /\ MaxRows \in Nat
    /\ Origins \subseteq {"tool", "auto", "window"}
    /\ PromptWorker \in BOOLEAN

VARIABLES
    session,     \* the session the host and the provider are in
    talking,     \* an exchange is going on
    begun,       \* exchanges started
    home,        \* home[x]: the session of exchange x
    convo,       \* convo[s]: the exchanges of s that stand, in order
    toSync,      \* the host's background queue of finished exchanges
    turn,        \* ProviderState.turn_index
    saved,       \* meta turn_index:<session>
    chunks,      \* transcript_chunks: chunks[s][q] is the exchange of message q
    jobs,        \* queued retract_turns rows
    status,      \* the memories rows: status,
    stamp,       \*   source_turn (0: NULL),
    origin,      \*   who wrote it,
    of,          \*   the exchange it comes from
    number,      \* history: the number exchange x was given
    restored     \* history: rows review has restored

host     == <<session, talking, begun, home, convo, toSync>>
provider == <<turn, saved, chunks>>
rows     == <<status, stamp, origin, of>>
vars == <<session, talking, begun, home, convo, toSync, turn, saved, chunks, jobs,
          status, stamp, origin, of, number, restored>>

(* Every variable has its type. *)
TypeOK ==
    /\ session \in Sessions
    /\ talking \in BOOLEAN
    /\ begun \in 0..MaxTurns
    /\ home \in [Turns -> Sessions]
    /\ convo \in [Sessions -> Seq(Turns)]
    /\ toSync \in Seq(Turns)
    /\ turn \in 0..MaxTurns
    /\ saved \in [Sessions -> 0..MaxTurns]
    /\ chunks \in [Sessions -> Seq(Turns)]
    /\ jobs \subseteq [session : Sessions, from : Turns, asked : 0..MaxTurns]
    /\ status \in [Rows -> {"none", "pending", "active", "retracted"}]
    /\ stamp \in [Rows -> 0..(2 * MaxTurns)]
    /\ origin \in [Rows -> Origins \cup {"none"}]
    /\ of \in [Rows -> 0..MaxTurns]
    /\ number \in [Turns -> 0..MaxTurns]
    /\ restored \subseteq Rows

Init ==
    /\ session \in Sessions
    /\ talking = FALSE
    /\ begun = 0
    /\ home = [x \in Turns |-> session]
    /\ convo = [s \in Sessions |-> <<>>]
    /\ toSync = <<>>
    /\ turn = 0
    /\ saved = [s \in Sessions |-> 0]
    /\ chunks = [s \in Sessions |-> <<>>]
    /\ jobs = {}
    /\ status = [r \in Rows |-> "none"]
    /\ stamp = [r \in Rows |-> 0]
    /\ origin = [r \in Rows |-> "none"]
    /\ of = [r \in Rows |-> 0]
    /\ number = [x \in Turns |-> 0]
    /\ restored = {}

-----------------------------------------------------------------------------
(* The conversation.                                                       *)

Front(seq) == SubSeq(seq, 1, Len(seq) - 1)
Last(seq)  == seq[Len(seq)]

Stands(x) == \E k \in 1..Len(convo[home[x]]) : convo[home[x]][k] = x
Undone(x) == x <= begun /\ ~Stands(x)

(* on_turn_start: the counter is bumped and persisted. *)
StartTurn ==
    LET x == begun + 1
    IN /\ ~talking /\ begun < MaxTurns
       /\ PromptWorker => jobs = {}
       /\ talking' = TRUE
       /\ begun' = x
       /\ home' = [home EXCEPT ![x] = session]
       /\ convo' = [convo EXCEPT ![session] = Append(@, x)]
       /\ turn' = turn + 1
       /\ saved' = [saved EXCEPT ![session] = turn + 1]
       /\ number' = [number EXCEPT ![x] = turn + 1]
       /\ UNCHANGED <<session, toSync, chunks, jobs, rows, restored>>

(* The host hands the finished exchange to its background thread. *)
EndTurn ==
    /\ talking
    /\ talking' = FALSE
    /\ toSync' = Append(toSync, Last(convo[session]))
    /\ UNCHANGED <<session, begun, home, convo, provider, jobs, rows, number, restored>>

(* Variant: the counter is not stepped back. *)
UndoSideways ==
    /\ ~talking /\ convo[session] # <<>>
    /\ convo' = [convo EXCEPT ![session] = Front(@)]
    /\ turn > 0
    /\ jobs' = jobs \cup {[session |-> session, from |-> turn, asked |-> begun]}
    /\ UNCHANGED <<session, talking, begun, home, toSync, provider, rows, number, restored>>

(* Variant: the job is given the number after the step back. *)
UndoTooFar ==
    /\ ~talking /\ convo[session] # <<>>
    /\ convo' = [convo EXCEPT ![session] = Front(@)]
    /\ turn > 1
    /\ jobs' = jobs \cup {[session |-> session, from |-> turn - 1, asked |-> begun]}
    /\ turn' = turn - 1
    /\ saved' = [saved EXCEPT ![session] = turn - 1]
    /\ UNCHANGED <<session, talking, begun, home, toSync, chunks, rows, number, restored>>

(* /undo: the host drops the last exchange; _handle_rewind queues the      *)
(* retraction from its number on and steps the counter back. *)
Undo ==
    /\ ~talking /\ convo[session] # <<>>
    /\ convo' = [convo EXCEPT ![session] = Front(@)]
    /\ IF turn = 0 THEN UNCHANGED <<jobs, turn, saved>>
       ELSE /\ jobs' = jobs \cup {[session |-> session, from |-> turn, asked |-> begun]}
            /\ turn' = turn - 1
            /\ saved' = [saved EXCEPT ![session] = turn - 1]
    /\ UNCHANGED <<session, talking, begun, home, toSync, chunks, rows, number, restored>>

(* Any other switch: the counter of the new session is loaded. *)
Switch(s) ==
    /\ ~talking /\ toSync = <<>>
    /\ s # session
    /\ session' = s
    /\ turn' = saved[s]
    /\ UNCHANGED <<talking, begun, home, convo, toSync, saved, chunks, jobs, rows, number, restored>>

(* The process ends, with whatever the host had not yet handed over, and   *)
(* a new one is initialized in the same session. *)
Restart ==
    /\ talking' = FALSE
    /\ toSync' = <<>>
    /\ turn' = saved[session]
    /\ UNCHANGED <<session, begun, home, convo, saved, chunks, jobs, rows, number, restored>>

-----------------------------------------------------------------------------
(* What is written.                                                        *)

Add(r, st, number_, who, x) ==
    /\ status[r] = "none" /\ \A q \in Rows : q < r => status[q] # "none"
    /\ status' = [status EXCEPT ![r] = st]
    /\ stamp' = [stamp EXCEPT ![r] = number_]
    /\ origin' = [origin EXCEPT ![r] = who]
    /\ of' = [of EXCEPT ![r] = x]

(* entropicmem_remember during an exchange. *)
Remember(r) ==
    /\ "tool" \in Origins
    /\ talking
    /\ Add(r, "active", turn, "tool", Last(convo[session]))
    /\ UNCHANGED <<host, provider, jobs, number, restored>>

(* sync_turn: both messages go to the transcript; auto-extraction may leave *)
(* a candidate, stamped with the counter as it is now. *)
SyncTurn ==
    LET x == Head(toSync)
    IN /\ toSync # <<>>
       /\ toSync' = Tail(toSync)
       /\ chunks' = [chunks EXCEPT ![session] = @ \o <<x, x>>]
       /\ \/ UNCHANGED rows
          \/ "auto" \in Origins /\ \E r \in Rows : Add(r, "pending", turn, "auto", x)
       /\ UNCHANGED <<session, talking, begun, home, convo, turn, saved, jobs, number, restored>>

(* extract_window: a candidate found in message q of session s carries the *)
(* message's sequence number as its turn. *)
Extract(r, s, q) ==
    /\ "window" \in Origins
    /\ Add(r, "pending", q, "window", chunks[s][q])
    /\ UNCHANGED <<host, provider, jobs, number, restored>>

(* A candidate is committed, by reconcile or by the user. *)
Promote(r) ==
    /\ status[r] = "pending"
    /\ status' = [status EXCEPT ![r] = "active"]
    /\ UNCHANGED <<host, provider, jobs, stamp, origin, of, number, restored>>

(* review's restore of a retracted row. *)
Restore(r) ==
    /\ status[r] = "retracted"
    /\ status' = [status EXCEPT ![r] = "active"]
    /\ restored' = restored \cup {r}
    /\ UNCHANGED <<host, provider, jobs, stamp, origin, of, number>>

-----------------------------------------------------------------------------
(* The retraction.                                                         *)

(* Variant: the undone turn itself is left out. *)
ReachesAfter(j, r) ==
    /\ status[r] = "active"
    /\ home[of[r]] = j.session
    /\ stamp[r] # 0
    /\ stamp[r] > j.from

(* retract_session's query. *)
Reaches(j, r) ==
    /\ status[r] = "active"
    /\ home[of[r]] = j.session
    /\ stamp[r] # 0
    /\ stamp[r] >= j.from

(* A run of the job; a worker that dies before it reports leaves the row   *)
(* queued, to be run again. *)
Retract(j, reported) ==
    /\ status' = [r \in Rows |-> IF Reaches(j, r) THEN "retracted" ELSE status[r]]
    /\ jobs' = IF reported THEN jobs \ {j} ELSE jobs
    /\ UNCHANGED <<host, provider, stamp, origin, of, number, restored>>

Work == \E j \in jobs : Retract(j, TRUE)

Next ==
    \/ StartTurn \/ EndTurn \/ Undo \/ Restart \/ SyncTurn
    \/ \E s \in Sessions : Switch(s)
    \/ \E r \in Rows : Remember(r) \/ Promote(r) \/ Restore(r)
    \/ \E r \in Rows, s \in Sessions : \E q \in 1..Len(chunks[s]) : Extract(r, s, q)
    \/ \E j \in jobs, reported \in BOOLEAN : Retract(j, reported)

Spec == Init /\ [][Next]_vars

(* Scheduling: a primary session has a worker, and a row that loses its    *)
(* worker is claimed again, so a queued retraction is run and reported.    *)
FairSpec == Spec /\ WF_vars(Work)

-----------------------------------------------------------------------------
(* Properties.                                                             *)

(* However sessions are switched, processes restarted and turns undone,    *)
(* the counter, in memory and in meta, is the length of the conversation,  *)
(* and every exchange that stands was given its position in it as number:  *)
(* "a further /undo reaches the turn before, not the one already gone"     *)
(* (provider.py:2206). *)
TurnsNumbered ==
    /\ turn = saved[session]
    /\ \A s \in Sessions :
         /\ saved[s] = Len(convo[s])
         /\ \A k \in 1..Len(convo[s]) : number[convo[s][k]] = k

(* What the tool wrote in an undone exchange and nobody restored. *)
Leftover(r) ==
    /\ origin[r] = "tool" /\ status[r] = "active"
    /\ Undone(of[r])
    /\ r \notin restored

(* "the undone turn's writes have to go with it" (provider.py:1663): while *)
(* a memory of an undone exchange is still live, a queued job reaches it.  *)
LeftoversCovered ==
    \A r \in Rows : Leftover(r) => \E j \in jobs : Reaches(j, r)

(* And it goes. *)
LeftoversGo ==
    \A r \in Rows : Leftover(r) ~> ~Leftover(r)

(* A retraction never takes what the tool wrote in an exchange that stands *)
(* and had begun when the user asked for the undo. *)
EarlierTurnsKept ==
    [][\A r \in Rows :
         status[r] = "active" /\ status'[r] = "retracted" /\ origin[r] = "tool"
            => \/ Undone(of[r])
               \/ \E j \in jobs : Reaches(j, r) /\ of[r] > j.asked]_vars

(* What the code says and does not do.                                     *)

(* "soft-delete the undone turn's live rows" (store/memories.py:863): only *)
(* memories of undone exchanges are retracted. *)
OnlyUndoneRetracted ==
    \A r \in Rows : status[r] = "retracted" => Undone(of[r])

=============================================================================
