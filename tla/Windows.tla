------------------------------- MODULE Windows -------------------------------
(***************************************************************************)
(* Window formation (em/provider/provider.py, em/formation/                *)
(* extract_jobs.py).  sync_turn counts every message of a session in a     *)
(* ledger and stores its text in transcript_chunks under the number it     *)
(* got.  A seal (after an idle gap, at a cadence flush, at a compaction)   *)
(* closes the range of numbers that is still open and queues its           *)
(* extraction; the job reads the chunks of the range.                      *)
(*                                                                         *)
(* Seals run on the agent thread, sync_turn on one background thread of    *)
(* the host.  The lock covers the counters only: each thread writes the    *)
(* ledger to its meta row afterwards, and then goes on to the chunks or    *)
(* the job, so a crash can fall between any two of these.  Chunk capture   *)
(* and enqueue fail silently; so does the write of the ledger, which is    *)
(* left out unless LedgerMayFail.  A session switch waits for sync_turn.   *)
(*                                                                         *)
(* A turn is one or two messages.  The characters of a window are counted  *)
(* up to its floor: a turn is long enough to reach it alone, or counts     *)
(* nothing.  Evidence a compaction archives under positions of its own is  *)
(* left out: extracted twice, a text is one memory.                        *)
(***************************************************************************)
EXTENDS Integers, Sequences, FiniteSets

CONSTANTS
    Sessions,
    MaxTurns,        \* bound: exchanges the host hands to sync_turn
    MinTurns,        \* formation.min_window_turns
    MaxFaults,       \* bound: crashes, and writes that fail silently
    LedgerMayFail    \* the write of the ledger is among them

NoSession == "none"

Turns     == 1..MaxTurns
Positions == 1..(2 * MaxTurns)

WindowConstants ==
    /\ NoSession \notin Sessions
    /\ MaxTurns \in Nat
    /\ MinTurns \in Nat
    /\ MaxFaults \in Nat
    /\ LedgerMayFail \in BOOLEAN

Ledgers == [seq : 0..(2 * MaxTurns), sealed : 0..(2 * MaxTurns),
            turns : 0..MaxTurns, long : BOOLEAN]
Ranges  == [session : Sessions, from : Positions, to : Positions]

NoLedger == [seq |-> 0, sealed |-> 0, turns |-> 0, long |-> FALSE]

VARIABLES
    session,   \* ProviderState: the session of the provider,
    of,        \*   the session its ledger was loaded for,
    ledger,    \*   window_seq, window_sealed, window_turns, window_chars
    stamped,   \*   last_turn_ts is set
    saved,     \* meta window:<session>
    spoken,    \* exchanges the host has ended
    toSync,    \* those its background thread has not begun, in order
    sync,      \* where sync_turn is
    seal,      \* where a seal is
    chunks,    \* transcript_chunks, as <<session, position, exchange>>
    windows,   \* extract_window rows ever queued, by dedupe key
    done,      \* those that are settled
    run,       \* the extraction a worker is in, with what it has read
    dropped,   \* history: positions of windows dropped at the floor,
    lost,      \*   of windows a crash or a failed enqueue has lost
    faults     \* crashes and silent failures so far

provider   == <<session, of, ledger, stamped>>
host       == <<spoken, toSync>>
queue      == <<windows, done, run>>
losses    == <<dropped, lost>>
windowVars == <<session, of, ledger, stamped, saved, spoken, toSync, sync, seal,
                chunks, windows, done, run, dropped, lost, faults>>

Quiet == [step |-> "none"]
Syncs == [step : {"persist", "capture"}, session : Sessions,
          from : Positions, to : Positions, turn : Turns]
Seals == [step : {"persist", "enqueue"}, range : Ranges, drop : BOOLEAN]
Reads == [range : Ranges, read : SUBSET Turns]

(* Every variable has its type, and a ledger has sealed no more than it    *)
(* has counted.                                                            *)
WindowsTypeOK ==
    /\ session \in Sessions
    /\ of \in Sessions \cup {NoSession}
    /\ ledger \in Ledgers
    /\ stamped \in BOOLEAN
    /\ saved \in [Sessions -> Ledgers]
    /\ spoken \in 0..MaxTurns
    /\ toSync \in Seq(Turns)
    /\ sync \in Syncs \cup {Quiet}
    /\ seal \in Seals \cup {Quiet}
    /\ chunks \subseteq (Sessions \X Positions \X Turns)
    /\ windows \subseteq Ranges
    /\ done \subseteq windows
    /\ run \in Reads \cup {Quiet}
    /\ dropped \subseteq (Sessions \X Positions)
    /\ lost \subseteq (Sessions \X Positions)
    /\ faults \in 0..MaxFaults
    /\ ledger.sealed <= ledger.seq
    /\ \A s \in Sessions : saved[s].sealed <= saved[s].seq

WindowsInit ==
    /\ session \in Sessions
    /\ of = NoSession
    /\ ledger = NoLedger
    /\ stamped = FALSE
    /\ saved = [s \in Sessions |-> NoLedger]
    /\ spoken = 0
    /\ toSync = <<>>
    /\ sync = Quiet
    /\ seal = Quiet
    /\ chunks = {}
    /\ windows = {}
    /\ done = {}
    /\ run = Quiet
    /\ dropped = {}
    /\ lost = {}
    /\ faults = 0

Covered(r) == {r.session} \X (r.from..r.to)

(* A write that is allowed to fail: it is done, or it is not and nobody is *)
(* told.                                                                   *)
Works(may) ==
    \/ faults' = faults
    \/ may /\ faults < MaxFaults /\ faults' = faults + 1
Failed == faults' # faults

(* _restore_window_ledger, called by whichever of the hooks comes first in *)
(* a session: the ledger of the session as last written, and no stamp.     *)
Loaded    == IF of = session THEN ledger ELSE saved[session]
HasStamp  == of = session /\ stamped
-----------------------------------------------------------------------------
(* The background thread.                                                  *)

(* The host ends an exchange and hands it over. *)
Speak ==
    /\ spoken < MaxTurns
    /\ spoken' = spoken + 1
    /\ toSync' = Append(toSync, spoken + 1)
    /\ UNCHANGED <<provider, saved, sync, seal, chunks, queue, losses, faults>>

(* sync_turn counts the messages of the exchange under the lock. *)
SyncCount ==
    /\ sync = Quiet /\ toSync # <<>>
    /\ \E counted \in 1..2, long \in BOOLEAN :
         /\ ledger' = [Loaded EXCEPT !.seq = @ + counted,
                                     !.turns = @ + 1,
                                     !.long = @ \/ long]
         /\ sync' = [step |-> "persist", session |-> session, turn |-> Head(toSync),
                     from |-> Loaded.seq + 1, to |-> Loaded.seq + counted]
    /\ toSync' = Tail(toSync)
    /\ of' = session
    /\ stamped' = HasStamp
    /\ UNCHANGED <<session, saved, spoken, seal, chunks, queue, losses, faults>>

(* _persist_window_ledger writes what the counters are by then. *)
Saved == saved' = IF Failed THEN saved ELSE [saved EXCEPT ![of] = ledger]

SyncPersist ==
    /\ sync # Quiet /\ sync.step = "persist"
    /\ Works(LedgerMayFail)
    /\ Saved
    /\ sync' = [sync EXCEPT !.step = "capture"]
    /\ UNCHANGED <<provider, host, seal, chunks, queue, losses>>

(* _capture_turn_chunks: the text goes to the positions that were counted. *)
SyncCapture ==
    /\ sync # Quiet /\ sync.step = "capture"
    /\ Works(TRUE)
    /\ chunks' = IF Failed THEN chunks
                 ELSE chunks \cup ({sync.session} \X (sync.from..sync.to) \X {sync.turn})
    /\ sync' = Quiet
    /\ UNCHANGED <<provider, saved, host, seal, queue, losses>>
-----------------------------------------------------------------------------
(* The agent thread.                                                       *)

BelowFloor(l) == l.turns < MinTurns /\ ~l.long

(* Variant: the range starts at the last sealed position. *)
CutAgain(floor) ==
    /\ seal = Quiet
    /\ of' = session
    /\ IF Loaded.sealed < Loaded.seq
       THEN /\ seal' = [step  |-> "persist",
                        range |-> [session |-> session,
                                   from |-> IF Loaded.sealed = 0 THEN 1 ELSE Loaded.sealed,
                                   to |-> Loaded.seq],
                        drop  |-> floor /\ BelowFloor(Loaded)]
            /\ ledger' = [Loaded EXCEPT !.sealed = Loaded.seq,
                                        !.turns = 0, !.long = FALSE]
       ELSE /\ seal' = seal
            /\ ledger' = Loaded

(* _seal_window under the lock: the open range is taken and closed. *)
Cut(floor) ==
    /\ seal = Quiet
    /\ of' = session
    /\ IF Loaded.sealed < Loaded.seq
       THEN /\ seal' = [step  |-> "persist",
                        range |-> [session |-> session, from |-> Loaded.sealed + 1,
                                   to |-> Loaded.seq],
                        drop  |-> floor /\ BelowFloor(Loaded)]
            /\ ledger' = [Loaded EXCEPT !.sealed = Loaded.seq,
                                        !.turns = 0, !.long = FALSE]
       ELSE /\ seal' = seal
            /\ ledger' = Loaded

(* on_turn_start: a gap since the last turn seals what is open; the first  *)
(* turn after a start or a switch has no gap to measure.                   *)
TurnStart ==
    /\ seal = Quiet
    /\ \/ HasStamp /\ Cut(TRUE)
       \/ ledger' = Loaded /\ of' = session /\ seal' = seal
    /\ stamped' = TRUE
    /\ UNCHANGED <<session, saved, host, sync, chunks, queue, losses, faults>>

(* The cadence flush of on_turn_start, and on_pre_compress once its        *)
(* checkpoint is committed, seal whatever is open.                         *)
Flush ==
    /\ Cut(FALSE)
    /\ stamped' = HasStamp
    /\ UNCHANGED <<session, saved, host, sync, chunks, queue, losses, faults>>

SealPersist ==
    /\ seal # Quiet /\ seal.step = "persist"
    /\ Works(LedgerMayFail)
    /\ Saved
    /\ IF seal.drop
       THEN seal' = Quiet /\ dropped' = dropped \cup Covered(seal.range)
       ELSE seal' = [seal EXCEPT !.step = "enqueue"] /\ dropped' = dropped
    /\ UNCHANGED <<provider, host, sync, chunks, queue, lost>>

(* _enqueue_job under the key of the range; a key is queued once. *)
SealEnqueue ==
    /\ seal # Quiet /\ seal.step = "enqueue"
    /\ Works(TRUE)
    /\ windows' = IF Failed THEN windows ELSE windows \cup {seal.range}
    /\ lost' = IF Failed THEN lost \cup Covered(seal.range) ELSE lost
    /\ seal' = Quiet
    /\ UNCHANGED <<provider, saved, host, sync, chunks, done, run, dropped>>

(* on_session_switch; the host has drained its background thread. *)
Switch ==
    /\ seal = Quiet /\ sync = Quiet /\ toSync = <<>>
    /\ session' \in Sessions \ {session}
    /\ UNCHANGED <<of, ledger, stamped, saved, host, sync, seal, chunks, queue,
                   losses, faults>>

(* The process ends and starts again: counters, background queue, an       *)
(* unfinished seal and a running job go; tables and meta rows stay.  The   *)
(* window of that seal is lost once either thread wrote it as sealed.      *)
Restart ==
    /\ faults < MaxFaults
    /\ faults' = faults + 1
    /\ session' \in Sessions
    /\ of' = NoSession
    /\ ledger' = NoLedger
    /\ stamped' = FALSE
    /\ toSync' = <<>>
    /\ sync' = Quiet
    /\ seal' = Quiet
    /\ run' = Quiet
    /\ lost' = IF seal # Quiet /\ saved[seal.range.session].sealed >= seal.range.to
               THEN lost \cup Covered(seal.range) ELSE lost
    /\ UNCHANGED <<saved, spoken, chunks, windows, done, dropped>>
-----------------------------------------------------------------------------
(* The worker.                                                             *)

Heard(r) == {x \in Turns : \E p \in r.from..r.to : <<r.session, p, x>> \in chunks}

(* extract_window reads the chunks of its range in one transaction. *)
ExtractRead ==
    /\ run = Quiet
    /\ \E r \in windows \ done : run' = [range |-> r, read |-> Heard(r)]
    /\ UNCHANGED <<provider, saved, host, sync, seal, chunks, windows, done,
                   losses, faults>>

(* It writes the candidates in another, and the worker settles the job;    *)
(* Reconcile says what becomes of the candidates.                          *)
ExtractEnd ==
    /\ run # Quiet
    /\ done' = done \cup {run.range}
    /\ run' = Quiet
    /\ UNCHANGED <<provider, saved, host, sync, seal, chunks, windows, losses, faults>>

(* The heartbeat finds the lease lost, or the handler raises: the row will *)
(* run again.                                                              *)
ExtractAbandon ==
    /\ run # Quiet
    /\ faults < MaxFaults
    /\ faults' = faults + 1
    /\ run' = Quiet
    /\ UNCHANGED <<provider, saved, host, sync, seal, chunks, windows, done, losses>>

Provider ==
    \/ Speak \/ SyncCount \/ SyncPersist \/ SyncCapture
    \/ TurnStart \/ Flush \/ SealPersist \/ SealEnqueue
    \/ Switch

WindowsNext == Provider \/ Restart \/ ExtractRead \/ ExtractEnd \/ ExtractAbandon

WindowsSpec == WindowsInit /\ [][WindowsNext]_windowVars
-----------------------------------------------------------------------------
(* Properties.                                                             *)

(* A position holds the text of one exchange, so a window's range means    *)
(* the same conversation to the seal that drew it and to the job that      *)
(* reads it, across restarts.                                              *)
PositionsUnique ==
    \A c, d \in chunks : c[1] = d[1] /\ c[2] = d[2] => c[3] = d[3]

(* No two extractions are asked for the same message, whatever triggers    *)
(* overlap and wherever a process ends: "the ledger is what stops a live   *)
(* process from sealing the same content twice" (_seal_window), and the    *)
(* written ledger what stops the next one.  And a message is one message.  *)
WindowsDisjoint ==
    /\ \A q, r \in windows : q # r => Covered(q) \cap Covered(r) = {}
    /\ PositionsUnique

(* A sealed message is in a window that was queued, or was dropped at the  *)
(* idle floor, or is in a seal that is going on; only a failed enqueue or  *)
(* a crash just before it loses a window.                                  *)
Offered ==
    (UNION {Covered(r) : r \in windows}) \cup dropped \cup lost
        \cup IF seal = Quiet THEN {} ELSE Covered(seal.range)

SealedIsOffered ==
    /\ of # NoSession => {of} \X (1..ledger.sealed) \subseteq Offered
    /\ \A s \in Sessions : {s} \X (1..saved[s].sealed) \subseteq Offered

(* Each message a seal has passed is offered to one extraction, and to no  *)
(* second.                                                                 *)
OfferedOnce == WindowsDisjoint /\ SealedIsOffered
=============================================================================
