------------------------------ MODULE IntakeProofs ------------------------------
(***************************************************************************)
(* Theorems about the way of a text into the store.  Windows: for any      *)
(* sessions, any number of turns, any size of a window, and any failures   *)
(* of the store.  Reconcile: for any candidates and whatever a retrieval   *)
(* finds.  Facade: for any texts, rows and tokens.                         *)
(***************************************************************************)
EXTENDS Windows, Reconcile, Facade, SequenceTheorems, WellFoundedInduction, TLAPS

-----------------------------------------------------------------------------
(* Types. *)

(* A ledger counts no more than was handed to sync_turn and begun. *)
Begun == spoken - Len(toSync)

Bounded ==
    /\ Len(toSync) <= spoken
    /\ ledger.seq <= 2 * Begun /\ ledger.turns <= Begun
    /\ \A s \in Sessions : saved[s].seq <= 2 * Begun /\ saved[s].turns <= Begun

Typed == WindowsTypeOK /\ Bounded /\ (run # Quiet => run.range \in windows)

(* A seal that has nothing to close loads the ledger, else it closes. *)
Cuts(l) ==
    /\ of' = session
    /\ \/ seal' = seal /\ ledger' = l
       \/ /\ l.sealed < l.seq
          /\ ledger' \in Ledgers
          /\ ledger'.seq = l.seq /\ ledger'.sealed = l.seq /\ ledger'.turns = 0
          /\ seal' \in [step : {"persist"}, drop : BOOLEAN,
                        range : {[session |-> session, from |-> l.sealed + 1, to |-> l.seq]}]

LEMMA ClosedIs ==
    ASSUME WindowConstants, NEW l \in Ledgers,
           NEW m, m = [l EXCEPT !.sealed = l.seq, !.turns = 0, !.long = FALSE]
    PROVE  m \in Ledgers /\ m.seq = l.seq /\ m.sealed = l.seq /\ m.turns = 0
<1>1. ASSUME NEW n \in 0..(2 * MaxTurns), NEW t \in 0..MaxTurns, NEW b \in BOOLEAN
      PROVE  [l EXCEPT !.sealed = n, !.turns = t, !.long = b] \in Ledgers
  <2>1. MaxTurns \in Nat
    BY DEF WindowConstants
  <2> QED BY <2>1 DEF Ledgers
<1>2. l.seq \in 0..(2 * MaxTurns) /\ 0 \in 0..MaxTurns
  BY DEF Ledgers, WindowConstants
<1>3. m \in Ledgers
  BY <1>1, <1>2
<1> QED BY <1>3 DEF Ledgers

LEMMA LoadedIs ==
    ASSUME WindowConstants, Typed
    PROVE  /\ Loaded \in Ledgers /\ Loaded.sealed <= Loaded.seq
           /\ Loaded.seq <= 2 * Begun /\ Loaded.turns <= Begun
           /\ session \in Sessions
BY DEF Typed, WindowsTypeOK, Bounded, Loaded

LEMMA CutIs ==
    ASSUME WindowConstants, Typed, NEW floor \in BOOLEAN, Cut(floor)
    PROVE  Cuts(Loaded)
<1>1. Loaded \in Ledgers
  BY LoadedIs
<1>2. CASE Loaded.sealed < Loaded.seq
  <2> DEFINE range == [session |-> session, from |-> Loaded.sealed + 1, to |-> Loaded.seq]
  <2>1. ledger' = [Loaded EXCEPT !.sealed = Loaded.seq, !.turns = 0, !.long = FALSE]
    BY <1>2 DEF Cut
  <2>2. /\ ledger' \in Ledgers
        /\ ledger'.seq = Loaded.seq /\ ledger'.sealed = Loaded.seq /\ ledger'.turns = 0
    <3> HIDE DEF range
    <3> QED BY <1>1, <2>1, ClosedIs
  <2>3. seal' = [step |-> "persist", range |-> range, drop |-> floor /\ BelowFloor(Loaded)]
    BY <1>2 DEF Cut
  <2>4. (floor /\ BelowFloor(Loaded)) \in BOOLEAN
    BY DEF BelowFloor
  <2>5. seal' \in [step : {"persist"}, drop : BOOLEAN, range : {range}]
    <3> HIDE DEF range
    <3> QED BY <2>3, <2>4
  <2> QED BY <1>2, <2>2, <2>5 DEF Cut, Cuts
<1>3. CASE ~(Loaded.sealed < Loaded.seq)
  BY <1>3 DEF Cut, Cuts
<1> QED BY <1>2, <1>3

LEMMA AgentIs ==
    ASSUME WindowConstants, Typed, TurnStart \/ Flush
    PROVE  /\ Cuts(Loaded) /\ seal = Quiet
           /\ stamped' \in BOOLEAN
           /\ UNCHANGED <<session, saved, host, sync, chunks, queue, losses, faults>>
<1>1. CASE TurnStart
  BY <1>1, CutIs DEF TurnStart, Cuts
<1>2. CASE Flush
  BY <1>2, CutIs DEF Flush, Cut, HasStamp, Typed, WindowsTypeOK
<1> QED BY <1>1, <1>2

(* What sync_turn counts. *)
LEMMA CountIs ==
    ASSUME WindowConstants, Typed, SyncCount
    PROVE  \E counted \in 1..2, l \in BOOLEAN :
              /\ ledger' = [seq |-> Loaded.seq + counted, sealed |-> Loaded.sealed,
                            turns |-> Loaded.turns + 1, long |-> l]
              /\ sync' = [step |-> "persist", session |-> session, turn |-> Head(toSync),
                          from |-> Loaded.seq + 1, to |-> Loaded.seq + counted]
              /\ sync = Quiet /\ toSync # <<>> /\ toSync' = Tail(toSync) /\ of' = session
              /\ Head(toSync) \in Turns /\ toSync' \in Seq(Turns) /\ stamped' \in BOOLEAN
              /\ Len(toSync') = Len(toSync) - 1 /\ Len(toSync) \in Nat \ {0}
              /\ UNCHANGED <<session, saved, spoken, seal, chunks, queue, losses, faults>>
<1>1. toSync \in Seq(Turns) /\ toSync # <<>> /\ Loaded \in Ledgers /\ stamped \in BOOLEAN
  BY LoadedIs DEF SyncCount, Typed, WindowsTypeOK
<1>2. /\ Head(toSync) \in Turns /\ Tail(toSync) \in Seq(Turns)
      /\ Len(Tail(toSync)) = Len(toSync) - 1 /\ Len(toSync) \in Nat \ {0}
  BY <1>1, HeadTailProperties, EmptySeq
<1>3. PICK counted \in 1..2, long \in BOOLEAN :
         /\ ledger' = [Loaded EXCEPT !.seq = @ + counted,
                                     !.turns = @ + 1,
                                     !.long = @ \/ long]
         /\ sync' = [step |-> "persist", session |-> session, turn |-> Head(toSync),
                     from |-> Loaded.seq + 1, to |-> Loaded.seq + counted]
  BY DEF SyncCount
<1>4. ledger' = [seq |-> Loaded.seq + counted, sealed |-> Loaded.sealed,
                 turns |-> Loaded.turns + 1, long |-> Loaded.long \/ long]
  BY <1>1, <1>3 DEF Ledgers
<1>5. (Loaded.long \/ long) \in BOOLEAN
  OBVIOUS
<1>6. stamped' \in BOOLEAN
  BY <1>1 DEF SyncCount, HasStamp
<1> QED BY <1>1, <1>2, <1>3, <1>4, <1>5, <1>6 DEF SyncCount

LEMMA CountBounds ==
    ASSUME NEW most \in Nat, NEW b \in Int, NEW seq \in Nat, NEW cut \in Nat, NEW n \in Nat,
           NEW c \in 1..2, cut <= seq, seq <= 2 * b, n <= b, b + 1 <= most
    PROVE  /\ seq + c \in 0..(2 * most) /\ seq + c <= 2 * (b + 1)
           /\ cut \in 0..(2 * most) /\ cut <= seq + c
           /\ n + 1 \in 0..most /\ n + 1 <= b + 1
  OBVIOUS

LEMMA TypesStay == ASSUME WindowConstants, Typed, [WindowsNext]_windowVars PROVE Typed'
<1> USE DEF WindowConstants
<1>0. /\ spoken \in Nat /\ toSync \in Seq(Turns) /\ Len(toSync) \in Nat /\ MaxTurns \in Nat
      /\ Begun <= MaxTurns /\ Begun \in Int
  BY DEF Typed, WindowsTypeOK, Bounded, Begun
<1>1. CASE Speak
  <2>1. /\ toSync' \in Seq(Turns) /\ Len(toSync') = Len(toSync) + 1
        /\ spoken' = spoken + 1 /\ spoken' \in 0..MaxTurns
    BY <1>0, <1>1 DEF Speak, Turns, Typed, WindowsTypeOK
  <2>2. Begun' = Begun
    BY <1>0, <2>1 DEF Begun
  <2>3. Bounded'
    BY <1>0, <1>1, <2>1, <2>2 DEF Speak, provider, Typed, Bounded
  <2> QED BY <1>1, <2>1, <2>3 DEF Speak, Typed, WindowsTypeOK, provider, queue, losses
<1>2. CASE SyncCount
  <2>1. PICK counted \in 1..2, l \in BOOLEAN :
              /\ ledger' = [seq |-> Loaded.seq + counted, sealed |-> Loaded.sealed,
                            turns |-> Loaded.turns + 1, long |-> l]
              /\ sync' = [step |-> "persist", session |-> session, turn |-> Head(toSync),
                          from |-> Loaded.seq + 1, to |-> Loaded.seq + counted]
              /\ sync = Quiet /\ toSync # <<>> /\ toSync' = Tail(toSync) /\ of' = session
              /\ Head(toSync) \in Turns /\ toSync' \in Seq(Turns) /\ stamped' \in BOOLEAN
              /\ Len(toSync') = Len(toSync) - 1 /\ Len(toSync) \in Nat \ {0}
              /\ UNCHANGED <<session, saved, spoken, seal, chunks, queue, losses, faults>>
    BY <1>2, CountIs
  <2>2. Begun' = Begun + 1 /\ Begun' <= MaxTurns
    BY <1>0, <2>1 DEF Begun, Typed, WindowsTypeOK
  <2>3. /\ Loaded.seq \in Nat /\ Loaded.sealed \in Nat /\ Loaded.turns \in Nat
        /\ Loaded.sealed <= Loaded.seq /\ session \in Sessions
        /\ Loaded.seq <= 2 * Begun /\ Loaded.turns <= Begun
    BY LoadedIs DEF Ledgers
  <2>4. /\ ledger'.seq <= 2 * Begun' /\ ledger'.turns <= Begun' /\ ledger' \in Ledgers
        /\ ledger'.sealed <= ledger'.seq
    <3>1. /\ Loaded.seq + counted \in 0..(2 * MaxTurns) /\ Loaded.seq + counted <= 2 * (Begun + 1)
          /\ Loaded.sealed \in 0..(2 * MaxTurns) /\ Loaded.sealed <= Loaded.seq + counted
          /\ Loaded.turns + 1 \in 0..MaxTurns /\ Loaded.turns + 1 <= Begun + 1
      BY <1>0, <2>2, <2>3, CountBounds
    <3> QED BY <2>1, <2>2, <3>1 DEF Ledgers
  <2>5. sync' \in Syncs
    BY <1>0, <2>1, <2>2, <2>3 DEF Syncs, Positions
  <2>6. Bounded'
    <3>1. \A s \in Sessions : saved[s].seq \in Int /\ saved[s].turns \in Int
      BY DEF Typed, WindowsTypeOK, Ledgers
    <3>2. \A s \in Sessions : saved'[s].seq <= 2 * Begun' /\ saved'[s].turns <= Begun'
      BY <1>0, <2>1, <2>2, <3>1 DEF Typed, Bounded
    <3>3. Len(toSync') <= spoken'
      BY <1>0, <2>1 DEF Typed, Bounded
    <3> QED BY <2>4, <3>2, <3>3 DEF Bounded
  <2> QED BY <2>1, <2>3, <2>4, <2>5, <2>6 DEF Typed, WindowsTypeOK, queue, losses
<1>3. CASE SyncPersist
  <2>1. sync' \in Syncs
    BY <1>3 DEF SyncPersist, Typed, WindowsTypeOK, Syncs
  <2>2. /\ saved' \in [Sessions -> Ledgers]
        /\ \A s \in Sessions : saved'[s] \in {saved[s], ledger}
    BY <1>3 DEF SyncPersist, Saved, Typed, WindowsTypeOK
  <2>3. faults' \in 0..MaxFaults
    BY <1>3 DEF SyncPersist, Works, Typed, WindowsTypeOK
  <2> QED BY <1>3, <2>1, <2>2, <2>3 DEF SyncPersist, Typed, WindowsTypeOK, Bounded, Begun, provider, host, queue, losses
<1>4. CASE SyncCapture
  <2>1. chunks' \subseteq Sessions \X Positions \X Turns
    <3>1. sync \in Syncs
      BY <1>4 DEF SyncCapture, Typed, WindowsTypeOK
    <3>2. sync.from..sync.to \subseteq Positions
      BY <1>0, <3>1 DEF Syncs, Positions
    <3> QED BY <1>4, <3>1, <3>2 DEF SyncCapture, Typed, WindowsTypeOK, Syncs
  <2>2. faults' \in 0..MaxFaults
    BY <1>4 DEF SyncCapture, Works, Typed, WindowsTypeOK
  <2> QED BY <1>4, <2>1, <2>2 DEF SyncCapture, Typed, WindowsTypeOK, Bounded, Begun, provider, host, queue, losses
<1>5. CASE TurnStart \/ Flush
  <2>1. /\ Cuts(Loaded) /\ stamped' \in BOOLEAN
        /\ UNCHANGED <<session, saved, host, sync, chunks, queue, losses, faults>>
    BY <1>5, AgentIs
  <2>2. /\ Loaded.seq \in 0..(2 * MaxTurns) /\ Loaded.sealed \in 0..(2 * MaxTurns)
        /\ Loaded.sealed <= Loaded.seq /\ session \in Sessions /\ Loaded \in Ledgers
        /\ Loaded.seq <= 2 * Begun /\ Loaded.turns <= Begun
    BY LoadedIs DEF Ledgers
  <2>3. /\ ledger' \in Ledgers /\ ledger'.sealed <= ledger'.seq
        /\ ledger'.seq <= 2 * Begun /\ ledger'.turns <= Begun
    <3>1. Begun' = Begun
      BY <2>1 DEF Begun, host
    <3>2. CASE ledger' = Loaded
      BY <2>2, <3>1, <3>2
    <3>3. CASE ledger'.seq = Loaded.seq /\ ledger'.sealed = Loaded.seq /\ ledger'.turns = 0
               /\ ledger' \in Ledgers
      BY <1>0, <2>2, <3>1, <3>3
    <3> QED BY <2>1, <3>2, <3>3 DEF Cuts
  <2>4. seal' \in Seals \cup {Quiet}
    <3>1. Loaded.sealed < Loaded.seq =>
             [session |-> session, from |-> Loaded.sealed + 1, to |-> Loaded.seq] \in Ranges
      BY <1>0, <2>2 DEF Ranges, Positions
    <3> QED BY <2>1, <3>1 DEF Cuts, Seals, Typed, WindowsTypeOK
  <2>5. of' = session
    BY <2>1 DEF Cuts
  <2>6. Bounded'
    BY <2>1, <2>3 DEF Typed, Bounded, Begun, host
  <2> QED BY <2>1, <2>2, <2>3, <2>4, <2>5, <2>6 DEF Typed, WindowsTypeOK, host, queue, losses
<1>6. CASE SealPersist
  <2>1. /\ seal' \in Seals \cup {Quiet} /\ seal \in Seals
    BY <1>6 DEF SealPersist, Typed, WindowsTypeOK, Seals
  <2>2. /\ saved' \in [Sessions -> Ledgers]
        /\ \A s \in Sessions : saved'[s] \in {saved[s], ledger}
    BY <1>6 DEF SealPersist, Saved, Typed, WindowsTypeOK
  <2>3. faults' \in 0..MaxFaults
    BY <1>6 DEF SealPersist, Works, Typed, WindowsTypeOK
  <2>4. Covered(seal.range) \subseteq Sessions \X Positions
    BY <1>0, <2>1 DEF Covered, Seals, Ranges, Positions
  <2>5. dropped' \subseteq Sessions \X Positions
    BY <1>6, <2>4 DEF SealPersist, Typed, WindowsTypeOK
  <2> QED BY <1>6, <2>1, <2>2, <2>3, <2>5 DEF SealPersist, Typed, WindowsTypeOK, Bounded, Begun, provider, host, queue, losses
<1>7. CASE SealEnqueue
  <2>1. seal \in Seals /\ seal.range \in Ranges
    BY <1>7 DEF SealEnqueue, Typed, WindowsTypeOK, Seals
  <2>3. faults' \in 0..MaxFaults
    BY <1>7 DEF SealEnqueue, Works, Typed, WindowsTypeOK
  <2>4. Covered(seal.range) \subseteq Sessions \X Positions
    BY <1>0, <2>1 DEF Covered, Ranges, Positions
  <2>5. lost' \subseteq Sessions \X Positions /\ windows' \subseteq Ranges /\ windows \subseteq windows'
    BY <1>7, <2>1, <2>4 DEF SealEnqueue, Typed, WindowsTypeOK
  <2> QED BY <1>7, <2>3, <2>5 DEF SealEnqueue, Typed, WindowsTypeOK, Bounded, Begun, provider, host, queue, losses
<1>8. CASE Switch
  BY <1>8 DEF Switch, Typed, WindowsTypeOK, Bounded, Begun, provider, host, queue, losses
<1>9. CASE Restart
  <2>1. lost' \subseteq Sessions \X Positions
    <3>1. seal # Quiet => seal \in Seals
      BY DEF Typed, WindowsTypeOK
    <3>2. seal # Quiet => Covered(seal.range) \subseteq Sessions \X Positions
      BY <1>0, <3>1 DEF Covered, Seals, Ranges, Positions
    <3> QED BY <1>9, <3>2 DEF Restart, Typed, WindowsTypeOK
  <2>2. /\ faults' \in 0..MaxFaults /\ toSync' = <<>> /\ Len(toSync') = 0 /\ toSync' \in Seq(Turns)
        /\ Begun' = spoken /\ Begun <= Begun'
    BY <1>0, <1>9 DEF Restart, Typed, WindowsTypeOK, Begun
  <2>3. NoLedger \in Ledgers /\ NoLedger.seq = 0 /\ NoLedger.turns = 0 /\ NoLedger.sealed = 0
    BY <1>0 DEF NoLedger, Ledgers
  <2>4. \A s \in Sessions : saved[s].seq \in Int /\ saved[s].turns \in Int
    BY DEF Typed, WindowsTypeOK, Ledgers
  <2>5. Bounded'
    BY <1>0, <1>9, <2>2, <2>3, <2>4 DEF Restart, Typed, Bounded
  <2>6. /\ session' \in Sessions /\ of' = NoSession /\ ledger' = NoLedger /\ stamped' = FALSE
        /\ sync' = Quiet /\ seal' = Quiet /\ run' = Quiet
        /\ UNCHANGED <<saved, spoken, chunks, windows, done, dropped>>
    BY <1>9 DEF Restart
  <2>7. ledger' \in Ledgers /\ ledger'.sealed <= ledger'.seq
    BY <2>3, <2>6
  <2>8. saved' \in [Sessions -> Ledgers] /\ \A s \in Sessions : saved'[s].sealed <= saved'[s].seq
    BY <2>6 DEF Typed, WindowsTypeOK
  <2>9. /\ session' \in Sessions /\ of' \in Sessions \cup {NoSession} /\ stamped' \in BOOLEAN
        /\ sync' \in Syncs \cup {Quiet} /\ seal' \in Seals \cup {Quiet} /\ run' \in Reads \cup {Quiet}
        /\ spoken' \in 0..MaxTurns
        /\ chunks' \subseteq (Sessions \X Positions \X Turns)
        /\ windows' \subseteq Ranges /\ done' \subseteq windows'
        /\ dropped' \subseteq (Sessions \X Positions)
    BY <2>6 DEF Typed, WindowsTypeOK
  <2>10. WindowsTypeOK'
    BY <2>1, <2>2, <2>7, <2>8, <2>9 DEF WindowsTypeOK
  <2> QED BY <2>5, <2>6, <2>10 DEF Typed
<1>10. CASE ExtractRead
  <2>1. run' \in Reads
    BY <1>10 DEF ExtractRead, Reads, Heard, Typed, WindowsTypeOK
  <2>2. run'.range \in windows
    BY <1>10 DEF ExtractRead
  <2> QED BY <1>10, <2>1, <2>2 DEF ExtractRead, Typed, WindowsTypeOK, Bounded, Begun, provider, host, losses
<1>11. CASE ExtractEnd
  <2>1. run.range \in windows
    BY <1>11 DEF ExtractEnd, Typed
  <2> QED BY <1>11, <2>1 DEF ExtractEnd, Typed, WindowsTypeOK, Bounded, Begun, provider, host, losses, Reads
<1>12. CASE ExtractAbandon
  BY <1>12 DEF ExtractAbandon, Typed, WindowsTypeOK, Bounded, Begun, provider, host, losses
<1>13. CASE UNCHANGED windowVars
  BY <1>13 DEF windowVars, Typed, WindowsTypeOK, Bounded, Begun
<1> QED BY <1>1, <1>2, <1>3, <1>4, <1>5, <1>6, <1>7, <1>8, <1>9, <1>10, <1>11, <1>12, <1>13
        DEF WindowsNext, Provider

LEMMA TypesInit == ASSUME WindowConstants, WindowsInit PROVE Typed
<1>1. NoLedger \in Ledgers /\ NoLedger.seq = 0 /\ NoLedger.turns = 0 /\ NoLedger.sealed = 0
  BY DEF NoLedger, Ledgers, WindowConstants
<1>2. Begun = 0 /\ Len(toSync) = 0 /\ toSync \in Seq(Turns)
  <2>1. toSync = <<>>
    BY DEF WindowsInit
  <2>2. Len(toSync) = 0 /\ toSync \in Seq(Turns)
    BY <2>1
  <2>3. spoken = 0
    BY DEF WindowsInit
  <2> QED BY <2>2, <2>3 DEF Begun
<1>3. Bounded
  BY <1>1, <1>2 DEF WindowsInit, Bounded
<1>4. WindowsTypeOK
  <2>1. saved \in [Sessions -> Ledgers] /\ \A s \in Sessions : saved[s] = NoLedger
    BY <1>1 DEF WindowsInit
  <2>2. ledger \in Ledgers /\ spoken \in 0..MaxTurns /\ faults \in 0..MaxFaults
    BY <1>1 DEF WindowsInit, WindowConstants
  <2>3. /\ session \in Sessions /\ of \in Sessions \cup {NoSession} /\ stamped \in BOOLEAN
        /\ sync \in Syncs \cup {Quiet} /\ seal \in Seals \cup {Quiet} /\ run \in Reads \cup {Quiet}
        /\ chunks \subseteq (Sessions \X Positions \X Turns)
        /\ windows \subseteq Ranges /\ done \subseteq windows
        /\ dropped \subseteq (Sessions \X Positions) /\ lost \subseteq (Sessions \X Positions)
    BY DEF WindowsInit
  <2>4. /\ ledger.sealed <= ledger.seq
        /\ \A s \in Sessions : saved[s].sealed <= saved[s].seq
    BY <1>1, <2>1 DEF WindowsInit
  <2> QED BY <1>2, <2>1, <2>2, <2>3, <2>4 DEF WindowsTypeOK
<1> QED BY <1>3, <1>4 DEF Typed, WindowsInit

(* Ledger, chunks, windows and the two threads keep their types through     *)
(* every step of the formation. *)
THEOREM WindowTypes == WindowConstants => (WindowsSpec => []WindowsTypeOK)
<1> SUFFICES ASSUME WindowConstants PROVE WindowsSpec => []WindowsTypeOK
  OBVIOUS
<1>1. WindowsInit => Typed
  BY TypesInit
<1>2. Typed /\ [WindowsNext]_windowVars => Typed'
  BY TypesStay
<1>3. Typed => WindowsTypeOK
  BY DEF Typed
<1> QED BY <1>1, <1>2, <1>3, PTL DEF WindowsSpec
-----------------------------------------------------------------------------
(* What the two threads have of the ledger. *)

(* The written ledger is behind the one in memory; a sync_turn that is past *)
(* its write has its positions in it, and a seal either has written the     *)
(* end of its range or nothing of it. *)
Behind ==
    /\ of # NoSession => /\ saved[of].seq <= ledger.seq
                         /\ saved[of].sealed <= ledger.sealed
    /\ sync # Quiet => /\ of = session /\ sync.session = session
                       /\ sync.to <= ledger.seq
                       /\ sync.step = "capture" => sync.to <= saved[session].seq
    /\ seal # Quiet =>
          /\ of = session /\ seal.range.session = session
          /\ seal.range.from <= seal.range.to /\ seal.range.to = ledger.sealed
          /\ saved[session].sealed < seal.range.from \/ saved[session].sealed = seal.range.to
          /\ seal.step = "enqueue" => saved[session].sealed = seal.range.to

(* What is stored is of numbers the written ledger has passed, and what is  *)
(* under way of later ones than all that is stored. *)
Passed ==
    /\ \A c \in chunks : c[2] <= saved[c[1]].seq
    /\ \A r \in windows : r.to <= saved[r.session].sealed
    /\ sync # Quiet => \A c \in chunks : c[1] = sync.session => c[2] < sync.from
    /\ seal # Quiet => \A r \in windows : r.session = seal.range.session => r.to < seal.range.from

IInv == Typed /\ Behind /\ Passed /\ WindowsDisjoint /\ SealedIsOffered

(* The ledger a hook goes on from is ahead of all that is stored. *)
LEMMA LoadedIsAhead ==
    ASSUME WindowConstants, IInv
    PROVE  /\ saved[session].seq <= Loaded.seq /\ saved[session].sealed <= Loaded.sealed
           /\ \A c \in chunks : c[1] = session => c[2] <= Loaded.seq
           /\ \A r \in windows : r.session = session => r.to <= Loaded.sealed
           /\ {session} \X (1..Loaded.sealed) \subseteq Offered
           /\ sync # Quiet => Loaded = ledger
           /\ seal # Quiet => Loaded = ledger
<1>1. session \in Sessions /\ session # NoSession
  BY DEF IInv, Typed, WindowsTypeOK, WindowConstants
<1>2. /\ saved[session].seq \in Int /\ saved[session].sealed \in Int
      /\ ledger.seq \in Int /\ ledger.sealed \in Int
  BY <1>1 DEF IInv, Typed, WindowsTypeOK, Ledgers
<1>3. /\ \A c \in chunks : c[2] \in Int
      /\ \A r \in windows : r.to \in Int
  BY DEF IInv, Typed, WindowsTypeOK, Positions, Ranges
<1>4. saved[session].seq <= Loaded.seq /\ saved[session].sealed <= Loaded.sealed
  BY <1>1, <1>2 DEF IInv, Behind, Loaded
<1>5. Loaded.seq \in Int /\ Loaded.sealed \in Int
  BY <1>2 DEF Loaded
<1>6. \A c \in chunks : c[1] = session => c[2] <= Loaded.seq
  BY <1>2, <1>3, <1>4, <1>5 DEF IInv, Passed
<1>7. \A r \in windows : r.session = session => r.to <= Loaded.sealed
  BY <1>2, <1>3, <1>4, <1>5 DEF IInv, Passed
<1>8. {session} \X (1..Loaded.sealed) \subseteq Offered
  BY <1>1 DEF IInv, SealedIsOffered, Loaded
<1> QED BY <1>4, <1>6, <1>7, <1>8 DEF IInv, Behind, Loaded

Offers(x) ==
    \/ \E r \in windows : x \in Covered(r)
    \/ x \in dropped
    \/ x \in lost
    \/ seal # Quiet /\ x \in Covered(seal.range)

LEMMA OfferedIs == ASSUME NEW x PROVE (x \in Offered <=> Offers(x)) /\ (x \in Offered' <=> Offers(x)')
<1>1. x \in Offered <=> Offers(x)
  BY DEF Offered, Offers
<1>2. x \in Offered' <=> Offers(x)'
  BY DEF Offered, Offers, Covered
<1> QED BY <1>1, <1>2

(* A step that only adds to what was offered, and leaves the ledgers. *)
LEMMA SealedStays ==
    ASSUME IInv, Offered \subseteq Offered', UNCHANGED <<of, ledger, saved>>
    PROVE  SealedIsOffered'
BY DEF IInv, SealedIsOffered

(* A thread that writes the ledger. *)
LEMMA PersistKeeps ==
    ASSUME WindowConstants, IInv, saved' = [saved EXCEPT ![of] = ledger],
           of = session, UNCHANGED <<provider, host, queue>>
    PROVE  /\ \A s \in Sessions : /\ saved[s].seq <= saved'[s].seq
                                   /\ saved[s].sealed <= saved'[s].sealed
           /\ saved'[session] = ledger
           /\ Offered \subseteq Offered' => SealedIsOffered'
           /\ \A c \in chunks : c[2] <= saved'[c[1]].seq
           /\ \A r \in windows : r.to <= saved'[r.session].sealed
<1>1. session \in Sessions /\ of # NoSession /\ saved'[session] = ledger
  BY DEF IInv, Typed, WindowsTypeOK, WindowConstants
<1>2. \A s \in Sessions : s # session => saved'[s] = saved[s]
  BY DEF IInv, Typed, WindowsTypeOK
<1>3. \A s \in Sessions : saved[s].seq \in Int /\ saved[s].sealed \in Int
  BY DEF IInv, Typed, WindowsTypeOK, Ledgers
<1>4. ledger.seq \in Int /\ ledger.sealed \in Int
  BY DEF IInv, Typed, WindowsTypeOK, Ledgers
<1>5. \A s \in Sessions : /\ saved[s].seq <= saved'[s].seq /\ saved'[s].seq \in Int
                          /\ saved[s].sealed <= saved'[s].sealed /\ saved'[s].sealed \in Int
  <2>1. saved[session].seq <= ledger.seq /\ saved[session].sealed <= ledger.sealed
    BY <1>1 DEF IInv, Behind
  <2> QED BY <1>1, <1>2, <1>3, <1>4, <2>1
<1>6. Offered \subseteq Offered' => SealedIsOffered'
  <2> SUFFICES ASSUME Offered \subseteq Offered' PROVE SealedIsOffered'
    OBVIOUS
  <2>1. {of} \X (1..ledger.sealed) \subseteq Offered'
    BY <1>1 DEF IInv, SealedIsOffered
  <2>2. ASSUME NEW s \in Sessions PROVE {s} \X (1..saved'[s].sealed) \subseteq Offered'
    BY <1>1, <1>2, <2>1 DEF IInv, SealedIsOffered
  <2> QED BY <2>1, <2>2 DEF SealedIsOffered, provider
<1>7. \A c \in chunks : c[2] \in Int /\ c[1] \in Sessions
  BY DEF IInv, Typed, WindowsTypeOK, Positions
<1>8. \A r \in windows : r.to \in Int /\ r.session \in Sessions
  BY DEF IInv, Typed, WindowsTypeOK, Positions, Ranges
<1>9. \A c \in chunks : c[2] <= saved'[c[1]].seq
  BY <1>3, <1>5, <1>7 DEF IInv, Passed
<1>10. \A r \in windows : r.to <= saved'[r.session].sealed
  BY <1>3, <1>5, <1>8 DEF IInv, Passed
<1> QED BY <1>1, <1>5, <1>6, <1>9, <1>10

LEMMA CountKeeps ==
    ASSUME WindowConstants, IInv, Typed', SyncCount PROVE IInv'
<1>1. PICK counted \in 1..2, l \in BOOLEAN :
              /\ ledger' = [seq |-> Loaded.seq + counted, sealed |-> Loaded.sealed,
                            turns |-> Loaded.turns + 1, long |-> l]
              /\ sync' = [step |-> "persist", session |-> session, turn |-> Head(toSync),
                          from |-> Loaded.seq + 1, to |-> Loaded.seq + counted]
              /\ sync = Quiet /\ of' = session
              /\ UNCHANGED <<session, saved, seal, chunks, queue, losses>>
  BY CountIs DEF IInv
<1>2. /\ Loaded.seq \in Int /\ Loaded.sealed \in Int /\ session \in Sessions
      /\ saved[session].seq \in Int /\ saved[session].sealed \in Int
  <2>1. Loaded.seq \in Int /\ Loaded.sealed \in Int /\ session \in Sessions
    BY LoadedIs DEF IInv, Ledgers
  <2> QED BY <2>1 DEF IInv, Typed, WindowsTypeOK, Ledgers
<1>3. /\ ledger'.seq = Loaded.seq + counted /\ ledger'.sealed = Loaded.sealed
      /\ sync' # Quiet /\ sync'.step = "persist" /\ sync'.session = session
      /\ sync'.from = Loaded.seq + 1 /\ sync'.to = Loaded.seq + counted
  BY <1>1 DEF Quiet
<1>4. Behind'
  <2>1. saved[session].seq <= ledger'.seq /\ saved[session].sealed <= ledger'.sealed
    BY <1>2, <1>3, LoadedIsAhead
  <2>2. seal # Quiet => ledger'.sealed = ledger.sealed
    BY <1>3, LoadedIsAhead
  <2> QED BY <1>1, <1>2, <1>3, <2>1, <2>2 DEF IInv, Behind
<1>5. Passed'
  <2>1. \A c \in chunks : c[1] = session => c[2] \in Int /\ c[2] <= Loaded.seq
    BY LoadedIsAhead DEF IInv, Typed, WindowsTypeOK, Positions
  <2>2. \A c \in chunks : c[1] = session => c[2] < Loaded.seq + 1
    BY <1>2, <2>1
  <2> QED BY <1>1, <1>3, <2>2 DEF IInv, Passed, queue
<1>6. Offered' = Offered
  BY <1>1 DEF Offered, queue, losses, Covered
<1>7. SealedIsOffered'
  BY <1>1, <1>3, <1>6, LoadedIsAhead DEF IInv, SealedIsOffered
<1>8. WindowsDisjoint'
  BY <1>1 DEF IInv, WindowsDisjoint, PositionsUnique, queue, Covered
<1> QED BY <1>4, <1>5, <1>7, <1>8 DEF IInv

LEMMA SyncPersistKeeps ==
    ASSUME WindowConstants, ~LedgerMayFail, IInv, Typed', SyncPersist PROVE IInv'
<1>1. /\ sync # Quiet /\ sync.step = "persist" /\ sync' = [sync EXCEPT !.step = "capture"]
      /\ UNCHANGED <<provider, host, seal, chunks, queue, losses>>
      /\ saved' = [saved EXCEPT ![of] = ledger] /\ of = session
  BY DEF SyncPersist, Saved, Failed, Works, IInv, Behind
<1>2. /\ sync' # Quiet /\ sync'.step = "capture" /\ sync'.session = sync.session
      /\ sync'.from = sync.from /\ sync'.to = sync.to
  BY <1>1 DEF IInv, Typed, WindowsTypeOK, Syncs, Quiet
<1>3. Offered' = Offered
  BY <1>1 DEF Offered, queue, losses, Covered
<1>4. /\ saved'[session] = ledger /\ SealedIsOffered'
      /\ \A c \in chunks : c[2] <= saved'[c[1]].seq
      /\ \A r \in windows : r.to <= saved'[r.session].sealed
  BY <1>1, <1>3, PersistKeeps
<1>5. Behind'
  <2>1. ledger.seq \in Int /\ ledger.sealed \in Int
    BY DEF IInv, Typed, WindowsTypeOK, Ledgers
  <2> QED BY <1>1, <1>2, <1>4, <2>1 DEF IInv, Behind, provider
<1>6. Passed'
  BY <1>1, <1>2, <1>4 DEF IInv, Passed, queue, provider
<1>7. WindowsDisjoint'
  BY <1>1 DEF IInv, WindowsDisjoint, PositionsUnique, queue, Covered
<1> QED BY <1>4, <1>5, <1>6, <1>7 DEF IInv

LEMMA CaptureKeeps ==
    ASSUME WindowConstants, IInv, Typed', SyncCapture PROVE IInv'
<1>1. /\ sync # Quiet /\ sync.step = "capture" /\ sync' = Quiet /\ sync \in Syncs
      /\ UNCHANGED <<provider, saved, host, seal, queue, losses>>
      /\ chunks' \in {chunks, chunks \cup ({sync.session} \X (sync.from..sync.to) \X {sync.turn})}
  BY DEF SyncCapture, IInv, Typed, WindowsTypeOK
<1>2. ASSUME NEW c \in chunks' \ chunks
      PROVE  /\ c[1] = sync.session /\ c[3] = sync.turn
             /\ c[2] \in Int /\ sync.from <= c[2] /\ c[2] <= sync.to
  <2>1. sync.from \in Int /\ sync.to \in Int
    BY <1>1 DEF Syncs, Positions
  <2>2. c \in {sync.session} \X (sync.from..sync.to) \X {sync.turn}
    BY <1>1, <1>2
  <2> QED BY <2>1, <2>2
<1>3. Behind'
  BY <1>1 DEF IInv, Behind, provider
<1>4. Passed'
  <2>1. /\ sync.session = session /\ sync.to <= saved[session].seq /\ sync.to \in Int
        /\ saved[session].seq \in Int
    BY <1>1 DEF IInv, Behind, Typed, WindowsTypeOK, Syncs, Positions, Ledgers
  <2>2. \A c \in chunks' : c[2] <= saved[c[1]].seq
    BY <1>2, <2>1 DEF IInv, Passed
  <2> QED BY <1>1, <2>2 DEF IInv, Passed, queue
<1>5. Offered' = Offered
  BY <1>1 DEF Offered, queue, losses, Covered
<1>6. SealedIsOffered'
  BY <1>1, <1>5, SealedStays DEF provider
<1>7. PositionsUnique'
  <2> SUFFICES ASSUME NEW c \in chunks', NEW d \in chunks', c[1] = d[1], c[2] = d[2]
               PROVE  c[3] = d[3]
    BY DEF PositionsUnique
  <2>1. ASSUME NEW a \in chunks, NEW b \in chunks' \ chunks, a[1] = b[1], a[2] = b[2]
        PROVE  FALSE
    <3>1. a[2] < sync.from
      BY <1>1, <1>2, <2>1 DEF IInv, Passed
    <3>2. sync.from <= b[2] /\ b[2] \in Int /\ sync.from \in Int
      BY <1>1, <1>2 DEF Syncs, Positions
    <3> QED BY <2>1, <3>1, <3>2
  <2>2. CASE c \in chunks /\ d \in chunks
    BY <2>2 DEF IInv, WindowsDisjoint, PositionsUnique
  <2>3. CASE c \notin chunks /\ d \notin chunks
    BY <1>2, <2>3
  <2> QED BY <2>1, <2>2, <2>3
<1>8. WindowsDisjoint'
  BY <1>1, <1>7 DEF IInv, WindowsDisjoint, queue, Covered
<1> QED BY <1>3, <1>4, <1>6, <1>8 DEF IInv

LEMMA CutKeeps ==
    ASSUME WindowConstants, IInv, Typed', TurnStart \/ Flush PROVE IInv'
<1>1. /\ Cuts(Loaded) /\ seal = Quiet
      /\ UNCHANGED <<session, saved, host, sync, chunks, queue, losses, faults>>
  BY AgentIs DEF IInv
<1>2. /\ Loaded.seq \in Int /\ Loaded.sealed \in Int /\ session \in Sessions
      /\ saved[session].seq \in Int /\ saved[session].sealed \in Int
      /\ Loaded.sealed <= Loaded.seq /\ of' = session
  <2>1. /\ Loaded.seq \in Int /\ Loaded.sealed \in Int /\ session \in Sessions
        /\ Loaded.sealed <= Loaded.seq /\ of' = session
    BY <1>1, LoadedIs DEF IInv, Ledgers, Cuts
  <2> QED BY <2>1 DEF IInv, Typed, WindowsTypeOK, Ledgers
<1>3. CASE seal' = seal /\ ledger' = Loaded
  <2>1. Behind'
    BY <1>1, <1>2, <1>3, LoadedIsAhead DEF IInv, Behind
  <2>2. Offered' = Offered
    BY <1>1, <1>3 DEF Offered, queue, losses, Covered
  <2>3. SealedIsOffered'
    BY <1>1, <1>2, <1>3, <2>2, LoadedIsAhead DEF IInv, SealedIsOffered
  <2>4. Passed' /\ WindowsDisjoint'
    BY <1>1, <1>3 DEF IInv, Passed, WindowsDisjoint, PositionsUnique, queue, Covered
  <2> QED BY <2>1, <2>3, <2>4 DEF IInv
<1>4. CASE /\ Loaded.sealed < Loaded.seq
           /\ ledger' \in Ledgers
           /\ ledger'.seq = Loaded.seq /\ ledger'.sealed = Loaded.seq /\ ledger'.turns = 0
           /\ seal' \in [step : {"persist"}, drop : BOOLEAN,
                         range : {[session |-> session, from |-> Loaded.sealed + 1, to |-> Loaded.seq]}]
  <2>1. /\ seal' # Quiet /\ seal'.step = "persist" /\ seal'.range.session = session
        /\ seal'.range.from = Loaded.sealed + 1 /\ seal'.range.to = Loaded.seq
    BY <1>4 DEF Quiet
  <2>2. Behind'
    <3>1. saved[session].seq <= ledger'.seq /\ saved[session].sealed <= ledger'.sealed
      BY <1>2, <1>4, LoadedIsAhead
    <3>2. sync # Quiet =>
             /\ sync.session = session /\ sync.to <= ledger'.seq
             /\ sync.step = "capture" => sync.to <= saved[session].seq
      BY <1>4, LoadedIsAhead DEF IInv, Behind
    <3>3. /\ saved[session].sealed < Loaded.sealed + 1
          /\ Loaded.sealed + 1 <= Loaded.seq
      BY <1>2, <1>4, LoadedIsAhead
    <3>4. UNCHANGED <<session, saved, sync>>
      BY <1>1
    <3>5. /\ of' = session /\ ledger'.sealed = Loaded.seq
          /\ ~(seal'.step = "enqueue")
      BY <1>2, <1>4, <2>1
    <3>6. saved[session].sealed < seal'.range.from /\ seal'.range.from <= seal'.range.to
      BY <2>1, <3>3
    <3>7. seal'.range.session = session /\ seal'.range.to = ledger'.sealed
      BY <1>4, <2>1
    <3>8. of' # NoSession => saved'[of'].seq <= ledger'.seq /\ saved'[of'].sealed <= ledger'.sealed
      BY <3>1, <3>4, <3>5
    <3>9. sync' # Quiet =>
             /\ of' = session' /\ sync'.session = session'
             /\ sync'.to <= ledger'.seq
             /\ sync'.step = "capture" => sync'.to <= saved'[session'].seq
      BY <3>2, <3>4, <3>5
    <3>10. /\ of' = session' /\ seal'.range.session = session'
           /\ seal'.range.from <= seal'.range.to /\ seal'.range.to = ledger'.sealed
           /\ saved'[session'].sealed < seal'.range.from
           /\ ~(seal'.step = "enqueue")
      BY <3>4, <3>5, <3>6, <3>7
    <3> QED BY <3>8, <3>9, <3>10 DEF Behind
  <2>3. Passed'
    <3>1. \A r \in windows : r.session = session => r.to < Loaded.sealed + 1
      <4>1. \A r \in windows : r.to \in Int
        BY DEF IInv, Typed, WindowsTypeOK, Positions, Ranges
      <4> QED BY <1>2, <4>1, LoadedIsAhead
    <3> QED BY <1>1, <2>1, <3>1 DEF IInv, Passed, queue
  <2>4. Offered' = Offered \cup ({session} \X (Loaded.sealed + 1..Loaded.seq))
    <3>1. ASSUME NEW x
          PROVE  x \in Offered' <=> x \in Offered \cup ({session} \X (Loaded.sealed + 1..Loaded.seq))
      <4>1. Covered(seal'.range) = {session} \X (Loaded.sealed + 1..Loaded.seq)
        BY <2>1 DEF Covered
      <4> QED BY <1>1, <2>1, <4>1, OfferedIs DEF Offers, queue, losses
    <3> QED BY <3>1
  <2>5. {session} \X (1..ledger'.sealed) \subseteq Offered'
    <3>1. 1..ledger'.sealed \subseteq (1..Loaded.sealed) \cup (Loaded.sealed + 1..Loaded.seq)
      BY <1>2, <1>4
    <3> QED BY <2>4, <3>1, LoadedIsAhead
  <2>6. SealedIsOffered'
    BY <1>1, <1>2, <2>4, <2>5 DEF IInv, SealedIsOffered
  <2>7. WindowsDisjoint'
    BY <1>1 DEF IInv, WindowsDisjoint, PositionsUnique, queue, Covered
  <2> QED BY <2>2, <2>3, <2>6, <2>7 DEF IInv
<1> QED BY <1>1, <1>3, <1>4 DEF Cuts

LEMMA SealPersistKeeps ==
    ASSUME WindowConstants, ~LedgerMayFail, IInv, Typed', SealPersist PROVE IInv'
<1>1. /\ seal # Quiet /\ seal.step = "persist" /\ seal \in Seals
      /\ UNCHANGED <<provider, host, sync, chunks, queue, lost>>
      /\ saved' = [saved EXCEPT ![of] = ledger] /\ of = session
      /\ \/ seal' = Quiet /\ dropped' = dropped \cup Covered(seal.range)
         \/ seal' = [seal EXCEPT !.step = "enqueue"] /\ dropped' = dropped
  BY DEF SealPersist, Saved, Failed, Works, IInv, Behind, Typed, WindowsTypeOK
<1>2. seal' # Quiet => /\ seal'.range = seal.range /\ seal'.step = "enqueue"
                       /\ dropped' = dropped
  BY <1>1 DEF Seals
<1>3. Offered \subseteq Offered'
  <2>1. ASSUME NEW x \in Offered PROVE x \in Offered'
    <3>1. Offers(x)
      BY OfferedIs
    <3>2. windows' = windows /\ lost' = lost /\ dropped \subseteq dropped'
      BY <1>1 DEF queue
    <3>3. seal' # Quiet \/ Covered(seal.range) \subseteq dropped'
      <4>1. [seal EXCEPT !.step = "enqueue"] # Quiet
        BY <1>1 DEF Seals, Quiet
      <4> QED BY <1>1, <4>1
    <3>4. Offers(x)'
      BY <1>2, <3>1, <3>2, <3>3 DEF Offers, Covered
    <3> QED BY <3>4, OfferedIs
  <2> QED BY <2>1
<1>4. /\ saved'[session] = ledger /\ SealedIsOffered'
      /\ \A c \in chunks : c[2] <= saved'[c[1]].seq
      /\ \A r \in windows : r.to <= saved'[r.session].sealed
  BY <1>1, <1>3, PersistKeeps
<1>5. Behind'
  <2>1. ledger.seq \in Int /\ ledger.sealed \in Int
    BY DEF IInv, Typed, WindowsTypeOK, Ledgers
  <2> QED BY <1>1, <1>2, <1>4, <2>1 DEF IInv, Behind, provider
<1>6. Passed'
  BY <1>1, <1>2, <1>4 DEF IInv, Passed, queue, provider
<1>7. WindowsDisjoint'
  BY <1>1 DEF IInv, WindowsDisjoint, PositionsUnique, queue, Covered
<1> QED BY <1>4, <1>5, <1>6, <1>7 DEF IInv

LEMMA EnqueueKeeps ==
    ASSUME WindowConstants, IInv, Typed', SealEnqueue PROVE IInv'
<1>1. /\ seal # Quiet /\ seal.step = "enqueue" /\ seal \in Seals /\ seal' = Quiet
      /\ UNCHANGED <<provider, saved, host, sync, chunks, done, run, dropped>>
      /\ \/ windows' = windows /\ lost' = lost \cup Covered(seal.range)
         \/ windows' = windows \cup {seal.range} /\ lost' = lost
  BY DEF SealEnqueue, IInv, Typed, WindowsTypeOK
<1>2. /\ seal.range.session = session /\ seal.range.to = saved[session].sealed
      /\ seal.range.from \in Int /\ seal.range.to \in Int
  BY <1>1 DEF IInv, Behind, Seals, Ranges, Positions
<1>3. Behind'
  BY <1>1 DEF IInv, Behind, provider
<1>4. Passed'
  <2>1. \A r \in windows' : r.to <= saved[r.session].sealed
    BY <1>1, <1>2 DEF IInv, Passed
  <2> QED BY <1>1, <2>1 DEF IInv, Passed
<1>5. Offered \subseteq Offered'
  <2>1. ASSUME NEW x \in Offered PROVE x \in Offered'
    BY <1>1, OfferedIs DEF Offers, Covered
  <2> QED BY <2>1
<1>6. SealedIsOffered'
  BY <1>1, <1>5, SealedStays DEF provider
<1>7. \A q, r \in windows' : q # r => Covered(q) \cap Covered(r) = {}
  <2>1. ASSUME NEW q \in windows PROVE Covered(q) \cap Covered(seal.range) = {}
    <3>1. q.from \in Int /\ q.to \in Int
      BY DEF IInv, Typed, WindowsTypeOK, Ranges, Positions
    <3>2. q.session = seal.range.session => q.to < seal.range.from
      BY <1>1 DEF IInv, Passed
    <3> QED BY <1>2, <3>1, <3>2 DEF Covered
  <2> QED BY <1>1, <2>1 DEF IInv, WindowsDisjoint
<1>8. WindowsDisjoint'
  BY <1>1, <1>7 DEF IInv, WindowsDisjoint, PositionsUnique, Covered
<1> QED BY <1>3, <1>4, <1>6, <1>8 DEF IInv

LEMMA RestartKeeps ==
    ASSUME WindowConstants, IInv, Typed', Restart PROVE IInv'
<1>1. /\ of' = NoSession /\ sync' = Quiet /\ seal' = Quiet
      /\ lost' = IF seal # Quiet /\ saved[seal.range.session].sealed >= seal.range.to
                 THEN lost \cup Covered(seal.range) ELSE lost
      /\ UNCHANGED <<saved, chunks, windows, done, dropped>>
  BY DEF Restart
<1>2. Behind' /\ Passed'
  BY <1>1 DEF IInv, Behind, Passed
<1>3. WindowsDisjoint'
  BY <1>1 DEF IInv, WindowsDisjoint, PositionsUnique, Covered
<1>4. ASSUME NEW s \in Sessions, NEW n \in 1..saved[s].sealed
      PROVE  <<s, n>> \in Offered'
  <2>0. saved[s].sealed \in Int
    BY DEF IInv, Typed, WindowsTypeOK, Ledgers
  <2>1. <<s, n>> \in Offered
    BY DEF IInv, SealedIsOffered
  <2>2. CASE seal # Quiet /\ <<s, n>> \in Covered(seal.range)
    <3>1. seal.range.from \in Int /\ seal.range.to \in Int
      BY <2>2 DEF IInv, Typed, WindowsTypeOK, Seals, Ranges, Positions
    <3>2. s = session /\ seal.range.session = session /\ seal.range.from <= n /\ n \in Int
      BY <2>0, <2>2, <3>1 DEF Covered, IInv, Behind
    <3>3. saved[s].sealed = seal.range.to
      BY <2>0, <2>2, <3>1, <3>2 DEF IInv, Behind
    <3>4. lost' = lost \cup Covered(seal.range)
      BY <1>1, <2>0, <2>2, <3>2, <3>3
    <3> QED BY <2>2, <3>4, OfferedIs DEF Offers
  <2>3. CASE ~(seal # Quiet /\ <<s, n>> \in Covered(seal.range))
    <3>1. \/ \E r \in windows : <<s, n>> \in Covered(r)
          \/ <<s, n>> \in dropped \/ <<s, n>> \in lost
      BY <2>1, <2>3, OfferedIs DEF Offers
    <3>2. UNCHANGED <<windows, dropped>> /\ lost \subseteq lost'
      BY <1>1
    <3> QED BY <3>1, <3>2, OfferedIs DEF Offers, Covered
  <2> QED BY <2>2, <2>3
<1>5. SealedIsOffered'
  BY <1>1, <1>4 DEF SealedIsOffered
<1> QED BY <1>2, <1>3, <1>5 DEF IInv

(* A step that touches neither the threads nor what they have written. *)
LEMMA OthersKeep ==
    ASSUME IInv, Typed', UNCHANGED <<of, ledger, saved, sync, seal, chunks, windows, losses>>,
           session' = session \/ (sync = Quiet /\ seal = Quiet)
    PROVE  IInv'
<1>1. Offered' = Offered
  BY DEF Offered, losses, Covered
<1>2. SealedIsOffered'
  BY <1>1, SealedStays
<1>3. Behind'
  BY DEF IInv, Behind
<1>4. Passed' /\ WindowsDisjoint'
  BY DEF IInv, Passed, WindowsDisjoint, PositionsUnique, Covered
<1> QED BY <1>2, <1>3, <1>4 DEF IInv

LEMMA IInvStays ==
    ASSUME WindowConstants, ~LedgerMayFail, IInv, [WindowsNext]_windowVars PROVE IInv'
<1>0. Typed'
  BY TypesStay DEF IInv
<1>1. CASE Speak
  BY <1>0, <1>1, OthersKeep DEF Speak, provider, queue
<1>2. CASE Switch
  BY <1>0, <1>2, OthersKeep DEF Switch, queue
<1>3. CASE ExtractRead \/ ExtractEnd \/ ExtractAbandon
  BY <1>0, <1>3, OthersKeep DEF ExtractRead, ExtractEnd, ExtractAbandon, provider
<1>4. CASE UNCHANGED windowVars
  BY <1>0, <1>4, OthersKeep DEF windowVars, losses
<1> QED BY <1>0, <1>1, <1>2, <1>3, <1>4, CountKeeps, SyncPersistKeeps, CaptureKeeps, CutKeeps,
           SealPersistKeeps, EnqueueKeeps, RestartKeeps
        DEF WindowsNext, Provider

LEMMA IInvInit == ASSUME WindowConstants, WindowsInit PROVE IInv
<1>1. Typed
  BY TypesInit
<1>2. /\ of = NoSession /\ sync = Quiet /\ seal = Quiet /\ chunks = {} /\ windows = {}
      /\ \A s \in Sessions : saved[s].sealed = 0
  BY DEF WindowsInit, NoLedger
<1>3. Behind /\ Passed /\ WindowsDisjoint /\ SealedIsOffered
  BY <1>2 DEF Behind, Passed, WindowsDisjoint, PositionsUnique, SealedIsOffered
<1> QED BY <1>1, <1>3 DEF IInv

(* A message a seal has passed is in a window, or was dropped at the idle   *)
(* floor, or went with a failed enqueue or a crash just before it; none is  *)
(* in two windows, and no position is given twice (formation/windows.py):   *)
(* whatever the order of turns, switches, syncs, seals and restarts and the *)
(* failures of the store, the write of the ledger excepted. *)
THEOREM MessagesAreOfferedOnce ==
    WindowConstants /\ ~LedgerMayFail => (WindowsSpec => []OfferedOnce)
<1> SUFFICES ASSUME WindowConstants, ~LedgerMayFail
             PROVE  WindowsSpec => []OfferedOnce
  OBVIOUS
<1>1. WindowsInit => IInv
  BY IInvInit
<1>2. IInv /\ [WindowsNext]_windowVars => IInv'
  BY IInvStays
<1>3. IInv => OfferedOnce
  BY DEF IInv, OfferedOnce
<1> QED BY <1>1, <1>2, <1>3, PTL DEF WindowsSpec

-----------------------------------------------------------------------------
(* Reconcile.                                                              *)

(* A store: the rows of the buckets, and the pending rows, each in one     *)
(* extraction and none of them live as well. *)
StoreShape(a, bs) ==
    /\ a \in [Buckets -> SUBSET Candidates]
    /\ bs \in Seq(SUBSET Candidates)
    /\ \A i, j \in DOMAIN bs : i # j => bs[i] \cap bs[j] = {}
    /\ a["own"] \cap Waiting(bs) = {}

(* A pass has a store of its own. *)
PassHeld ==
    /\ pass \in [open : {TRUE}, left : Seq(Candidates),
                 active : [Buckets -> SUBSET Candidates], batches : Seq(SUBSET Candidates)]
    /\ StoreShape(pass.active, pass.batches)

PassShape == pass = NoPass \/ PassHeld

(* Some of the texts S is in a store. *)
KnownIn(a, bs, S) == S \cap (a["own"] \cup a["wide"] \cup Waiting(bs)) # {}

(* One store knows of every family the other knew of. *)
KeepsTopics(a, bs, b, cs) ==
    \A S \in SUBSET Candidates : Family(S) /\ KnownIn(a, bs, S) => KnownIn(b, cs, S)

(* One text may take the place of another: of its topic, or nearly it. *)
Joined(d, c) == Topic[d] = Topic[c] \/ <<d, c>> \in Alike

ReconcileInv ==
    /\ StoreShape(active, batches)
    /\ job \in {"none", "queued", "done"} /\ extracted \in 0..MaxBatches
    /\ PassShape
    /\ pass.open => KeepsTopics(active, batches, pass.active, pass.batches)

LEMMA NoPassClosed == NoPass.open = FALSE
BY DEF NoPass

LEMMA OpenPass ==
    ASSUME PassShape
    PROVE  pass.open <=> PassHeld
<1>1. ASSUME PassHeld PROVE pass.open
  <2>1. pass.open \in {TRUE}
    BY <1>1 DEF PassHeld
  <2> QED BY <2>1
<1>2. ASSUME pass.open PROVE PassHeld
  BY <1>2, NoPassClosed DEF PassShape
<1> QED BY <1>1, <1>2

LEMMA WaitingIn ==
    ASSUME NEW bs \in Seq(SUBSET Candidates), NEW c
    PROVE  c \in Waiting(bs) <=> \E i \in DOMAIN bs : c \in bs[i]
BY DEF Waiting, Range

LEMMA WithoutShape ==
    ASSUME NEW bs \in Seq(SUBSET Candidates), NEW c,
           \A i, j \in DOMAIN bs : i # j => bs[i] \cap bs[j] = {}
    PROVE  /\ Without(bs, c) \in Seq(SUBSET Candidates)
           /\ \A i, j \in DOMAIN Without(bs, c) : i # j => Without(bs, c)[i] \cap Without(bs, c)[j] = {}
           /\ Waiting(Without(bs, c)) = Waiting(bs) \ {c}
<1>1. DOMAIN bs = 1..Len(bs) /\ Len(bs) \in Nat /\ \A i \in 1..Len(bs) : bs[i] \in SUBSET Candidates
  OBVIOUS
<1>2. /\ DOMAIN Without(bs, c) = 1..Len(bs)
      /\ \A i \in 1..Len(bs) : Without(bs, c)[i] = bs[i] \ {c}
  BY <1>1 DEF Without
<1>3. Without(bs, c) \in Seq(SUBSET Candidates)
  <2>1. Without(bs, c) = [i \in 1..Len(bs) |-> bs[i] \ {c}]
    BY <1>1 DEF Without
  <2>2. Without(bs, c) \in [1..Len(bs) -> SUBSET Candidates]
    BY <1>1, <2>1
  <2> QED BY <1>1, <2>2, SeqDef
<1>4. \A d : d \in Waiting(Without(bs, c)) <=> d \in Waiting(bs) /\ d # c
  BY <1>1, <1>2, <1>3, WaitingIn
<1> QED BY <1>1, <1>2, <1>3, <1>4

(* The rows of a store without one candidate. *)
LEMMA SpentShape ==
    ASSUME NEW a, NEW bs, StoreShape(a, bs), NEW c \in Candidates
    PROVE  /\ StoreShape(a, Without(bs, c))
           /\ Waiting(Without(bs, c)) = Waiting(bs) \ {c}
BY WithoutShape DEF StoreShape

(* A row with the text c stands in a bucket that loses no row but one of   *)
(* the same family: the store has lost no family.                          *)
LEMMA Replacement ==
    ASSUME NEW a, NEW bs, StoreShape(a, bs), NEW c \in Candidates,
           NEW b, b \in [Buckets -> SUBSET Candidates],
           c \in b["own"] \cup b["wide"],
           \A x \in Buckets : \A d \in a[x] \ b[x] : Joined(d, c)
    PROVE  KeepsTopics(a, bs, b, Without(bs, c))
<1>1. "own" \in Buckets /\ "wide" \in Buckets
  BY DEF Buckets
<1>2. Waiting(Without(bs, c)) = Waiting(bs) \ {c}
  BY SpentShape
<1>3. ASSUME NEW d \in Candidates, d \in a["own"] \cup a["wide"] \cup Waiting(bs)
      PROVE  \/ Joined(d, c) \/ d = c
             \/ d \in b["own"] \cup b["wide"] \cup Waiting(Without(bs, c))
  BY <1>1, <1>2, <1>3
<1>4. ASSUME NEW S \in SUBSET Candidates, Family(S), KnownIn(a, bs, S)
      PROVE  KnownIn(b, Without(bs, c), S)
  <2>1. PICK d \in S : d \in a["own"] \cup a["wide"] \cup Waiting(bs)
    BY <1>4 DEF KnownIn
  <2>2. Joined(d, c) => c \in S
    BY <1>4, <2>1 DEF Family, Joined
  <2> QED BY <1>3, <2>1, <2>2 DEF KnownIn
<1> QED BY <1>4 DEF KeepsTopics

(* Every outcome of a candidate is a store again, and knows of the         *)
(* families the store before it knew of. *)
LEMMA OutcomeKeeps ==
    ASSUME NEW st, st \in [open : {TRUE}, left : Seq(Candidates),
                           active : [Buckets -> SUBSET Candidates], batches : Seq(SUBSET Candidates)],
           StoreShape(st.active, st.batches),
           NEW c \in Candidates, NEW near \in SUBSET ActiveRows(st.active),
           NEW out \in Outcomes(st, c, near)
    PROVE  /\ out \in [open : {TRUE}, left : Seq(Candidates),
                       active : [Buckets -> SUBSET Candidates], batches : Seq(SUBSET Candidates)]
           /\ out.left = st.left
           /\ StoreShape(out.active, out.batches)
           /\ KeepsTopics(st.active, st.batches, out.active, out.batches)
<1> DEFINE a == st.active
           bs == st.batches
           ws == Without(bs, c)
<1>0. /\ a \in [Buckets -> SUBSET Candidates] /\ "own" \in Buckets
      /\ ws \in Seq(SUBSET Candidates) /\ StoreShape(a, ws) /\ Waiting(ws) = Waiting(bs) \ {c}
      /\ a["own"] \cap Waiting(bs) = {}
  BY SpentShape DEF StoreShape, Buckets
<1>1. \A r \in near : r[1] \in Buckets /\ r[2] \in Candidates /\ r[2] \in a[r[1]]
  BY DEF ActiveRows
<1>2. CASE out = st
  BY <1>2 DEF KeepsTopics
<1> HIDE DEF ws
<1>3. ASSUME NEW r \in near, ChangedValue(c, r[2]), out = SupersedeRow(st, c, r)
      PROVE  /\ out = [st EXCEPT !.batches = ws, !.active = out.active]
             /\ StoreShape(out.active, ws) /\ KeepsTopics(a, bs, out.active, ws)
  <2> DEFINE b == [x \in Buckets |-> (a[x] \ (IF x = r[1] THEN {r[2]} ELSE {}))
                                        \cup (IF x = "own" THEN {c} ELSE {})]
  <2>1. out = [st EXCEPT !.batches = ws, !.active = b]
    BY <1>3 DEF SupersedeRow, ws
  <2>2. out.active = b
    BY <2>1
  <2>3. b \in [Buckets -> SUBSET Candidates] /\ b["own"] \cap Waiting(ws) = {}
    BY <1>0
  <2>4. c \in b["own"] /\ \A x \in Buckets : \A d \in a[x] \ b[x] : Joined(d, c)
    BY <1>0, <1>3 DEF ChangedValue, Joined
  <2> HIDE DEF b
  <2>5. KeepsTopics(a, bs, b, ws)
    BY <2>3, <2>4, Replacement DEF ws
  <2> QED BY <1>0, <2>1, <2>2, <2>3, <2>5 DEF StoreShape
<1>4. ASSUME NEW r \in near, Near(c, r[2]), out = Merge(st, c, r)
      PROVE  /\ out = [st EXCEPT !.batches = ws, !.active = out.active]
             /\ StoreShape(out.active, ws) /\ KeepsTopics(a, bs, out.active, ws)
  <2> DEFINE gone == [st EXCEPT !.batches = ws]
             b    == [a EXCEPT ![r[1]] = (a[r[1]] \ {r[2]}) \cup {c}]
  <2>1. gone.active = a /\ gone.batches = ws
    OBVIOUS
  <2>2. Joined(r[2], c)
    <3>1. CASE c = r[2]
      BY <3>1 DEF Joined
    <3>2. CASE <<c, r[2]>> \in Alike
      BY <3>2, ReconcileConstants DEF ReconcileConstants, Joined
    <3> QED BY <1>4, <3>1, <3>2 DEF Near
  <2>3. CASE c \in LiveIn(gone, r[1])
    <3>1. out = gone
      BY <1>4, <2>3 DEF Merge, ws
    <3>2. c \in a[r[1]] \/ c \in Waiting(ws)
      BY <2>1, <2>3 DEF LiveIn
    <3>3. c \in a["own"] \cup a["wide"]
      BY <1>0, <1>1, <3>2 DEF Buckets
    <3>4. KeepsTopics(a, bs, a, ws)
      BY <1>0, <3>3, Replacement DEF ws
    <3> QED BY <1>0, <2>1, <3>1, <3>4
  <2>4. CASE c \notin LiveIn(gone, r[1])
    <3>1. out = [gone EXCEPT !.active[r[1]] = (@ \ {r[2]}) \cup {c}]
      BY <1>4, <2>4 DEF Merge, ws
    <3>2. out = [st EXCEPT !.batches = ws, !.active = b] /\ out.active = b
      BY <3>1
    <3>3. b \in [Buckets -> SUBSET Candidates] /\ b["own"] \cap Waiting(ws) = {}
      BY <1>0, <1>1
    <3>4. c \in b["own"] \cup b["wide"]
      BY <1>0, <1>1 DEF Buckets
    <3>5. \A x \in Buckets : \A d \in a[x] \ b[x] : Joined(d, c)
      BY <1>0, <1>1, <2>2
    <3> HIDE DEF b
    <3>6. KeepsTopics(a, bs, b, ws)
      BY <3>3, <3>4, <3>5, Replacement DEF ws
    <3> QED BY <1>0, <3>2, <3>3, <3>6 DEF StoreShape
  <2> QED BY <2>3, <2>4
<1>5. ASSUME out = PublishRow(st, c)
      PROVE  /\ out = [st EXCEPT !.batches = ws, !.active = out.active]
             /\ StoreShape(out.active, ws) /\ KeepsTopics(a, bs, out.active, ws)
  <2> DEFINE b == [a EXCEPT !["own"] = a["own"] \cup {c}]
  <2>1. out = [st EXCEPT !.batches = ws, !.active = b] /\ out.active = b
    BY <1>5 DEF PublishRow, ws
  <2>2. b \in [Buckets -> SUBSET Candidates] /\ b["own"] \cap Waiting(ws) = {} /\ c \in b["own"]
    BY <1>0
  <2>3. \A x \in Buckets : \A d \in a[x] \ b[x] : Joined(d, c)
    BY <1>0
  <2> HIDE DEF b
  <2>4. KeepsTopics(a, bs, b, ws)
    BY <2>2, <2>3, Replacement DEF ws
  <2> QED BY <1>0, <2>1, <2>2, <2>4 DEF StoreShape
<1>6. \/ out = st
      \/ \E r \in near : ChangedValue(c, r[2]) /\ out = SupersedeRow(st, c, r)
      \/ \E r \in near : Near(c, r[2]) /\ out = Merge(st, c, r)
      \/ out = PublishRow(st, c)
  BY DEF Outcomes
<1>7. CASE out # st
  <2>1. /\ out = [st EXCEPT !.batches = ws, !.active = out.active]
        /\ StoreShape(out.active, ws) /\ KeepsTopics(a, bs, out.active, ws)
    BY <1>3, <1>4, <1>5, <1>6, <1>7
  <2>2. out.active \in [Buckets -> SUBSET Candidates]
    BY <2>1 DEF StoreShape
  <2>3. /\ out \in [open : {TRUE}, left : Seq(Candidates),
                     active : [Buckets -> SUBSET Candidates], batches : Seq(SUBSET Candidates)]
        /\ out.left = st.left /\ out.batches = ws
    <3> DEFINE act == out.active
    <3>1. out = [st EXCEPT !.batches = ws, !.active = act]
      BY <2>1
    <3>2. act \in [Buckets -> SUBSET Candidates]
      BY <2>2
    <3> HIDE DEF act
    <3> QED BY <1>0, <3>1, <3>2
  <2> QED BY <2>1, <2>3
<1> QED BY <1>2, <1>7

-----------------------------------------------------------------------------

LEMMA ReconcileStart == ReconcileInit => ReconcileInv
<1> SUFFICES ASSUME ReconcileInit PROVE ReconcileInv
  OBVIOUS
<1>1. <<>> \in Seq(SUBSET Candidates) /\ DOMAIN <<>> = {} /\ Waiting(<<>>) = {}
  BY DEF Waiting, Range
<1>2. StoreShape(active, batches)
  BY <1>1 DEF ReconcileInit, StoreShape
<1>3. job \in {"none", "queued", "done"} /\ extracted \in 0..MaxBatches /\ PassShape /\ ~pass.open
  BY ReconcileConstants DEF ReconcileInit, ReconcileConstants, PassShape, NoPass
<1> QED BY <1>2, <1>3 DEF ReconcileInv

LEMMA ExtractKeeps ==
    ASSUME ReconcileInv, Extract
    PROVE  ReconcileInv'
<1>1. PICK found \in SUBSET Candidates \ {{}} :
         batches' = Append(batches, found \ (active["own"] \cup Waiting(batches)))
  BY DEF Extract
<1> DEFINE new == found \ (active["own"] \cup Waiting(batches))
<1>2. /\ batches \in Seq(SUBSET Candidates) /\ new \in SUBSET Candidates
      /\ \A i, j \in DOMAIN batches : i # j => batches[i] \cap batches[j] = {}
      /\ active["own"] \cap Waiting(batches) = {}
      /\ active["own"] \cap new = {} /\ Waiting(batches) \cap new = {}
  BY DEF ReconcileInv, StoreShape
<1> HIDE DEF new
<1>3. /\ batches' \in Seq(SUBSET Candidates)
      /\ DOMAIN batches' = 1..(Len(batches) + 1) /\ DOMAIN batches = 1..Len(batches)
      /\ Len(batches) \in Nat
      /\ \A i \in 1..Len(batches) : batches'[i] = batches[i]
      /\ batches'[Len(batches) + 1] = new
  BY <1>1, <1>2 DEF new
<1>4. \A i \in DOMAIN batches : batches[i] \cap new = {}
  BY <1>2, WaitingIn
<1>5. \A i \in DOMAIN batches' : i \in DOMAIN batches \/ i = Len(batches) + 1
  BY <1>3
<1>6. \A i, j \in DOMAIN batches' : i # j => batches'[i] \cap batches'[j] = {}
  BY <1>2, <1>3, <1>4, <1>5
<1>7. active["own"] \cap Waiting(batches') = {}
  <2>1. \A c \in Waiting(batches') : c \in Waiting(batches) \/ c \in new
    BY <1>2, <1>3, <1>5, WaitingIn
  <2> QED BY <1>2, <2>1
<1>8. extracted' \in 0..MaxBatches /\ job' \in {"none", "queued", "done"}
      /\ UNCHANGED <<active, pass>> /\ ~pass.open
  BY ReconcileConstants DEF Extract, ReconcileInv, ReconcileConstants
<1> QED BY <1>3, <1>6, <1>7, <1>8 DEF ReconcileInv, StoreShape, PassShape, PassHeld

LEMMA AcceptKeeps ==
    ASSUME ReconcileInv, Accept
    PROVE  ReconcileInv'
<1>1. PICK c \in Waiting(batches) :
         /\ batches' = Without(batches, c)
         /\ active' \in {active, [active EXCEPT !["own"] = @ \cup {c}]}
  BY DEF Accept
<1>2. c \in Candidates
  BY WaitingIn DEF ReconcileInv, StoreShape
<1>3. StoreShape(active, batches') /\ Waiting(batches') = Waiting(batches) \ {c}
  BY <1>1, <1>2, SpentShape DEF ReconcileInv
<1>4. StoreShape(active', batches')
  BY <1>1, <1>2, <1>3 DEF StoreShape, Buckets
<1> QED BY <1>4 DEF Accept, ReconcileInv, PassShape, PassHeld

LEMMA StateKeeps ==
    ASSUME ReconcileInv, State
    PROVE  ReconcileInv'
<1>1. StoreShape(active', batches)
  BY DEF State, ReconcileInv, StoreShape, Buckets
<1> QED BY <1>1 DEF State, ReconcileInv, PassShape, PassHeld

LEMMA PassBeginKeeps ==
    ASSUME ReconcileInv, PassBegin
    PROVE  ReconcileInv'
<1>1. PICK l \in UNION {[1..n -> Candidates] : n \in 0..Limit} :
         pass' = [open |-> TRUE, left |-> l, active |-> active, batches |-> batches]
  BY DEF PassBegin
<1>2. l \in Seq(Candidates)
  <2>1. PICK n \in 0..Limit : l \in [1..n -> Candidates]
    BY <1>1
  <2>2. n \in Nat
    BY <2>1, ReconcileConstants DEF ReconcileConstants
  <2> QED BY <2>1, <2>2, SeqDef
<1>3. PassShape' /\ (pass.open => KeepsTopics(active, batches, pass.active, pass.batches))'
  BY <1>1, <1>2 DEF PassBegin, ReconcileInv, PassShape, PassHeld, StoreShape, KeepsTopics
<1> QED BY <1>3 DEF PassBegin, ReconcileInv

LEMMA PassRowKeeps ==
    ASSUME ReconcileInv, PassRow
    PROVE  ReconcileInv'
<1>0. PICK near \in SUBSET ActiveRows(pass.active) :
         \E st \in Outcomes(pass, Head(pass.left), near) : pass' = [st EXCEPT !.left = Tail(@)]
  BY DEF PassRow
<1>1. PICK st \in Outcomes(pass, Head(pass.left), near) : pass' = [st EXCEPT !.left = Tail(@)]
  BY <1>0
<1>2. /\ pass \in [open : {TRUE}, left : Seq(Candidates),
                    active : [Buckets -> SUBSET Candidates], batches : Seq(SUBSET Candidates)]
      /\ StoreShape(pass.active, pass.batches)
      /\ KeepsTopics(active, batches, pass.active, pass.batches)
      /\ pass.left # <<>>
  BY OpenPass DEF PassRow, ReconcileInv, PassHeld
<1>3. Head(pass.left) \in Candidates /\ Tail(pass.left) \in Seq(Candidates)
  BY <1>2
<1>4. /\ st \in [open : {TRUE}, left : Seq(Candidates),
                  active : [Buckets -> SUBSET Candidates], batches : Seq(SUBSET Candidates)]
      /\ st.left = pass.left
      /\ StoreShape(st.active, st.batches)
      /\ KeepsTopics(pass.active, pass.batches, st.active, st.batches)
  BY <1>1, <1>2, <1>3, OutcomeKeeps
<1>5. /\ pass' \in [open : {TRUE}, left : Seq(Candidates),
                     active : [Buckets -> SUBSET Candidates], batches : Seq(SUBSET Candidates)]
      /\ pass'.active = st.active /\ pass'.batches = st.batches
  BY <1>1, <1>3, <1>4
<1>6. KeepsTopics(active, batches, st.active, st.batches)
  BY <1>2, <1>4 DEF KeepsTopics
<1>7. PassShape'
  BY <1>4, <1>5 DEF PassShape, PassHeld
<1> QED BY <1>5, <1>6, <1>7 DEF PassRow, ReconcileInv

LEMMA PassEndKeeps ==
    ASSUME ReconcileInv, PassCommit \/ PassAbort
    PROVE  ReconcileInv'
<1>1. PassShape' /\ ~pass'.open
  BY NoPassClosed DEF PassCommit, PassAbort, PassShape
<1>2. StoreShape(active', batches')
  BY OpenPass DEF PassCommit, PassAbort, ReconcileInv, PassHeld
<1> QED BY <1>1, <1>2 DEF PassCommit, PassAbort, ReconcileInv

LEMMA ReconcileStep == ReconcileInv /\ [ReconcileNext]_reconcileVars => ReconcileInv'
<1>1. ReconcileInv /\ UNCHANGED reconcileVars => ReconcileInv'
  BY DEF reconcileVars, ReconcileInv, PassShape, PassHeld
<1> QED BY <1>1, ExtractKeeps, AcceptKeeps, StateKeeps, PassBeginKeeps, PassRowKeeps, PassEndKeeps
        DEF ReconcileNext

LEMMA ReconcileInvariant == ReconcileSpec => []ReconcileInv
BY ReconcileStart, ReconcileStep, PTL DEF ReconcileSpec

(* Type correctness; a text has one live row per scope, in the store and   *)
(* inside a pass. *)
THEOREM ReconcileTypes == ReconcileSpec => []ReconcileTypeOK
<1>1. ASSUME ReconcileInv PROVE ReconcileTypeOK
  <2>1. pass.open => /\ pass.left \in Seq(Candidates)
                     /\ pass.active["own"] \cap Waiting(pass.batches) = {}
    BY <1>1, OpenPass DEF ReconcileInv, PassHeld, StoreShape
  <2>2. \A l \in Seq(Candidates) : Range(l) \subseteq Candidates
    BY DEF Range
  <2> QED BY <1>1, <2>1, <2>2 DEF ReconcileInv, StoreShape, ReconcileTypeOK
<1> QED BY <1>1, ReconcileInvariant, PTL

(* A pass loses no fact: of what was known about a topic, or about one a   *)
(* near duplicate joins it to, something is still there when it commits,   *)
(* whatever retrieval found for a candidate and whatever earlier           *)
(* candidates made of the rows (apply_decision, reconcile_pending). *)
THEOREM TopicsAreKept == ReconcileSpec => TopicKept
<1>1. ASSUME ReconcileInv, [ReconcileNext]_reconcileVars
      PROVE  [\A S \in SUBSET Candidates :
                 pass.open /\ Family(S) /\ Known(S) => Known(S)']_reconcileVars
  <2>1. CASE PassCommit
    <3>1. KeepsTopics(active, batches, active', batches')
      BY <1>1, <2>1 DEF ReconcileInv, PassCommit
    <3> QED BY <3>1 DEF KeepsTopics, KnownIn, Known
  <2>2. CASE PassRow \/ PassBegin \/ PassAbort
    BY <2>2 DEF PassRow, PassBegin, PassAbort, Known
  <2>3. CASE Extract \/ Accept \/ State
    BY <2>3 DEF Extract, Accept, State
  <2> QED BY <1>1, <2>1, <2>2, <2>3 DEF ReconcileNext
<1> QED BY <1>1, ReconcileInvariant, PTL DEF ReconcileSpec, TopicKept

-----------------------------------------------------------------------------
(* Facade.                                                                 *)

(* The rows: none says what another live row says; a row named otherwise   *)
(* than after its text was changed by a tool; so was one that is           *)
(* superseded; what the host's hook stored is a mirror. *)
RowsMakeSense(rs, P) ==
    /\ rs \in [RowIds -> Entry]
    /\ \A i \in RowIds : rs[i] = Vacant \/ (rs[i].status # "none" /\ rs[i].text \in Texts /\ rs[i].by # "")
    /\ \A i, j \in RowIds : Active(rs, i) /\ Active(rs, j) /\ rs[i].text = rs[j].text => i = j
    /\ \A i \in RowIds : rs[i].name # "" /\ rs[i].name # rs[i].text =>
                             rs[i].name \in P /\ rs[i].text \in P
    /\ \A i \in RowIds : rs[i].status = "superseded" => rs[i].text \in P
    /\ \A i \in RowIds : rs[i].by = "host" => rs[i].mirrored

(* What became of the texts no tool has changed (those outside P): a live  *)
(* row stays, a name stays given, and the rows that are new are a tool's. *)
Undisturbed(rs, sr, P) ==
    /\ \A t \in Texts \ P : LiveRows(rs, t) \subseteq LiveRows(sr, t)
    /\ \A n : ~NameFree(rs, n) => ~NameFree(sr, n)
    /\ \A t \in Texts \ P : \A i \in LiveRows(sr, t) : sr[i].by = "tool" \/
          (i \in LiveRows(rs, t) /\ sr[i].by = rs[i].by)

(* What a token promises was shown. *)
TokensWereShown ==
    /\ \A i \in RowIds : shown[i].at <= now
    /\ \A k \in tokens : \A i \in k.ids : shown[i].at # 0 /\ k.until <= shown[i].at + Ttl

FacadeInv ==
    /\ FacadeTypeOK
    /\ RowsMakeSense(rows, parted)
    /\ TokensWereShown
    /\ MirrorFollows

(* A row that may be stored. *)
Storable(row) == /\ row \in Entry /\ row.status = "active" /\ row.text \in Texts
                 /\ row.name \in {"", row.text}
                 /\ row.by # "" /\ (row.by = "host" => row.mirrored)

LEMMA LeastNumber ==
    ASSUME NEW T, T \subseteq Nat, T # {}
    PROVE  \E b \in T : \A c \in T : b <= c
<1>1. PICK R : IsWellFoundedOn(R, Nat) /\ \A i, j \in Nat : i < j => <<i, j>> \in R
  <2>1. \A i, j \in Nat : i < j => <<i, j>> \in OpToRel(<, Nat)
    BY DEF OpToRel
  <2> QED BY <2>1, NatLessThanWellFounded
<1>2. PICK b \in T : \A y \in T : ~ (<<y, b>> \in R)
  <2>1. IsWellFoundedOn(R, Nat)
    BY <1>1
  <2> QED BY <2>1, WFMin, Zenon
<1>3. ASSUME NEW c \in T PROVE b <= c
  <2>1. b \in Nat /\ c \in Nat /\ ~ (<<c, b>> \in R)
    BY <1>2
  <2>2. ~(c < b)
    BY <1>1, <2>1
  <2> QED BY <2>1, <2>2
<1> QED BY <1>3

LEMMA Bounds == MaxEntries \in Nat /\ Ttl \in Nat /\ MaxClock \in Nat \ {0}
BY FacadeConstants, Zenon DEF FacadeConstants

LEMMA OfNumbers == \A i \in RowIds : i \in Nat /\ i <= i
BY Bounds DEF RowIds

LEMMA NoEmptyText == "" \notin Texts
BY FacadeConstants, Zenon DEF FacadeConstants

(* MemoryStore.add takes a vacant row, or there is a live row with the     *)
(* text or another row with the name. *)
LEMMA AddedRow ==
    ASSUME NEW rs, \E i \in RowIds : rs[i] = Vacant, NEW row
    PROVE  \/ Added(rs, row) = rs /\ (LiveRows(rs, row.text) # {} \/ ~NameFree(rs, row.name))
           \/ \E k \in RowIds : /\ rs[k] = Vacant
                                /\ LiveRows(rs, row.text) = {} /\ NameFree(rs, row.name)
                                /\ Added(rs, row) = [rs EXCEPT ![k] = row]
<1> DEFINE T == {i \in RowIds : rs[i] = Vacant}
<1>1. PICK k \in T : \A c \in T : k <= c
  <2>1. RowIds \subseteq Nat
    BY Bounds DEF RowIds
  <2>2. T \subseteq Nat /\ T # {}
    BY <2>1
  <2> QED BY <2>2, LeastNumber
<1> DEFINE least == CHOOSE i \in RowIds : /\ rs[i] = Vacant
                                          /\ \A j \in RowIds : rs[j] = Vacant => i <= j
<1>2. least \in RowIds /\ rs[least] = Vacant
  BY <1>1
<1> QED BY <1>2 DEF Added

LEMMA VacantIs ==
    /\ Vacant \in Entry /\ Vacant.status = "none" /\ Vacant.text = "" /\ Vacant.name = ""
    /\ Vacant.by = "" /\ Vacant.mirrored = FALSE
BY DEF Vacant, Entry

LEMMA AddedMakesSense ==
    ASSUME NEW P, NEW rs, RowsMakeSense(rs, P), NEW row, Storable(row), NEW k \in RowIds,
           rs[k] = Vacant, LiveRows(rs, row.text) = {}
    PROVE  /\ RowsMakeSense([rs EXCEPT ![k] = row], P)
           /\ \A t \in Texts : LiveRows([rs EXCEPT ![k] = row], t)
                                  = LiveRows(rs, t) \cup (IF t = row.text THEN {k} ELSE {})
           /\ \A n : ~NameFree(rs, n) => ~NameFree([rs EXCEPT ![k] = row], n)
<1> DEFINE sr == [rs EXCEPT ![k] = row]
<1>1. /\ rs \in [RowIds -> Entry] /\ sr \in [RowIds -> Entry]
      /\ sr[k] = row /\ \A i \in RowIds \ {k} : sr[i] = rs[i]
  BY DEF RowsMakeSense, Storable
<1>2. ~Active(rs, k) /\ rs[k].name = ""
  BY VacantIs DEF Active
<1> HIDE DEF sr
<1>3. \A t \in Texts : LiveRows(sr, t) = LiveRows(rs, t) \cup (IF t = row.text THEN {k} ELSE {})
  BY <1>1, <1>2 DEF LiveRows, Active, Storable
<1>4. \A n : ~NameFree(rs, n) => ~NameFree(sr, n)
  BY <1>1, <1>2 DEF NameFree
<1>5. \A i \in RowIds : sr[i] = Vacant \/ (sr[i].status # "none" /\ sr[i].text \in Texts /\ sr[i].by # "")
  BY <1>1 DEF RowsMakeSense, Storable
<1>6. \A i, j \in RowIds : Active(sr, i) /\ Active(sr, j) /\ sr[i].text = sr[j].text => i = j
  <2>1. \A i, j \in RowIds : Active(rs, i) /\ Active(rs, j) /\ rs[i].text = rs[j].text => i = j
    BY DEF RowsMakeSense
  <2>2. \A i \in RowIds : ~(Active(rs, i) /\ rs[i].text = row.text)
    BY DEF LiveRows
  <2> QED BY <1>1, <2>1, <2>2 DEF Active
<1>7. \A i \in RowIds : /\ sr[i].name # "" /\ sr[i].name # sr[i].text =>
                              sr[i].name \in P /\ sr[i].text \in P
                        /\ sr[i].status = "superseded" => sr[i].text \in P
                        /\ sr[i].by = "host" => sr[i].mirrored
  BY <1>1 DEF RowsMakeSense, Storable
<1>8. RowsMakeSense(sr, P)
  BY <1>1, <1>5, <1>6, <1>7 DEF RowsMakeSense
<1> QED BY <1>3, <1>4, <1>8 DEF sr

(* A tool may have changed more texts. *)
LEMMA MoreChanged ==
    ASSUME NEW P, NEW Q, P \subseteq Q, NEW rs, RowsMakeSense(rs, P)
    PROVE  RowsMakeSense(rs, Q)
BY DEF RowsMakeSense

LEMMA DeletedMakesSense ==
    ASSUME NEW P, NEW rs, RowsMakeSense(rs, P), NEW gone \in SUBSET RowIds,
           \A i \in gone : rs[i].status # "none"
    PROVE  /\ RowsMakeSense(Deleted(rs, gone), P)
           /\ \A t : LiveRows(Deleted(rs, gone), t) = LiveRows(rs, t) \ gone
           /\ \A n : NameFree(Deleted(rs, gone), n) <=> NameFree(rs, n)
           /\ \A i \in RowIds : Deleted(rs, gone)[i].by = rs[i].by
           /\ \A i \in RowIds : rs[i] = Vacant => Deleted(rs, gone)[i] = Vacant
<1> DEFINE sr == Deleted(rs, gone)
<1>0. rs \in [RowIds -> Entry]
  BY DEF RowsMakeSense
<1>1. sr \in [RowIds -> Entry]
  BY <1>0 DEF Deleted, Entry
<1>2. \A i \in RowIds : /\ sr[i].text = rs[i].text /\ sr[i].name = rs[i].name
                        /\ sr[i].by = rs[i].by /\ sr[i].mirrored = rs[i].mirrored
                        /\ i \in gone => sr[i].status = "deleted"
                        /\ i \notin gone => sr[i] = rs[i]
  BY <1>0 DEF Deleted, Entry
<1>3. \A i \in RowIds : rs[i] = Vacant => i \notin gone
  BY VacantIs
<1> HIDE DEF sr
<1>4. RowsMakeSense(sr, P)
  <2>1. \A i \in RowIds : sr[i] = Vacant \/ (sr[i].status # "none" /\ sr[i].text \in Texts /\ sr[i].by # "")
    BY <1>2, <1>3 DEF RowsMakeSense
  <2>2. \A i, j \in RowIds : Active(sr, i) /\ Active(sr, j) /\ sr[i].text = sr[j].text => i = j
    <3>1. \A i, j \in RowIds : Active(rs, i) /\ Active(rs, j) /\ rs[i].text = rs[j].text => i = j
      BY DEF RowsMakeSense
    <3>2. \A i \in RowIds : Active(sr, i) => Active(rs, i)
      BY <1>2 DEF Active
    <3> QED BY <1>2, <3>1, <3>2
  <2>3. \A i \in RowIds : /\ sr[i].name # "" /\ sr[i].name # sr[i].text =>
                                sr[i].name \in P /\ sr[i].text \in P
                          /\ sr[i].status = "superseded" => sr[i].text \in P
                          /\ sr[i].by = "host" => sr[i].mirrored
    BY <1>2 DEF RowsMakeSense
  <2> QED BY <1>1, <2>1, <2>2, <2>3 DEF RowsMakeSense
<1>5. \A t : LiveRows(sr, t) = LiveRows(rs, t) \ gone
  BY <1>2 DEF LiveRows, Active
<1>6. \A n : NameFree(sr, n) <=> NameFree(rs, n)
  BY <1>2 DEF NameFree
<1>7. \A i \in RowIds : rs[i] = Vacant => sr[i] = Vacant
  BY <1>2, <1>3
<1> QED BY <1>2, <1>4, <1>5, <1>6, <1>7 DEF sr

-----------------------------------------------------------------------------
(* The mirror.                                                             *)

(* What the hook finds for one entry is not the row of another. *)
LEMMA LocateSpares ==
    ASSUME RowsMakeSense(rows, parted), NEW old \in entries, NEW needle \in Fragments[old],
           NEW previous \in {old, ""},
           \A e \in entries : needle \in Fragments[e] => e = old,
           NEW t \in entries, t # old, t \notin parted
    PROVE  Locate(previous, needle) \cap LiveRows(rows, t) = {}
<1> SUFFICES ASSUME NEW i \in Locate(previous, needle), i \in LiveRows(rows, t)
             PROVE  FALSE
  OBVIOUS
<1>0. i \in RowIds /\ rows[i].text = t
  BY DEF LiveRows
<1>1. \/ previous # "" /\ rows[i].name = previous
      \/ needle \in Fragments[rows[i].text]
  BY DEF Locate, Fact, Mirrored
<1> QED BY <1>0, <1>1 DEF RowsMakeSense

(* It is the entry's own row, if the host's hook stored it and no tool     *)
(* changed it since. *)
LEMMA LocateTakes ==
    ASSUME RowsMakeSense(rows, parted), NEW old \in Texts \ parted, Alone(old),
           NEW needle \in Fragments[old], NEW previous \in {old, ""},
           NEW i \in LiveRows(rows, old), rows[i].by # "tool"
    PROVE  i \in Locate(previous, needle)
<1>0. /\ i \in RowIds /\ Active(rows, i) /\ rows[i].text = old /\ rows[i].mirrored
      /\ rows \in [RowIds -> Entry]
  <2>1. i \in RowIds /\ rows[i].status = "active" /\ rows[i].text = old
    BY DEF LiveRows, Active
  <2>2. rows \in [RowIds -> Entry]
    BY DEF RowsMakeSense
  <2>3. rows[i] # Vacant
    BY <2>1, VacantIs
  <2>4. rows[i].by \in {"", "tool", "host"}
    BY <2>1, <2>2 DEF Entry
  <2>5. rows[i].by # ""
    BY <2>1, <2>3 DEF RowsMakeSense
  <2>6. rows[i].by = "host"
    BY <2>4, <2>5
  <2> QED BY <2>1, <2>2, <2>6 DEF RowsMakeSense, Active
<1> DEFINE own == {j \in Fact(previous) : rows[j].mirrored}
<1>1. \A j \in own : j = i
  <2> TAKE j \in own
  <2>1. j \in RowIds /\ previous = old /\ old # "" /\ rows[j].name = old
        /\ rows[j].status \notin {"none", "deleted"}
    BY DEF Fact
  <2>2. rows[j].text = old
    BY <2>1 DEF RowsMakeSense
  <2>3. rows[j].status = "active"
    <3>1. rows[j].status # "superseded"
      BY <2>1, <2>2 DEF RowsMakeSense
    <3> QED BY <1>0, <2>1, <3>1 DEF Entry
  <2> QED BY <1>0, <2>1, <2>2, <2>3 DEF RowsMakeSense, Active
<1>2. i \in Mirrored(needle)
  BY <1>0 DEF Mirrored
<1>3. \A j \in Mirrored(needle) : j = i
  <2> TAKE j \in Mirrored(needle)
  <2>1. j \in RowIds /\ rows[j].status = "active" /\ needle \in Fragments[rows[j].text]
    BY DEF Mirrored, Active
  <2>2. rows[j].text \in Texts
    BY <2>1, VacantIs DEF RowsMakeSense
  <2>3. rows[j].text = old
    BY <2>1, <2>2 DEF Alone
  <2> QED BY <1>0, <2>1, <2>3 DEF RowsMakeSense, Active
<1>4. \A j \in Mirrored(needle) : i <= j
  <2>1. i \in RowIds
    BY <1>0
  <2>2. i <= i
    BY <2>1, OfNumbers
  <2> QED BY <1>3, <2>2
<1> QED BY <1>1, <1>2, <1>4 DEF Locate

LEMMA LocatedIsMirror ==
    ASSUME RowsMakeSense(rows, parted), NEW previous, NEW needle
    PROVE  /\ Locate(previous, needle) \in SUBSET RowIds
           /\ \A i \in Locate(previous, needle) : rows[i].status # "none"
<1>1. \A i \in Locate(previous, needle) : i \in RowIds /\ rows[i].mirrored
  BY DEF Locate, Fact, Mirrored
<1>2. \A i \in RowIds : rows[i].mirrored => rows[i] # Vacant
  BY VacantIs
<1> QED BY <1>1, <1>2 DEF RowsMakeSense

(* What the hook leaves: without the rows it forgets, and with one of the  *)
(* new text, if there is none and its name is free. *)
LEMMA HookLeaves ==
    ASSUME FacadeInv, Room, NEW gone \in SUBSET RowIds, \A i \in gone : rows[i].status # "none",
           NEW come \in SUBSET Texts, come = {} \/ \E c \in Texts : come = {c},
           Hook(gone, come)
    PROVE  /\ RowsMakeSense(rows', parted)
           /\ \A t \in Texts \ come : LiveRows(rows', t) = LiveRows(rows, t) \ gone
           /\ \A t \in Texts \ come : \A i \in LiveRows(rows', t) : rows'[i].by = rows[i].by
           /\ \A n : ~NameFree(rows, n) => ~NameFree(rows', n)
           /\ \A t \in come : LiveRows(rows', t) # {} \/ ~NameFree(rows', Stamp(t))
<1> DEFINE left == Deleted(rows, gone)
<1>1. /\ RowsMakeSense(left, parted)
      /\ \A t : LiveRows(left, t) = LiveRows(rows, t) \ gone
      /\ \A n : NameFree(left, n) <=> NameFree(rows, n)
      /\ \A i \in RowIds : left[i].by = rows[i].by
      /\ \E i \in RowIds : left[i] = Vacant
  BY DeletedMakesSense DEF FacadeInv, Room
<1> HIDE DEF left
<1>2. CASE come = {}
  <2>1. rows' = left
    BY <1>2 DEF Hook, left
  <2>2. \A t \in Texts : LiveRows(rows', t) \subseteq RowIds
    BY DEF LiveRows
  <2> QED BY <1>1, <1>2, <2>1, <2>2
<1>3. CASE come # {}
  <2>1. PICK c \in Texts : come = {c}
    BY <1>3
  <2> DEFINE row == Row(c, Stamp(c), TRUE, "host")
  <2>2. rows' = Added(left, row)
    <3>1. (CHOOSE x \in come : TRUE) = c
      BY <2>1
    <3> QED BY <1>3, <3>1 DEF Hook, left
  <2>3. Storable(row) /\ row.text = c /\ row.name = Stamp(c)
    BY DEF Row, Stamp, Storable, Entry
  <2> HIDE DEF row
  <2>4. CASE rows' = left /\ (LiveRows(left, c) # {} \/ ~NameFree(left, Stamp(c)))
    <3>1. \A t \in Texts : LiveRows(rows', t) \subseteq RowIds
      BY DEF LiveRows
    <3> QED BY <1>1, <2>1, <2>4, <3>1
  <2>5. CASE \E k \in RowIds : /\ left[k] = Vacant
                               /\ LiveRows(left, c) = {} /\ NameFree(left, Stamp(c))
                               /\ rows' = [left EXCEPT ![k] = row]
    <3>1. PICK k \in RowIds : /\ left[k] = Vacant /\ LiveRows(left, c) = {}
                              /\ rows' = [left EXCEPT ![k] = row]
      BY <2>5
    <3> DEFINE sr == [left EXCEPT ![k] = row]
    <3>5. /\ RowsMakeSense(sr, parted)
          /\ \A t \in Texts : LiveRows(sr, t) = LiveRows(left, t) \cup (IF t = c THEN {k} ELSE {})
          /\ \A n : ~NameFree(left, n) => ~NameFree(sr, n)
      <4>1. RowsMakeSense(left, parted) /\ Storable(row) /\ left[k] = Vacant
            /\ LiveRows(left, row.text) = {} /\ row.text = c
        BY <1>1, <2>3, <3>1
      <4>2. /\ RowsMakeSense(sr, parted)
            /\ \A t \in Texts : LiveRows(sr, t) = LiveRows(left, t) \cup (IF t = row.text THEN {k} ELSE {})
            /\ \A n : ~NameFree(left, n) => ~NameFree(sr, n)
        BY <4>1, AddedMakesSense
      <4> QED BY <4>1, <4>2
    <3>2. /\ RowsMakeSense(rows', parted)
          /\ \A t \in Texts : LiveRows(rows', t) = LiveRows(left, t) \cup (IF t = c THEN {k} ELSE {})
          /\ \A n : ~NameFree(left, n) => ~NameFree(rows', n)
      <4>1. rows' = sr
        BY <3>1
      <4> HIDE DEF sr
      <4> QED BY <3>5, <4>1
    <3>3. \A i \in RowIds \ {k} : rows'[i] = left[i]
      BY <1>1, <3>1 DEF RowsMakeSense
    <3>4. \A t \in Texts : LiveRows(left, t) \subseteq RowIds \ {k}
      BY <3>1, VacantIs DEF LiveRows, Active
    <3> QED BY <1>1, <2>1, <3>2, <3>3, <3>4
  <2> QED BY <1>1, <2>2, <2>3, <2>4, <2>5, AddedRow
<1> QED BY <1>2, <1>3

LEMMA HostKeeps ==
    ASSUME FacadeInv,
           \/ \E c \in Texts : HostAdd(c)
           \/ \E old \in Texts : HostTake(old, {}) \/ \E new \in Texts \ {old} : HostTake(old, {new})
    PROVE  FacadeInv'
<1>0. /\ FacadeTypeOK /\ RowsMakeSense(rows, parted) /\ MirrorFollows
      /\ UNCHANGED <<wide, tokens, now, parted, shown>>
  BY DEF FacadeInv, HostAdd, HostTake
<1>1. /\ RowsMakeSense(rows', parted) /\ MirrorFollows'
      /\ entries' \subseteq Texts /\ missed' \subseteq Texts
  <2>1. ASSUME NEW c \in Texts, HostAdd(c), UNCHANGED missed, Hook({}, {c})
        PROVE  RowsMakeSense(rows', parted) /\ MirrorFollows'
    <3>1. /\ RowsMakeSense(rows', parted)
          /\ \A t \in Texts \ {c} : LiveRows(rows', t) = LiveRows(rows, t) \ {}
          /\ \A t \in Texts \ {c} : \A i \in LiveRows(rows', t) : rows'[i].by = rows[i].by
          /\ \A n : ~NameFree(rows, n) => ~NameFree(rows', n)
          /\ \A t \in {c} : LiveRows(rows', t) # {} \/ ~NameFree(rows', Stamp(t))
      <4>1. /\ Room /\ {} \in SUBSET RowIds /\ {c} \in SUBSET Texts
            /\ \A i \in {} : rows[i].status # "none"
        BY <2>1 DEF HostAdd
      <4> QED BY <2>1, <4>1, HookLeaves
    <3>2. entries' = entries \cup {c}
      BY <2>1 DEF HostAdd
    <3>3. ASSUME NEW t \in Texts \ (missed \cup parted), Alone(t)
          PROVE  IF t \in entries' THEN LiveRows(rows', t) # {} \/ ~NameFree(rows', Stamp(t))
                 ELSE \A i \in LiveRows(rows', t) : rows'[i].by = "tool"
      BY <1>0, <3>1, <3>2, <3>3 DEF MirrorFollows
    <3> QED BY <1>0, <2>1, <3>1, <3>3 DEF MirrorFollows, Stamp
  <2>2. ASSUME NEW old \in Texts, NEW come \in SUBSET Texts, HostTake(old, come),
               come = {} \/ \E c \in Texts : come = {c},
               NEW needle \in Fragments[old], NEW previous \in {old, ""},
               \A e \in entries : needle \in Fragments[e] => e = old,
               NEW kept \in {{}, come}, Hook(Locate(previous, needle), kept),
               missed' = missed \cup (come \ kept)
        PROVE  RowsMakeSense(rows', parted) /\ MirrorFollows'
    <3> DEFINE gone == Locate(previous, needle)
    <3>0. old \in entries /\ entries' = (entries \ {old}) \cup come /\ Room
      BY <2>2 DEF HostTake
    <3>1. /\ RowsMakeSense(rows', parted)
          /\ \A t \in Texts \ kept : LiveRows(rows', t) = LiveRows(rows, t) \ gone
          /\ \A t \in Texts \ kept : \A i \in LiveRows(rows', t) : rows'[i].by = rows[i].by
          /\ \A n : ~NameFree(rows, n) => ~NameFree(rows', n)
          /\ \A t \in kept : LiveRows(rows', t) # {} \/ ~NameFree(rows', Stamp(t))
      <4>1. gone \in SUBSET RowIds /\ \A i \in gone : rows[i].status # "none"
        BY <1>0, LocatedIsMirror
      <4> HIDE DEF gone
      <4>2. Hook(gone, kept) /\ kept \in SUBSET Texts /\ (kept = {} \/ \E c \in Texts : kept = {c})
        BY <2>2 DEF gone
      <4> QED BY <3>0, <4>1, <4>2, HookLeaves
    <3>2. \A t \in entries : t # old /\ t \notin parted => gone \cap LiveRows(rows, t) = {}
      BY <1>0, <2>2, <3>0, LocateSpares
    <3>3. old \notin parted /\ Alone(old) =>
             \A i \in LiveRows(rows, old) : rows[i].by # "tool" => i \in gone
      BY <1>0, <2>2, LocateTakes
    <3> HIDE DEF gone
    <3>4. ASSUME NEW t \in Texts \ (missed' \cup parted), Alone(t)
          PROVE  IF t \in entries' THEN LiveRows(rows', t) # {} \/ ~NameFree(rows', Stamp(t))
                 ELSE \A i \in LiveRows(rows', t) : rows'[i].by = "tool"
      <4>1. t \notin missed /\ (t \in come => t \in kept) /\ (t \notin come => t \notin kept)
        BY <2>2
      <4>2. CASE t \in come
        BY <3>0, <3>1, <4>1, <4>2
      <4>3. CASE t \in entries \ {old} /\ t \notin come
        BY <1>0, <3>0, <3>1, <3>2, <3>4, <4>1, <4>3 DEF MirrorFollows
      <4>4. CASE t = old /\ t \notin come
        BY <3>0, <3>1, <3>3, <3>4, <4>4
      <4>5. CASE t \notin entries /\ t \notin come
        BY <1>0, <3>0, <3>1, <3>4, <4>1, <4>5 DEF MirrorFollows
      <4> QED BY <4>2, <4>3, <4>4, <4>5
    <3> QED BY <1>0, <3>1, <3>4 DEF MirrorFollows, Stamp
  <2>3. ASSUME NEW changed, Unheard(changed),
               \A t \in Texts \ changed : t \in entries' <=> t \in entries
        PROVE  RowsMakeSense(rows', parted) /\ MirrorFollows'
    BY <1>0, <2>3 DEF Unheard, MirrorFollows, Stamp
  <2>4. CASE \E c \in Texts : HostAdd(c)
    <3>1. PICK c \in Texts : HostAdd(c)
      BY <2>4
    <3>2. entries' = entries \cup {c} /\ (missed' = missed \/ missed' = missed \cup {c})
      BY <3>1 DEF HostAdd, Unheard
    <3>3. RowsMakeSense(rows', parted) /\ MirrorFollows'
      <4>1. CASE Hook({}, {c}) /\ UNCHANGED missed
        BY <2>1, <3>1, <4>1
      <4>2. CASE Unheard({c})
        BY <2>3, <3>2, <4>2
      <4> QED BY <3>1, <4>1, <4>2 DEF HostAdd
    <3> QED BY <1>0, <3>2, <3>3 DEF FacadeTypeOK
  <2>5. ASSUME NEW old \in Texts, NEW come \in SUBSET Texts, HostTake(old, come),
               come = {} \/ \E c \in Texts : come = {c}
        PROVE  /\ RowsMakeSense(rows', parted) /\ MirrorFollows'
               /\ entries' \subseteq Texts /\ missed' \subseteq Texts
    <3>1. entries' = (entries \ {old}) \cup come /\ missed' \subseteq missed \cup come \cup {old}
      BY <2>5 DEF HostTake, Unheard
    <3>2. CASE Unheard(come \cup {old})
      <4>1. RowsMakeSense(rows', parted) /\ MirrorFollows'
        BY <2>3, <3>1, <3>2
      <4> QED BY <1>0, <3>1, <4>1 DEF FacadeTypeOK
    <3>3. CASE ~Unheard(come \cup {old})
      <4>1. PICK needle \in Fragments[old], previous \in {old, ""} :
               /\ \A e \in entries : needle \in Fragments[e] => e = old
               /\ \/ Hook(Locate(previous, needle), come) /\ UNCHANGED missed
                  \/ come # {} /\ Hook(Locate(previous, needle), {}) /\ missed' = missed \cup come
        BY <2>5, <3>3 DEF HostTake
      <4>2. RowsMakeSense(rows', parted) /\ MirrorFollows'
        <5>1. CASE Hook(Locate(previous, needle), come) /\ UNCHANGED missed
          BY <2>2, <2>5, <4>1, <5>1
        <5>2. CASE Hook(Locate(previous, needle), {}) /\ missed' = missed \cup come
          BY <2>2, <2>5, <4>1, <5>2
        <5> QED BY <4>1, <5>1, <5>2
      <4> QED BY <1>0, <3>1, <4>2 DEF FacadeTypeOK
    <3> QED BY <3>2, <3>3
  <2>6. CASE \E old \in Texts : HostTake(old, {}) \/ \E new \in Texts \ {old} : HostTake(old, {new})
    BY <2>5, <2>6
  <2> QED BY <2>4, <2>6
<1>2. FacadeTypeOK' /\ TokensWereShown'
  BY <1>0, <1>1 DEF FacadeInv, FacadeTypeOK, RowsMakeSense, TokensWereShown
<1> QED BY <1>0, <1>1, <1>2 DEF FacadeInv

-----------------------------------------------------------------------------
(* The tools.                                                              *)

LEMMA MirrorUndisturbed ==
    ASSUME MirrorFollows, parted \subseteq parted', Undisturbed(rows, rows', parted'),
           UNCHANGED <<wide, entries, missed>>
    PROVE  MirrorFollows'
<1> SUFFICES ASSUME NEW t \in Texts \ (missed \cup parted'), Alone(t)
             PROVE  IF t \in entries THEN LiveRows(rows', t) # {} \/ ~NameFree(rows', Stamp(t))
                    ELSE \A i \in LiveRows(rows', t) : rows'[i].by = "tool"
  BY DEF MirrorFollows, Stamp
<1> QED BY DEF MirrorFollows, Undisturbed

LEMMA ToolKeeps ==
    ASSUME FacadeInv, RowsMakeSense(rows', parted'), Undisturbed(rows, rows', parted'),
           parted \subseteq parted', parted' \subseteq Texts,
           UNCHANGED <<wide, entries, now, missed, shown>>, tokens' \subseteq tokens
    PROVE  FacadeInv'
<1>1. MirrorFollows'
  BY MirrorUndisturbed DEF FacadeInv
<1>2. FacadeTypeOK' /\ TokensWereShown'
  BY DEF FacadeInv, FacadeTypeOK, RowsMakeSense, TokensWereShown
<1> QED BY <1>1, <1>2 DEF FacadeInv

(* A new row of a tool's. *)
LEMMA AddedUndisturbed ==
    ASSUME FacadeInv, Room, NEW row, Storable(row), row.by = "tool"
    PROVE  /\ RowsMakeSense(Added(rows, row), parted)
           /\ Undisturbed(rows, Added(rows, row), parted)
           /\ \A i \in RowIds : rows[i] # Vacant => Added(rows, row)[i] = rows[i]
<1> DEFINE sr == Added(rows, row)
<1>1. \A t : LiveRows(rows, t) \subseteq RowIds
  BY DEF LiveRows
<1>2. CASE sr = rows
  BY <1>2 DEF Undisturbed, FacadeInv
<1>3. CASE \E k \in RowIds : /\ rows[k] = Vacant
                            /\ LiveRows(rows, row.text) = {} /\ NameFree(rows, row.name)
                            /\ sr = [rows EXCEPT ![k] = row]
  <2>1. PICK k \in RowIds : /\ rows[k] = Vacant /\ LiveRows(rows, row.text) = {}
                            /\ sr = [rows EXCEPT ![k] = row]
    BY <1>3
  <2> HIDE DEF sr
  <2>2. /\ RowsMakeSense(sr, parted)
        /\ \A t \in Texts : LiveRows(sr, t) = LiveRows(rows, t) \cup (IF t = row.text THEN {k} ELSE {})
        /\ \A n : ~NameFree(rows, n) => ~NameFree(sr, n)
    <3> DEFINE r == [rows EXCEPT ![k] = row]
    <3>1. RowsMakeSense(rows, parted)
      BY DEF FacadeInv
    <3>2. /\ RowsMakeSense(r, parted)
          /\ \A t \in Texts : LiveRows(r, t) = LiveRows(rows, t) \cup (IF t = row.text THEN {k} ELSE {})
          /\ \A n : ~NameFree(rows, n) => ~NameFree(r, n)
      BY <2>1, <3>1, AddedMakesSense
    <3>3. sr = r
      BY <2>1
    <3> HIDE DEF r
    <3> QED BY <3>2, <3>3
  <2>3. sr[k] = row /\ \A i \in RowIds \ {k} : sr[i] = rows[i]
    BY <2>1 DEF FacadeInv, RowsMakeSense
  <2>4. Undisturbed(rows, sr, parted)
    BY <1>1, <2>2, <2>3 DEF Undisturbed
  <2>5. \A i \in RowIds : rows[i] # Vacant => sr[i] = rows[i]
    BY <2>1, <2>3
  <2> QED BY <2>2, <2>4, <2>5 DEF sr
<1> QED BY <1>2, <1>3, AddedRow DEF Room

(* A row takes the place of another, which is superseded. *)
LEMMA ReplacedUndisturbed ==
    ASSUME FacadeInv, Room, NEW i \in RowIds, Active(rows, i),
           NEW row, Storable(row), row.by = "tool"
    PROVE  /\ RowsMakeSense(Replaced(i, row), parted \cup {rows[i].text})
           /\ Undisturbed(rows, Replaced(i, row), parted \cup {rows[i].text})
<1> DEFINE P  == parted \cup {rows[i].text}
           sr == Added(rows, row)
<1>1. /\ RowsMakeSense(sr, parted) /\ Undisturbed(rows, sr, parted)
      /\ sr[i] = rows[i]
  <2>1. rows[i] # Vacant
    BY VacantIs DEF Active
  <2> QED BY <2>1, AddedUndisturbed
<1> HIDE DEF sr
<1>2. CASE Replaced(i, row) = rows
  <2>1. RowsMakeSense(rows, P)
    BY MoreChanged DEF FacadeInv
  <2> QED BY <1>2, <2>1 DEF Undisturbed
<1>3. CASE Replaced(i, row) = [sr EXCEPT ![i].status = "superseded"]
  <2> DEFINE r == [sr EXCEPT ![i].status = "superseded"]
  <2>0. sr \in [RowIds -> Entry] /\ sr[i].status = "active" /\ sr[i].text = rows[i].text
    BY <1>1 DEF RowsMakeSense, Active
  <2>1. /\ r \in [RowIds -> Entry] /\ r[i].status = "superseded"
        /\ r[i].text = sr[i].text /\ r[i].name = sr[i].name
        /\ r[i].by = sr[i].by /\ r[i].mirrored = sr[i].mirrored
        /\ \A j \in RowIds \ {i} : r[j] = sr[j]
    BY <2>0 DEF Entry
  <2> HIDE DEF r
  <2>2. RowsMakeSense(sr, P)
    BY <1>1, MoreChanged
  <2>3. \A j \in RowIds : r[j] = Vacant \/ (r[j].status # "none" /\ r[j].text \in Texts /\ r[j].by # "")
    <3>1. sr[i] # Vacant
      BY <2>0, VacantIs
    <3> QED BY <2>1, <2>2, <3>1 DEF RowsMakeSense
  <2>4. \A j, k \in RowIds : Active(r, j) /\ Active(r, k) /\ r[j].text = r[k].text => j = k
    <3>1. \A j, k \in RowIds : Active(sr, j) /\ Active(sr, k) /\ sr[j].text = sr[k].text => j = k
      BY <2>2 DEF RowsMakeSense
    <3> QED BY <2>1, <3>1 DEF Active
  <2>5. \A j \in RowIds : /\ r[j].name # "" /\ r[j].name # r[j].text => r[j].name \in P /\ r[j].text \in P
                          /\ r[j].status = "superseded" => r[j].text \in P
                          /\ r[j].by = "host" => r[j].mirrored
    BY <2>0, <2>1, <2>2 DEF RowsMakeSense
  <2>6. RowsMakeSense(r, P)
    BY <2>1, <2>3, <2>4, <2>5 DEF RowsMakeSense
  <2>7. \A t \in Texts \ P : LiveRows(r, t) = LiveRows(sr, t)
    BY <2>0, <2>1 DEF LiveRows, Active
  <2>8. \A n : NameFree(r, n) <=> NameFree(sr, n)
    BY <2>1 DEF NameFree
  <2>9. \A t : LiveRows(r, t) \subseteq RowIds
    BY DEF LiveRows
  <2>10. \A j \in RowIds : r[j].by = sr[j].by
    BY <2>1
  <2>11. Undisturbed(rows, r, P)
    BY <1>1, <2>7, <2>8, <2>9, <2>10 DEF Undisturbed
  <2> QED BY <1>3, <2>6, <2>11 DEF r
<1> QED BY <1>2, <1>3 DEF Replaced, sr

(* A row gets another text of a tool's, or its own back. *)
LEMMA RewrittenUndisturbed ==
    ASSUME FacadeInv, NEW i \in RowIds, rows[i].status # "none", NEW c \in Texts,
           \A j \in LiveRows(rows, c) : j = i,
           NEW sr, sr = [rows EXCEPT ![i] = [@ EXCEPT !.status = "active", !.text = c, !.by = "tool"]]
    PROVE  /\ RowsMakeSense(sr, parted \cup {rows[i].text, c})
           /\ Undisturbed(rows, sr, parted \cup {rows[i].text, c})
<1> DEFINE P == parted \cup {rows[i].text, c}
<1>0. RowsMakeSense(rows, parted) /\ rows \in [RowIds -> Entry]
  BY DEF FacadeInv, RowsMakeSense
<1>1. /\ sr \in [RowIds -> Entry] /\ sr[i].status = "active" /\ sr[i].text = c
      /\ sr[i].by = "tool" /\ sr[i].name = rows[i].name
      /\ \A j \in RowIds \ {i} : sr[j] = rows[j]
  BY <1>0 DEF Entry
<1>2. \A j \in RowIds : sr[j] = Vacant \/ (sr[j].status # "none" /\ sr[j].text \in Texts /\ sr[j].by # "")
  BY <1>0, <1>1 DEF RowsMakeSense
<1>3. \A j, k \in RowIds : Active(sr, j) /\ Active(sr, k) /\ sr[j].text = sr[k].text => j = k
  <2>1. \A j, k \in RowIds : Active(rows, j) /\ Active(rows, k) /\ rows[j].text = rows[k].text => j = k
    BY <1>0 DEF RowsMakeSense
  <2>2. \A j \in RowIds : Active(rows, j) /\ rows[j].text = c => j = i
    BY DEF LiveRows
  <2> QED BY <1>1, <2>1, <2>2 DEF Active
<1>4. \A j \in RowIds : /\ sr[j].name # "" /\ sr[j].name # sr[j].text => sr[j].name \in P /\ sr[j].text \in P
                        /\ sr[j].status = "superseded" => sr[j].text \in P
                        /\ sr[j].by = "host" => sr[j].mirrored
  BY <1>0, <1>1 DEF RowsMakeSense
<1>5. RowsMakeSense(sr, P)
  BY <1>1, <1>2, <1>3, <1>4 DEF RowsMakeSense
<1>6. \A t \in Texts \ P : LiveRows(sr, t) = LiveRows(rows, t) /\ i \notin LiveRows(sr, t)
  BY <1>1 DEF LiveRows, Active
<1>7. \A n : NameFree(sr, n) <=> NameFree(rows, n)
  BY <1>1 DEF NameFree
<1>8. \A t : LiveRows(sr, t) \subseteq RowIds
  BY DEF LiveRows
<1>9. Undisturbed(rows, sr, P)
  BY <1>1, <1>6, <1>7, <1>8 DEF Undisturbed
<1> QED BY <1>5, <1>9

(* Rows are forgotten. *)
LEMMA DeletedUndisturbed ==
    ASSUME FacadeInv, NEW gone \in SUBSET RowIds, \A i \in gone : Forgettable(i)
    PROVE  /\ RowsMakeSense(Deleted(rows, gone), parted \cup {rows[i].text : i \in gone})
           /\ Undisturbed(rows, Deleted(rows, gone), parted \cup {rows[i].text : i \in gone})
           /\ {rows[i].text : i \in gone} \subseteq Texts
<1> DEFINE P  == parted \cup {rows[i].text : i \in gone}
           sr == Deleted(rows, gone)
<1>0. RowsMakeSense(rows, P) /\ \A i \in gone : rows[i].status # "none"
  BY MoreChanged DEF FacadeInv, Forgettable
<1>1. /\ RowsMakeSense(sr, P)
      /\ \A t : LiveRows(sr, t) = LiveRows(rows, t) \ gone
      /\ \A n : NameFree(sr, n) <=> NameFree(rows, n)
      /\ \A i \in RowIds : sr[i].by = rows[i].by
  <2> HIDE DEF P
  <2> QED BY <1>0, DeletedMakesSense
<1> HIDE DEF sr
<1>2. \A t \in Texts \ P : LiveRows(rows, t) \cap gone = {}
  BY DEF LiveRows
<1>3. \A t : LiveRows(rows, t) \subseteq RowIds
  BY DEF LiveRows
<1>4. Undisturbed(rows, sr, P)
  BY <1>1, <1>2, <1>3 DEF Undisturbed
<1>5. {rows[i].text : i \in gone} \subseteq Texts
  BY <1>0, VacantIs DEF RowsMakeSense
<1> QED BY <1>1, <1>4, <1>5 DEF sr

LEMMA Rowed ==
    ASSUME FacadeInv, NEW c \in Texts, NEW name \in {"", c}
    PROVE  /\ Storable(Row(c, name, FALSE, "tool")) /\ Row(c, name, FALSE, "tool").by = "tool"
           /\ Stamp(c) \in {"", c}
BY DEF Row, Storable, Entry, Stamp

LEMMA ToolsKeep ==
    ASSUME FacadeInv,
           \/ \E c \in Texts : Remember(c)
           \/ \E i \in RowIds, c \in Texts : RememberFor(i, c) \/ Update(i, c)
           \/ \E i \in RowIds : ForgetById(i) \/ ReviewRestore(i)
           \/ \E k \in tokens : Confirm(k)
    PROVE  FacadeInv'
<1>0. RowsMakeSense(rows, parted) /\ parted \subseteq Texts /\ rows \in [RowIds -> Entry]
      /\ tokens \subseteq [ids : SUBSET RowIds, until : Nat]
  BY DEF FacadeInv, FacadeTypeOK
<1>a. \A i \in RowIds : rows[i].status # "none" => rows[i].text \in Texts
  BY <1>0, VacantIs DEF RowsMakeSense
<1>1. ASSUME NEW c \in Texts, Remember(c)
      PROVE  FacadeInv'
  <2>1. /\ Room /\ rows' = Added(rows, Row(c, Stamp(c), FALSE, "tool"))
        /\ UNCHANGED <<wide, entries, tokens, now, missed, parted, shown>>
    BY <1>1 DEF Remember
  <2>2. RowsMakeSense(rows', parted) /\ Undisturbed(rows, rows', parted)
    BY <2>1, Rowed, AddedUndisturbed
  <2> QED BY <1>0, <2>1, <2>2, ToolKeeps
<1>2. ASSUME NEW i \in RowIds, NEW c \in Texts, NEW name \in {"", c}, Active(rows, i), Room,
             ToolChanges({rows[i].text}, Replaced(i, Row(c, name, FALSE, "tool")))
      PROVE  FacadeInv'
  <2>1. /\ rows' = Replaced(i, Row(c, name, FALSE, "tool")) /\ parted' = parted \cup {rows[i].text}
        /\ UNCHANGED <<wide, entries, tokens, now, missed, shown>>
    BY <1>2 DEF ToolChanges
  <2>2. RowsMakeSense(rows', parted') /\ Undisturbed(rows, rows', parted')
    BY <1>2, <2>1, Rowed, ReplacedUndisturbed
  <2>3. rows[i].text \in Texts
    BY <1>2, <1>a DEF Active
  <2> QED BY <1>0, <2>1, <2>2, <2>3, ToolKeeps
<1>3. ASSUME NEW i \in RowIds, NEW c \in Texts, rows[i].status # "none",
             \A j \in LiveRows(rows, c) : j = i,
             rows' = [rows EXCEPT ![i] = [@ EXCEPT !.status = "active", !.text = c, !.by = "tool"]],
             parted' = parted \cup {rows[i].text, c},
             UNCHANGED <<wide, entries, tokens, now, missed, shown>>
      PROVE  FacadeInv'
  <2>1. RowsMakeSense(rows', parted') /\ Undisturbed(rows, rows', parted')
    <3>1. /\ RowsMakeSense(rows', parted \cup {rows[i].text, c})
          /\ Undisturbed(rows, rows', parted \cup {rows[i].text, c})
      BY <1>3, RewrittenUndisturbed
    <3> QED BY <1>3, <3>1
  <2> QED BY <1>0, <1>3, <1>a, <2>1, ToolKeeps
<1>4. ASSUME NEW i \in RowIds, NEW c \in Texts, RememberFor(i, c)
      PROVE  FacadeInv'
  BY <1>2, <1>4, Rowed DEF RememberFor
<1>5. ASSUME NEW i \in RowIds, NEW c \in Texts, Update(i, c)
      PROVE  FacadeInv'
  <2>1. CASE ToolChanges({rows[i].text}, Replaced(i, Row(c, "", FALSE, "tool")))
    <3>1. Active(rows, i) /\ Room /\ "" \in {"", c}
      BY <1>5 DEF Update
    <3> QED BY <1>2, <2>1, <3>1
  <2>2. CASE /\ LiveRows(rows, c) \ {i} = {}
             /\ ToolChanges({rows[i].text, c}, [rows EXCEPT ![i].text = c, ![i].by = "tool"])
    <3>1. rows[i].status = "active"
      BY <1>5 DEF Update, Active
    <3>2. [rows EXCEPT ![i].text = c, ![i].by = "tool"]
            = [rows EXCEPT ![i] = [@ EXCEPT !.status = "active", !.text = c, !.by = "tool"]]
      BY <1>0, <3>1 DEF Entry
    <3>3. /\ rows' = [rows EXCEPT ![i] = [@ EXCEPT !.status = "active", !.text = c, !.by = "tool"]]
          /\ parted' = parted \cup {rows[i].text, c}
          /\ UNCHANGED <<wide, entries, tokens, now, missed, shown>>
      BY <2>2, <3>2 DEF ToolChanges
    <3>4. \A j \in LiveRows(rows, c) : j = i
      BY <2>2
    <3>5. rows[i].status # "none"
      BY <3>1
    <3> QED BY <1>3, <3>3, <3>4, <3>5
  <2> QED BY <1>5, <2>1, <2>2 DEF Update
<1>6. ASSUME NEW i \in RowIds, ReviewRestore(i)
      PROVE  FacadeInv'
  <2>1. /\ rows[i].status = "superseded" /\ LiveRows(rows, rows[i].text) = {}
        /\ rows' = [rows EXCEPT ![i].status = "active", ![i].by = "tool"]
        /\ parted' = parted \cup {rows[i].text}
        /\ UNCHANGED <<wide, entries, tokens, now, missed, shown>>
    BY <1>6 DEF ReviewRestore, ToolChanges
  <2>2. rows[i].text \in Texts
    BY <1>a, <2>1
  <2>3. rows' = [rows EXCEPT ![i] = [@ EXCEPT !.status = "active", !.text = rows[i].text, !.by = "tool"]]
    BY <1>0, <2>1 DEF Entry
  <2> QED BY <1>3, <2>1, <2>2, <2>3
<1>7. ASSUME NEW gone \in SUBSET RowIds, \A i \in gone : Forgettable(i),
             rows' = Deleted(rows, gone), parted' = parted \cup {rows[i].text : i \in gone},
             UNCHANGED <<wide, entries, now, missed, shown>>, tokens' \subseteq tokens
      PROVE  FacadeInv'
  <2>1. /\ RowsMakeSense(rows', parted') /\ Undisturbed(rows, rows', parted')
        /\ parted' \subseteq Texts
    BY <1>0, <1>7, DeletedUndisturbed
  <2> QED BY <1>7, <2>1, ToolKeeps
<1>8. ASSUME NEW i \in RowIds, ForgetById(i)
      PROVE  FacadeInv'
  <2>1. {rows[j].text : j \in {i}} = {rows[i].text}
    OBVIOUS
  <2> QED BY <1>7, <1>8, <2>1 DEF ForgetById, ToolChanges
<1>9. ASSUME NEW k \in tokens, Confirm(k)
      PROVE  FacadeInv'
  <2>1. tokens' \subseteq tokens /\ UNCHANGED <<wide, entries, now, missed, shown>>
    BY <1>9 DEF Confirm
  <2>2. CASE now > k.until
    <3>1. UNCHANGED <<rows, parted>>
      BY <1>9, <2>2 DEF Confirm
    <3>2. Undisturbed(rows, rows', parted')
      BY <3>1 DEF Undisturbed
    <3> QED BY <1>0, <2>1, <3>1, <3>2, ToolKeeps
  <2>3. CASE ~(now > k.until)
    <3>1. PICK S \in SUBSET k.ids : Confirmed(S)
      BY <1>9, <2>3 DEF Confirm
    <3> DEFINE gone == {i \in S : Forgettable(i)}
    <3>2. gone \in SUBSET RowIds /\ \A i \in gone : Forgettable(i)
      BY <1>0
    <3>3. rows' = Deleted(rows, gone) /\ parted' = parted \cup {rows[i].text : i \in gone}
      BY <3>1 DEF Confirmed
    <3> HIDE DEF gone
    <3> QED BY <1>7, <2>1, <3>2, <3>3
  <2> QED BY <2>2, <2>3
<1> QED BY <1>1, <1>4, <1>5, <1>6, <1>8, <1>9

-----------------------------------------------------------------------------
(* The tokens.                                                             *)

(* The times, out of their types. *)
LEMMA Times ==
    ASSUME FacadeInv
    PROVE  /\ now \in Nat /\ 1 <= now /\ now <= MaxClock
           /\ \A i \in RowIds : /\ shown[i] \in [at : Nat, text : Texts \cup {""}]
                                /\ shown[i].at \in Nat /\ shown[i].at <= now
           /\ \A k \in tokens : k.ids \in SUBSET RowIds /\ k.until \in Nat
<1>1. /\ now \in 1..MaxClock
      /\ shown \in [RowIds -> [at : Nat, text : Texts \cup {""}]]
      /\ tokens \subseteq [ids : SUBSET RowIds, until : Nat]
      /\ \A i \in RowIds : shown[i].at <= now
  BY Zenon DEF FacadeInv, FacadeTypeOK, TokensWereShown
<1>2. now \in Nat /\ 1 <= now /\ now <= MaxClock
  <2>1. now \in 1..MaxClock
    BY <1>1
  <2> QED BY <2>1, Bounds
<1>3. \A i \in RowIds : shown[i] \in [at : Nat, text : Texts \cup {""}] /\ shown[i].at \in Nat
  <2>1. shown \in [RowIds -> [at : Nat, text : Texts \cup {""}]]
    BY <1>1
  <2> QED BY <2>1
<1>4. \A k \in tokens : k.ids \in SUBSET RowIds /\ k.until \in Nat
  <2>1. tokens \subseteq [ids : SUBSET RowIds, until : Nat]
    BY <1>1
  <2> QED BY <2>1
<1> QED BY <1>1, <1>2, <1>3, <1>4

LEMMA Longer ==
    \A u, a, b, d \in Nat : u <= a + d /\ a <= b => u <= b + d
OBVIOUS

LEMMA PreviewKeeps ==
    ASSUME FacadeInv, NEW S \in SUBSET RowIds, Preview(S)
    PROVE  FacadeTypeOK' /\ TokensWereShown'
<1>0. /\ tokens' \subseteq tokens \cup {[ids |-> S, until |-> now + Ttl]}
      /\ shown' = [i \in RowIds |-> IF i \in S THEN [at |-> now, text |-> rows[i].text] ELSE shown[i]]
      /\ UNCHANGED <<wide, rows, entries, now, missed, parted>>
  BY DEF Preview
<1>1. now \in Nat /\ Ttl \in Nat /\ now # 0 /\ now + Ttl \in Nat
  <2>1. now \in Nat /\ 1 <= now /\ Ttl \in Nat
    BY Times, Bounds
  <2> QED BY <2>1
<1>2. \A i \in RowIds : rows[i].text \in Texts \cup {""}
  <2>1. rows \in [RowIds -> Entry]
    BY Zenon DEF FacadeInv, FacadeTypeOK
  <2> QED BY <2>1 DEF Entry
<1>3. shown' \in [RowIds -> [at : Nat, text : Texts \cup {""}]]
  <2>1. \A i \in RowIds : [at |-> now, text |-> rows[i].text] \in [at : Nat, text : Texts \cup {""}]
    BY <1>1, <1>2
  <2>2. \A i \in RowIds : shown[i] \in [at : Nat, text : Texts \cup {""}]
    BY Times
  <2> QED BY <1>0, <2>1, <2>2
<1>4. tokens' \subseteq [ids : SUBSET RowIds, until : Nat]
  <2>1. [ids |-> S, until |-> now + Ttl] \in [ids : SUBSET RowIds, until : Nat]
    BY <1>1
  <2>2. tokens \subseteq [ids : SUBSET RowIds, until : Nat]
    BY Zenon DEF FacadeInv, FacadeTypeOK
  <2> QED BY <1>0, <2>1, <2>2
<1>5. FacadeTypeOK'
  <2>1. /\ wide \in BOOLEAN /\ rows \in [RowIds -> Entry]
        /\ entries \cup missed \cup parted \subseteq Texts /\ now \in 1..MaxClock
    BY Zenon DEF FacadeInv, FacadeTypeOK
  <2> QED BY <1>0, <1>3, <1>4, <2>1 DEF FacadeTypeOK
<1>6. \A i \in RowIds : /\ i \in S => shown'[i].at = now
                        /\ i \notin S => shown'[i] = shown[i]
  BY <1>0
<1>7. \A i \in RowIds : shown'[i].at \in Nat /\ shown'[i].at <= now /\ shown[i].at <= shown'[i].at
  <2> TAKE i \in RowIds
  <2>1. shown[i].at \in Nat /\ shown[i].at <= now
    BY Times
  <2>2. CASE i \in S
    BY <1>1, <1>6, <2>1, <2>2
  <2>3. CASE i \notin S
    BY <1>6, <2>1, <2>3
  <2> QED BY <2>2, <2>3
<1>8. ASSUME NEW k \in tokens', NEW i \in k.ids
      PROVE  shown'[i].at # 0 /\ k.until <= shown'[i].at + Ttl
  <2>1. CASE k \in tokens
    <3>1. i \in RowIds /\ k.until \in Nat /\ shown[i].at \in Nat
      BY <1>8, <2>1, Times
    <3>2. shown[i].at # 0 /\ k.until <= shown[i].at + Ttl
      BY <1>8, <2>1, Zenon DEF FacadeInv, TokensWereShown
    <3>3. shown'[i].at \in Nat /\ shown[i].at <= shown'[i].at
      BY <1>7, <3>1
    <3>4. k.until <= shown'[i].at + Ttl
      BY <1>1, <3>1, <3>2, <3>3, Longer
    <3> QED BY <3>1, <3>2, <3>3, <3>4
  <2>2. CASE k = [ids |-> S, until |-> now + Ttl]
    <3>1. i \in S /\ k.until = now + Ttl
      BY <1>8, <2>2
    <3>2. shown'[i].at = now
      BY <1>6, <3>1
    <3> QED BY <1>1, <3>1, <3>2
  <2> QED BY <1>0, <1>8, <2>1, <2>2
<1>9. now' = now
  BY <1>0
<1> QED BY <1>5, <1>7, <1>8, <1>9 DEF TokensWereShown

LEMMA TickKeeps ==
    ASSUME FacadeInv, Tick
    PROVE  FacadeTypeOK' /\ TokensWereShown'
<1>0. /\ now < MaxClock /\ now' = now + 1
      /\ UNCHANGED <<wide, rows, entries, tokens, missed, parted, shown>>
  BY DEF Tick
<1>1. now' \in 1..MaxClock
  <2>1. now \in Nat /\ MaxClock \in Nat
    BY Times, Bounds
  <2> QED BY <1>0, <2>1
<1>2. FacadeTypeOK'
  <2>1. /\ wide \in BOOLEAN /\ rows \in [RowIds -> Entry]
        /\ entries \cup missed \cup parted \subseteq Texts
        /\ tokens \subseteq [ids : SUBSET RowIds, until : Nat]
        /\ shown \in [RowIds -> [at : Nat, text : Texts \cup {""}]]
    BY Zenon DEF FacadeInv, FacadeTypeOK
  <2> QED BY <1>0, <1>1, <2>1 DEF FacadeTypeOK
<1>3. \A i \in RowIds : shown'[i].at <= now'
  <2> TAKE i \in RowIds
  <2>1. shown[i].at \in Nat /\ shown[i].at <= now /\ now \in Nat
    BY Times
  <2>2. shown[i].at <= now + 1
    BY <2>1
  <2> QED BY <1>0, <2>2
<1>4. \A k \in tokens' : \A i \in k.ids : shown'[i].at # 0 /\ k.until <= shown'[i].at + Ttl
  BY <1>0, Zenon DEF FacadeInv, TokensWereShown
<1> QED BY <1>2, <1>3, <1>4 DEF TokensWereShown

LEMMA TokenKeeps ==
    ASSUME FacadeInv, (\E S \in SUBSET RowIds : Preview(S)) \/ Tick \/ NewProcess
    PROVE  FacadeInv'
<1>0. UNCHANGED <<wide, rows, entries, missed, parted>>
  BY DEF Preview, Tick, NewProcess
<1>1. RowsMakeSense(rows', parted') /\ MirrorFollows'
  BY <1>0 DEF FacadeInv, MirrorFollows, Stamp
<1>2. ASSUME NewProcess
      PROVE  FacadeTypeOK' /\ TokensWereShown'
  <2>1. tokens' = {} /\ UNCHANGED <<now, shown>>
    BY <1>2 DEF NewProcess
  <2>2. FacadeTypeOK'
    BY <1>0, <2>1 DEF FacadeInv, FacadeTypeOK
  <2>3. \A i \in RowIds : shown[i].at <= now
    BY Times
  <2> QED BY <2>1, <2>2, <2>3 DEF TokensWereShown
<1>3. FacadeTypeOK' /\ TokensWereShown'
  BY <1>2, PreviewKeeps, TickKeeps
<1> QED BY <1>1, <1>3 DEF FacadeInv

LEMMA FacadeStart == FacadeInit => FacadeInv
<1> SUFFICES ASSUME FacadeInit PROVE FacadeInv
  OBVIOUS
<1>0. /\ wide \in BOOLEAN /\ rows = [i \in RowIds |-> Vacant]
      /\ entries = {} /\ tokens = {} /\ now = 1 /\ missed = {} /\ parted = {}
      /\ shown = [i \in RowIds |-> [at |-> 0, text |-> ""]]
  BY DEF FacadeInit
<1>1. FacadeTypeOK
  <2>1. now \in 1..MaxClock
    <3>1. 1 \in 1..MaxClock
      BY Bounds
    <3> QED BY <1>0, <3>1
  <2>2. rows \in [RowIds -> Entry]
    BY <1>0, VacantIs
  <2>3. shown \in [RowIds -> [at : Nat, text : Texts \cup {""}]]
    <3>1. [at |-> 0, text |-> ""] \in [at : Nat, text : Texts \cup {""}]
      OBVIOUS
    <3> QED BY <1>0, <3>1
  <2> QED BY <1>0, <2>1, <2>2, <2>3 DEF FacadeTypeOK
<1>2. \A i \in RowIds : rows[i] = Vacant
  BY DEF FacadeInit
<1>3. \A t : LiveRows(rows, t) = {}
  BY <1>2, VacantIs DEF LiveRows, Active
<1>4. RowsMakeSense(rows, parted)
  BY <1>1, <1>2, VacantIs DEF FacadeTypeOK, RowsMakeSense, Active
<1>5. TokensWereShown
  <2>1. \A i \in RowIds : shown[i].at = 0
    BY <1>0
  <2>2. \A i \in RowIds : shown[i].at <= now
    <3>1. 0 <= 1
      OBVIOUS
    <3> QED BY <1>0, <2>1, <3>1
  <2> QED BY <1>0, <2>2 DEF TokensWereShown
<1>6. MirrorFollows
  BY <1>3 DEF FacadeInit, MirrorFollows
<1> QED BY <1>1, <1>4, <1>5, <1>6 DEF FacadeInv

LEMMA FacadeStep == FacadeInv /\ [FacadeNext]_facadeVars => FacadeInv'
<1>1. ASSUME FacadeInv, UNCHANGED facadeVars PROVE FacadeInv'
  <2>1. UNCHANGED <<wide, rows, entries, tokens, now, missed, parted, shown>>
    BY <1>1 DEF facadeVars
  <2>2. FacadeTypeOK'
    BY <1>1, <2>1 DEF FacadeInv, FacadeTypeOK
  <2>3. RowsMakeSense(rows', parted')
    BY <1>1, <2>1 DEF FacadeInv
  <2>4. TokensWereShown'
    BY <1>1, <2>1, Zenon DEF FacadeInv, TokensWereShown
  <2>5. MirrorFollows'
    BY <1>1, <2>1 DEF FacadeInv, MirrorFollows, Stamp
  <2> QED BY <2>2, <2>3, <2>4, <2>5 DEF FacadeInv
<1> QED BY <1>1, HostKeeps, ToolsKeep, TokenKeeps DEF FacadeNext

LEMMA FacadeInvariant == FacadeSpec => []FacadeInv
BY FacadeStart, FacadeStep, PTL DEF FacadeSpec

(* Type correctness of the rows, the entries and the tokens. *)
THEOREM FacadeTypes == FacadeSpec => []FacadeTypeOK
<1>1. FacadeInv => FacadeTypeOK
  BY DEF FacadeInv
<1> QED BY <1>1, FacadeInvariant, PTL

(* The mirror of the host's memory is true: of an entry whose changes were *)
(* all heard, that no tool touched and that has no part in common with     *)
(* another, the row is there as long as it is and goes with it             *)
(* (on_memory_write, find_mirrored). *)
THEOREM MirrorsFollow == FacadeSpec => []MirrorFollows
<1>1. FacadeInv => MirrorFollows
  BY DEF FacadeInv
<1> QED BY <1>1, FacadeInvariant, PTL

(* A confirmation forgets rows its token's preview has shown, and not      *)
(* later than the token lasts (_forget_preview, _forget_apply). *)
THEOREM ConfirmationsWereShown == FacadeSpec => ConfirmedWasShown
<1>1. ASSUME FacadeInv, [FacadeNext]_facadeVars
      PROVE  [\A k \in tokens \ tokens', i \in RowIds :
                Active(rows, i) /\ ~Active(rows', i) => /\ i \in k.ids /\ shown[i].at # 0
                                                        /\ now <= shown[i].at + Ttl]_facadeVars
  <2> SUFFICES ASSUME FacadeNext, NEW k \in tokens \ tokens', NEW i \in RowIds,
                      Active(rows, i), ~Active(rows', i)
               PROVE  i \in k.ids /\ shown[i].at # 0 /\ now <= shown[i].at + Ttl
    BY <1>1
  <2>1. rows' # rows /\ tokens' # tokens
    OBVIOUS
  <2>2. PICK l \in tokens : Confirm(l)
    BY <2>1 DEF FacadeNext, HostAdd, HostTake, Remember, RememberFor, Update, ToolChanges, ForgetById,
       ReviewRestore, Preview, Tick, NewProcess
  <2>3. k = l
    BY <2>2 DEF Confirm
  <2>4. ~(now > k.until)
    BY <2>1, <2>2, <2>3 DEF Confirm
  <2>5. PICK S \in SUBSET k.ids : rows' = Deleted(rows, {j \in S : Forgettable(j)})
    BY <2>2, <2>3, <2>4 DEF Confirm, Confirmed
  <2>6. i \in k.ids
    BY <2>5 DEF Deleted, Active
  <2>7. now \in Nat /\ k.until \in Nat /\ shown[i].at \in Nat /\ Ttl \in Nat
    BY <1>1, Bounds, Times
  <2>8. shown[i].at # 0 /\ k.until <= shown[i].at + Ttl
    BY <1>1, <2>6, Zenon DEF FacadeInv, TokensWereShown
  <2> QED BY <2>4, <2>6, <2>7, <2>8
<1> QED BY <1>1, FacadeInvariant, PTL DEF FacadeSpec, ConfirmedWasShown
=============================================================================
