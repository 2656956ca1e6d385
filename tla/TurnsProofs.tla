----------------------------- MODULE TurnsProofs ------------------------------
(***************************************************************************)
(* Theorems about what the provider does around a turn: TurnRetraction,    *)
(* for any sessions, any number of exchanges and of memories, and any      *)
(* choice of writers; and Prefetch, for any memories, any distances, any   *)
(* length of the queue, and any number of calls, commits and questions.    *)
(* The two share no state.                                                 *)
(***************************************************************************)
EXTENDS TurnRetraction, Prefetch, SequenceTheorems, TLAPS

-----------------------------------------------------------------------------
(* The inductive invariant.                                                *)

(* No session has more exchanges, or messages, than the host has started. *)
Bounded ==
    \A s \in Sessions :
      /\ Len(convo[s]) <= begun
      /\ Len(chunks[s]) + 2 * Len(toSync) <= 2 * begun
      /\ talking => Len(chunks[s]) + 2 * Len(toSync) + 2 <= 2 * begun

(* An exchange stands in its own session. *)
Placed ==
    /\ talking => convo[session] # <<>>
    /\ \A s \in Sessions : \A k \in 1..Len(convo[s]) :
         convo[s][k] \in 1..begun /\ home[convo[s][k]] = s

(* A job's number is past every exchange that stood when it was queued and *)
(* still stands. *)
Aimed ==
    \A j \in jobs :
      /\ j.asked <= begun
      /\ \A k \in 1..Len(convo[j.session]) :
           convo[j.session][k] <= j.asked => k < j.from

(* What the tool writes carries the number of its exchange. *)
Stamped ==
    \A r \in Rows : origin[r] = "tool" =>
      /\ of[r] \in 1..begun
      /\ stamp[r] = number[of[r]] /\ stamp[r] # 0
      /\ status[r] \in {"active", "retracted"}

(* A row that is not there has no writer. *)
Unwritten == \A r \in Rows : status[r] = "none" => origin[r] = "none"

Numbered == TypeOK /\ TurnsNumbered /\ Bounded /\ Placed

-----------------------------------------------------------------------------
(* Sequences.                                                              *)

LEMMA FrontFacts ==
  ASSUME NEW S, NEW seq \in Seq(S), seq # <<>>
  PROVE  /\ Len(seq) \in Nat /\ Len(seq) > 0
         /\ Last(seq) \in S
         /\ Front(seq) \in Seq(S)
         /\ Len(Front(seq)) = Len(seq) - 1
         /\ \A k \in 1..(Len(seq) - 1) : Front(seq)[k] = seq[k]
<1>1. Len(seq) \in Nat /\ Len(seq) > 0
  BY EmptySeq, LenProperties
<1>2. Last(seq) \in S
  BY <1>1, ElementOfSeq DEF Last
<1>3. /\ Front(seq) \in Seq(S)
      /\ Len(Front(seq)) = Len(seq) - 1
      /\ \A k \in 1..(Len(seq) - 1) : Front(seq)[k] = seq[k]
  <2> DEFINE n == Len(seq) - 1
  <2>1. n \in Nat /\ \A k \in 1..n : seq[k] \in S
    BY <1>1, ElementOfSeq
  <2> HIDE DEF n
  <2>2. /\ SubSeq(seq, 1, n) \in Seq(S)
        /\ Len(SubSeq(seq, 1, n)) = IF 1 <= n THEN n - 1 + 1 ELSE 0
        /\ \A k \in 1..(n - 1 + 1) : SubSeq(seq, 1, n)[k] = seq[1 + k - 1]
    BY <2>1, SubSeqProperties
  <2>3. /\ SubSeq(seq, 1, n) \in Seq(S)
        /\ Len(SubSeq(seq, 1, n)) = n
        /\ \A k \in 1..n : SubSeq(seq, 1, n)[k] = seq[k]
    BY <2>1, <2>2
  <2> QED  BY <2>3 DEF Front, n
<1> QED  BY <1>1, <1>2, <1>3

LEMMA AppendFacts ==
  ASSUME NEW S, NEW seq \in Seq(S), NEW e \in S
  PROVE  /\ Append(seq, e) \in Seq(S)
         /\ Append(seq, e) # <<>>
         /\ Len(seq) \in Nat
         /\ Len(Append(seq, e)) = Len(seq) + 1
         /\ \A k \in 1..Len(seq) : Append(seq, e)[k] = seq[k]
         /\ Append(seq, e)[Len(seq) + 1] = e
  BY AppendProperties, LenProperties

LEMMA HeadFacts ==
  ASSUME NEW S, NEW seq \in Seq(S), seq # <<>>
  PROVE  /\ Head(seq) \in S
         /\ Tail(seq) \in Seq(S)
         /\ Len(seq) \in Nat
         /\ Len(Tail(seq)) = Len(seq) - 1
  BY HeadTailProperties, LenProperties, EmptySeq

LEMMA PairFacts ==
  ASSUME NEW S, NEW seq \in Seq(S), NEW e \in S
  PROVE  /\ seq \o <<e, e>> \in Seq(S)
         /\ Len(seq) \in Nat
         /\ Len(seq \o <<e, e>>) = Len(seq) + 2
<1>1. <<e, e>> \in Seq(S) /\ Len(<<e, e>>) = 2
  OBVIOUS
<1> QED  BY <1>1, ConcatProperties, LenProperties

-----------------------------------------------------------------------------
(* The counter is the length of the conversation.                          *)

LEMMA NumberedInit == Init => Numbered
<1> SUFFICES ASSUME Init PROVE Numbered
    OBVIOUS
<1>1. <<>> \in Seq(Turns) /\ Len(<<>>) = 0
  OBVIOUS
<1>2. TypeOK
  <2>1. /\ convo \in [Sessions -> Seq(Turns)] /\ chunks \in [Sessions -> Seq(Turns)]
        /\ toSync \in Seq(Turns)
    BY <1>1 DEF Init
  <2>2. 0 \in 0..MaxTurns /\ 0 \in 0..(2 * MaxTurns)
    BY TurnConstants DEF TurnConstants
  <2> QED  BY <2>1, <2>2 DEF Init, TypeOK
<1>3. TurnsNumbered /\ Bounded /\ Placed
  BY <1>1 DEF Init, TurnsNumbered, Bounded, Placed
<1> QED  BY <1>2, <1>3 DEF Numbered

(* What the counter's bound needs. *)
LEMMA NumberedFacts ==
  ASSUME Numbered
  PROVE  /\ session \in Sessions /\ begun \in 0..MaxTurns /\ MaxTurns \in Nat
         /\ toSync \in Seq(Turns) /\ Len(toSync) \in Nat
         /\ \A s \in Sessions : /\ convo[s] \in Seq(Turns) /\ Len(convo[s]) \in 0..begun
                                /\ chunks[s] \in Seq(Turns) /\ Len(chunks[s]) \in Nat
                                /\ Len(chunks[s]) <= 2 * MaxTurns
         /\ turn = Len(convo[session]) /\ turn \in 0..begun
<1>1. /\ session \in Sessions /\ begun \in 0..MaxTurns /\ MaxTurns \in Nat
      /\ toSync \in Seq(Turns)
      /\ \A s \in Sessions : convo[s] \in Seq(Turns) /\ chunks[s] \in Seq(Turns)
  BY TurnConstants DEF Numbered, TypeOK, TurnConstants
<1>2. Len(toSync) \in Nat
  BY <1>1, LenProperties
<1>3. \A s \in Sessions : Len(convo[s]) \in Nat /\ Len(chunks[s]) \in Nat
  BY <1>1, LenProperties
<1>4. ASSUME NEW s \in Sessions
      PROVE  Len(convo[s]) \in 0..begun /\ Len(chunks[s]) <= 2 * MaxTurns
  <2> DEFINE c == Len(chunks[s])
             t == Len(toSync)
             v == Len(convo[s])
  <2>1. c \in Nat /\ t \in Nat /\ v \in Nat
    BY <1>2, <1>3
  <2>2. v <= begun /\ c + 2 * t <= 2 * begun
    BY DEF Numbered, Bounded
  <2>3. begun \in 0..MaxTurns /\ MaxTurns \in Nat
    BY <1>1
  <2> HIDE DEF c, t, v
  <2>4. v \in 0..begun /\ c <= 2 * MaxTurns
    BY <2>1, <2>2, <2>3
  <2> QED  BY <2>4 DEF c, v
<1>5. turn = Len(convo[session])
  BY <1>1 DEF Numbered, TurnsNumbered
<1> QED  BY <1>1, <1>2, <1>3, <1>4, <1>5

LEMMA StartNumbered == Numbered /\ StartTurn => Numbered'
<1> SUFFICES ASSUME Numbered, StartTurn PROVE Numbered'
    OBVIOUS
<1> DEFINE x == begun + 1
<1>1. x \in Turns /\ x \in 1..MaxTurns
  BY NumberedFacts DEF StartTurn, Turns
<1>2. /\ convo' = [convo EXCEPT ![session] = Append(convo[session], x)]
      /\ number' = [number EXCEPT ![x] = turn + 1]
      /\ home' = [home EXCEPT ![x] = session]
      /\ saved' = [saved EXCEPT ![session] = turn + 1]
      /\ turn' = turn + 1 /\ begun' = x /\ talking' = TRUE
      /\ session' = session /\ toSync' = toSync /\ chunks' = chunks
      /\ talking = FALSE
  BY DEF StartTurn, Numbered, TypeOK
<1> HIDE DEF x
<1>a. convo[session] \in Seq(Turns) /\ Len(convo[session]) = turn
  BY NumberedFacts
<1>3. /\ Append(convo[session], x) \in Seq(Turns)
      /\ Append(convo[session], x) # <<>>
      /\ Len(Append(convo[session], x)) = turn + 1
      /\ \A k \in 1..turn : Append(convo[session], x)[k] = convo[session][k]
      /\ Append(convo[session], x)[turn + 1] = x
  BY <1>1, <1>a, AppendFacts
<1>4. convo'[session] = Append(convo[session], x)
  BY <1>2, NumberedFacts DEF Numbered, TypeOK
<1>5. \A s \in Sessions : s # session => convo'[s] = convo[s]
  BY <1>2 DEF Numbered, TypeOK
<1>6. TypeOK'
  <2>1. turn + 1 \in 0..MaxTurns
    BY NumberedFacts DEF StartTurn
  <2>2. /\ convo' \in [Sessions -> Seq(Turns)]
        /\ number' \in [Turns -> 0..MaxTurns]
        /\ saved' \in [Sessions -> 0..MaxTurns]
        /\ home' \in [Turns -> Sessions]
    BY <1>2, <1>3, <2>1 DEF Numbered, TypeOK
  <2>3. UNCHANGED <<jobs, rows, restored>>
    BY DEF StartTurn
  <2> QED  BY <1>1, <1>2, <2>1, <2>2, <2>3 DEF Numbered, TypeOK, rows, Turns
<1>7. TurnsNumbered'
  <2>1. turn' = saved'[session']
    BY <1>2, NumberedFacts DEF Numbered, TypeOK
  <2>2. ASSUME NEW s \in Sessions
        PROVE  /\ saved'[s] = Len(convo'[s])
               /\ \A k \in 1..Len(convo'[s]) : number'[convo'[s][k]] = k
    <3>1. \A y \in 1..begun : number'[y] = number[y]
      BY <1>2, NumberedFacts DEF Numbered, TypeOK, x, Turns
    <3>2. number'[x] = turn + 1
      BY <1>1, <1>2 DEF Numbered, TypeOK
    <3>3. \A k \in 1..Len(convo[s]) : number'[convo[s][k]] = k
      BY <3>1 DEF Numbered, Placed, TurnsNumbered
    <3>4. CASE s = session
      <4>1. \A k \in 1..turn : number'[convo'[s][k]] = k
        BY <1>3, <1>4, <3>3, <3>4, NumberedFacts
      <4>2. number'[convo'[s][turn + 1]] = turn + 1
        BY <1>3, <1>4, <3>2, <3>4
      <4>3. saved'[s] = turn + 1
        BY <1>2, <3>4 DEF Numbered, TypeOK
      <4>4. turn \in Nat
        BY NumberedFacts
      <4>5. Len(convo'[s]) = turn + 1
        BY <1>3, <1>4, <3>4
      <4>6. \A k \in 1..(turn + 1) : k \in 1..turn \/ k = turn + 1
        BY <4>4
      <4> QED  BY <4>1, <4>2, <4>3, <4>5, <4>6
    <3>5. CASE s # session
      BY <1>2, <1>5, <3>3, <3>5 DEF Numbered, TypeOK, TurnsNumbered
    <3> QED  BY <3>4, <3>5
  <2> QED  BY <2>1, <2>2 DEF TurnsNumbered
<1>8. Bounded'
  <2>1. ASSUME NEW s \in Sessions PROVE Len(convo'[s]) <= x
    <3>1. Len(convo[s]) \in 0..begun /\ turn \in 0..begun /\ begun \in Nat
      BY NumberedFacts
    <3>2. Len(convo[s]) <= x /\ turn + 1 <= x
      BY <3>1 DEF x
    <3> QED  BY <1>3, <1>4, <1>5, <3>2
  <2>2. ASSUME NEW s \in Sessions
        PROVE  Len(chunks[s]) + 2 * Len(toSync) + 2 <= 2 * x
    <3> DEFINE c == Len(chunks[s])
               t == Len(toSync)
    <3>1. c \in Nat /\ t \in Nat /\ begun \in Nat
      BY NumberedFacts
    <3>2. c + 2 * t <= 2 * begun
      BY DEF Numbered, Bounded
    <3> HIDE DEF c, t
    <3>3. c + 2 * t + 2 <= 2 * x
      BY <3>1, <3>2 DEF x
    <3> QED  BY <3>3 DEF c, t
  <2>3. ASSUME NEW s \in Sessions
        PROVE  Len(chunks[s]) + 2 * Len(toSync) <= 2 * x
    <3> DEFINE c == Len(chunks[s])
               t == Len(toSync)
    <3>1. c \in Nat /\ t \in Nat /\ x \in Int
      BY <1>1, NumberedFacts
    <3>2. c + 2 * t + 2 <= 2 * x
      BY <2>2
    <3> HIDE DEF c, t
    <3>3. c + 2 * t <= 2 * x
      BY <3>1, <3>2
    <3> QED  BY <3>3 DEF c, t
  <2> QED  BY <1>2, <2>1, <2>2, <2>3 DEF Bounded
<1>9. Placed'
  <2>1. ASSUME NEW s \in Sessions, NEW k \in 1..Len(convo[s])
        PROVE  convo[s][k] \in 1..x /\ home'[convo[s][k]] = s
    <3>1. convo[s][k] \in 1..begun /\ home[convo[s][k]] = s
      BY DEF Numbered, Placed
    <3>2. \A y \in 1..begun : y \in 1..x /\ y \in Turns /\ y # x
      BY NumberedFacts DEF x, Turns
    <3> QED  BY <1>2, <3>1, <3>2 DEF Numbered, TypeOK
  <2>2. x \in 1..x /\ home'[x] = session
    BY <1>1, <1>2 DEF Numbered, TypeOK
  <2>3. ASSUME NEW s \in Sessions, NEW k \in 1..Len(convo'[s])
        PROVE  convo'[s][k] \in 1..x /\ home'[convo'[s][k]] = s
    <3>1. CASE s = session /\ k = turn + 1
      BY <1>3, <1>4, <2>2, <3>1
    <3>2. CASE s = session /\ k # turn + 1
      <4>1. turn \in Nat /\ turn = Len(convo[session])
        BY NumberedFacts
      <4>2. k \in 1..(turn + 1)
        BY <1>3, <1>4, <3>2
      <4>3. k \in 1..turn
        BY <3>2, <4>1, <4>2
      <4>4. convo'[s][k] = convo[session][k]
        BY <1>3, <1>4, <3>2, <4>3
      <4> QED  BY <1>a, <2>1, <3>2, <4>1, <4>3, <4>4
    <3>3. CASE s # session
      BY <1>5, <2>1, <3>3
    <3> QED  BY <3>1, <3>2, <3>3
  <2> QED  BY <1>2, <1>3, <1>4, <2>3 DEF Placed
<1> QED  BY <1>6, <1>7, <1>8, <1>9 DEF Numbered

(* A step that leaves the conversation and the counter alone. *)
LEMMA KeptNumbered ==
  ASSUME Numbered, TypeOK', UNCHANGED <<host, provider, number>>
  PROVE  Numbered'
  BY DEF Numbered, TurnsNumbered, Bounded, Placed, host, provider

(* What a step that adds a memory does to the table. *)
LEMMA AddType ==
  ASSUME TypeOK, NEW r \in Rows, NEW st \in {"pending", "active"},
         NEW n \in 0..(2 * MaxTurns), NEW who \in Origins, NEW x \in Turns, Add(r, st, n, who, x)
  PROVE  /\ status' \in [Rows -> {"none", "pending", "active", "retracted"}]
         /\ stamp' \in [Rows -> 0..(2 * MaxTurns)]
         /\ origin' \in [Rows -> Origins \cup {"none"}]
         /\ of' \in [Rows -> 0..MaxTurns]
<1>1. x \in 0..MaxTurns
  BY TurnConstants DEF TurnConstants, Turns
<1> QED  BY <1>1 DEF Add, TypeOK

LEMMA EndNumbered == Numbered /\ EndTurn => Numbered'
<1> SUFFICES ASSUME Numbered, EndTurn PROVE Numbered'
    OBVIOUS
<1>1. /\ session' = session /\ begun' = begun /\ home' = home /\ convo' = convo
      /\ turn' = turn /\ saved' = saved /\ chunks' = chunks /\ number' = number
      /\ talking /\ talking' = FALSE
      /\ toSync' = Append(toSync, Last(convo[session]))
  BY DEF EndTurn, provider
<1>2. Last(convo[session]) \in Turns
  BY <1>1, NumberedFacts, FrontFacts DEF Numbered, Placed
<1>3. toSync' \in Seq(Turns) /\ Len(toSync') = Len(toSync) + 1
  BY <1>1, <1>2, NumberedFacts, AppendFacts
<1>4. TypeOK'
  BY <1>1, <1>3 DEF EndTurn, Numbered, TypeOK, rows
<1>5. Bounded'
  <2>1. ASSUME NEW s \in Sessions
        PROVE  Len(chunks[s]) + 2 * Len(toSync') <= 2 * begun
    <3> DEFINE c == Len(chunks[s])
               t == Len(toSync)
    <3>1. c \in Nat /\ t \in Nat /\ begun \in Nat
      BY NumberedFacts
    <3>2. c + 2 * t + 2 <= 2 * begun
      BY <1>1 DEF Numbered, Bounded
    <3> HIDE DEF c, t
    <3>3. c + 2 * (t + 1) <= 2 * begun
      BY <3>1, <3>2
    <3> QED  BY <1>3, <3>3 DEF c, t
  <2> QED  BY <1>1, <2>1 DEF Numbered, Bounded
<1>6. TurnsNumbered' /\ Placed'
  BY <1>1 DEF Numbered, TurnsNumbered, Placed
<1> QED  BY <1>4, <1>5, <1>6 DEF Numbered

LEMMA UndoNumbered == Numbered /\ Undo => Numbered'
<1> SUFFICES ASSUME Numbered, Undo PROVE Numbered'
    OBVIOUS
<1>1. /\ convo[session] \in Seq(Turns) /\ convo[session] # <<>>
      /\ Len(convo[session]) = turn
      /\ turn \in 0..begun /\ begun \in 0..MaxTurns /\ MaxTurns \in Nat
      /\ session \in Sessions
  BY NumberedFacts DEF Undo
<1>2. /\ turn > 0
      /\ Front(convo[session]) \in Seq(Turns)
      /\ Len(Front(convo[session])) = turn - 1
      /\ \A k \in 1..(turn - 1) : Front(convo[session])[k] = convo[session][k]
  BY <1>1, FrontFacts
<1>3. /\ convo' = [convo EXCEPT ![session] = Front(convo[session])]
      /\ jobs' = jobs \cup {[session |-> session, from |-> turn, asked |-> begun]}
      /\ turn' = turn - 1
      /\ saved' = [saved EXCEPT ![session] = turn - 1]
      /\ ~talking
      /\ UNCHANGED <<session, talking, begun, home, toSync, chunks, rows, number, restored>>
  BY <1>1, <1>2 DEF Undo
<1>4. convo'[session] = Front(convo[session])
  BY <1>1, <1>3 DEF Numbered, TypeOK
<1>5. \A s \in Sessions : s # session => convo'[s] = convo[s]
  BY <1>3 DEF Numbered, TypeOK
<1>6. TypeOK'
  <2>1. turn - 1 \in 0..MaxTurns /\ turn \in Turns /\ begun \in 0..MaxTurns
    BY <1>1, <1>2 DEF Turns
  <2>2. convo' \in [Sessions -> Seq(Turns)] /\ saved' \in [Sessions -> 0..MaxTurns]
    BY <1>2, <1>3, <2>1 DEF Numbered, TypeOK
  <2>3. jobs' \subseteq [session : Sessions, from : Turns, asked : 0..MaxTurns]
    BY <1>1, <1>3, <2>1 DEF Numbered, TypeOK
  <2> QED  BY <1>3, <2>1, <2>2, <2>3 DEF Numbered, TypeOK, rows
<1>7. TurnsNumbered'
  <2>1. turn' = saved'[session']
    BY <1>1, <1>3 DEF Numbered, TypeOK
  <2>2. ASSUME NEW s \in Sessions
        PROVE  /\ saved'[s] = Len(convo'[s])
               /\ \A k \in 1..Len(convo'[s]) : number'[convo'[s][k]] = k
    <3>1. \A k \in 1..Len(convo[s]) : number[convo[s][k]] = k
      BY DEF Numbered, TurnsNumbered
    <3>2. CASE s = session
      <4>1. saved'[s] = turn - 1
        BY <1>3, <3>2 DEF Numbered, TypeOK
      <4>2. \A k \in 1..(turn - 1) : number[convo'[s][k]] = k
        BY <1>1, <1>2, <1>4, <3>1, <3>2
      <4> QED  BY <1>2, <1>3, <1>4, <3>2, <4>1, <4>2
    <3>3. CASE s # session
      BY <1>3, <1>5, <3>1, <3>3 DEF Numbered, TypeOK, TurnsNumbered
    <3> QED  BY <3>2, <3>3
  <2> QED  BY <2>1, <2>2 DEF TurnsNumbered
<1>8. Bounded'
  <2>1. ASSUME NEW s \in Sessions PROVE Len(convo'[s]) <= begun
    <3>1. turn \in 0..begun /\ begun \in Int
      BY <1>1
    <3>2. turn - 1 <= begun
      BY <3>1
    <3>3. Len(convo[s]) <= begun
      BY DEF Numbered, Bounded
    <3> QED  BY <1>2, <1>4, <1>5, <3>2, <3>3
  <2> QED  BY <1>3, <2>1 DEF Numbered, Bounded
<1>9. Placed'
  <2>1. ASSUME NEW s \in Sessions, NEW k \in 1..Len(convo'[s])
        PROVE  convo'[s][k] \in 1..begun /\ home[convo'[s][k]] = s
    <3>1. \A i \in 1..Len(convo[s]) : convo[s][i] \in 1..begun /\ home[convo[s][i]] = s
      BY DEF Numbered, Placed
    <3>2. CASE s = session
      <4>1. k \in 1..(turn - 1) /\ k \in 1..turn
        BY <1>1, <1>2, <1>4, <3>2
      <4>2. convo'[s][k] = convo[session][k]
        BY <1>2, <1>4, <3>2, <4>1
      <4> QED  BY <1>1, <3>1, <3>2, <4>1, <4>2
    <3>3. CASE s # session
      BY <1>5, <3>1, <3>3
    <3> QED  BY <3>2, <3>3
  <2> QED  BY <1>3, <2>1 DEF Placed
<1> QED  BY <1>6, <1>7, <1>8, <1>9 DEF Numbered

LEMMA SwitchNumbered == ASSUME NEW s \in Sessions PROVE Numbered /\ Switch(s) => Numbered'
<1> SUFFICES ASSUME Numbered, Switch(s) PROVE Numbered'
    OBVIOUS
<1>1. TypeOK'
  BY DEF Switch, Numbered, TypeOK, rows
<1>2. TurnsNumbered' /\ Bounded' /\ Placed'
  BY DEF Switch, Numbered, TurnsNumbered, Bounded, Placed
<1> QED  BY <1>1, <1>2 DEF Numbered

LEMMA RestartNumbered == Numbered /\ Restart => Numbered'
<1> SUFFICES ASSUME Numbered, Restart PROVE Numbered'
    OBVIOUS
<1>1. <<>> \in Seq(Turns) /\ Len(<<>>) = 0
  OBVIOUS
<1>2. TypeOK'
  BY <1>1 DEF Restart, Numbered, TypeOK, rows
<1>3. TurnsNumbered' /\ Placed'
  BY DEF Restart, Numbered, TurnsNumbered, Placed
<1>4. Bounded'
  <2>1. ASSUME NEW s \in Sessions
        PROVE  Len(chunks[s]) + 2 * Len(toSync') <= 2 * begun
    <3> DEFINE c == Len(chunks[s])
               t == Len(toSync)
    <3>1. c \in Nat /\ t \in Nat /\ begun \in Nat
      BY NumberedFacts
    <3>2. c + 2 * t <= 2 * begun
      BY DEF Numbered, Bounded
    <3>3. Len(toSync') = 0
      BY <1>1 DEF Restart
    <3> HIDE DEF c, t
    <3>4. c + 2 * 0 <= 2 * begun
      BY <3>1, <3>2
    <3> QED  BY <3>3, <3>4 DEF c
  <2> QED  BY <2>1 DEF Restart, Numbered, Bounded
<1> QED  BY <1>2, <1>3, <1>4 DEF Numbered

LEMMA SyncNumbered == Numbered /\ SyncTurn => Numbered'
<1> SUFFICES ASSUME Numbered, SyncTurn PROVE Numbered'
    OBVIOUS
<1> DEFINE x == Head(toSync)
<1>1. /\ x \in Turns /\ Tail(toSync) \in Seq(Turns)
      /\ Len(toSync) \in Nat /\ Len(Tail(toSync)) = Len(toSync) - 1
  BY NumberedFacts, HeadFacts DEF SyncTurn
<1>2. /\ toSync' = Tail(toSync)
      /\ chunks' = [chunks EXCEPT ![session] = chunks[session] \o <<x, x>>]
      /\ \/ UNCHANGED rows
         \/ "auto" \in Origins /\ \E r \in Rows : Add(r, "pending", turn, "auto", x)
      /\ UNCHANGED <<session, talking, begun, home, convo, turn, saved, jobs, number, restored>>
  BY DEF SyncTurn
<1> HIDE DEF x
<1>3. /\ chunks[session] \o <<x, x>> \in Seq(Turns)
      /\ Len(chunks[session] \o <<x, x>>) = Len(chunks[session]) + 2
  BY <1>1, NumberedFacts, PairFacts
<1>4. chunks'[session] = chunks[session] \o <<x, x>>
  BY <1>2, NumberedFacts DEF Numbered, TypeOK
<1>5. \A s \in Sessions : s # session => chunks'[s] = chunks[s]
  BY <1>2 DEF Numbered, TypeOK
<1>6. TypeOK'
  <2>1. turn \in 0..(2 * MaxTurns)
    BY NumberedFacts
  <2>2. /\ status' \in [Rows -> {"none", "pending", "active", "retracted"}]
        /\ stamp' \in [Rows -> 0..(2 * MaxTurns)]
        /\ origin' \in [Rows -> Origins \cup {"none"}]
        /\ of' \in [Rows -> 0..MaxTurns]
    <3>1. CASE UNCHANGED rows
      BY <3>1 DEF Numbered, TypeOK, rows
    <3>2. ASSUME NEW r \in Rows, "auto" \in Origins, Add(r, "pending", turn, "auto", x)
          PROVE  <2>2!:
      BY <1>1, <2>1, <3>2, AddType DEF Numbered
    <3> QED  BY <1>2, <3>1, <3>2
  <2>3. chunks' \in [Sessions -> Seq(Turns)]
    BY <1>2, <1>3 DEF Numbered, TypeOK
  <2> QED  BY <1>1, <1>2, <2>2, <2>3 DEF Numbered, TypeOK
<1>7. TurnsNumbered' /\ Placed'
  BY <1>2 DEF Numbered, TurnsNumbered, Placed
<1>8. Bounded'
  <2>1. ASSUME NEW s \in Sessions
        PROVE  /\ Len(chunks'[s]) + 2 * Len(toSync') <= 2 * begun
               /\ talking => Len(chunks'[s]) + 2 * Len(toSync') + 2 <= 2 * begun
    <3> DEFINE c == Len(chunks[s])
               d == Len(chunks'[s])
               t == Len(toSync)
               u == Len(toSync')
    <3>1. c \in Nat /\ t \in Nat /\ begun \in Nat
      BY NumberedFacts
    <3>2. /\ c + 2 * t <= 2 * begun
          /\ talking => c + 2 * t + 2 <= 2 * begun
      BY DEF Numbered, Bounded
    <3>3. u = t - 1
      BY <1>1, <1>2
    <3>4. d = c \/ d = c + 2
      BY <1>3, <1>4, <1>5
    <3> HIDE DEF c, d, t, u
    <3>5. d + 2 * u <= 2 * begun /\ (talking => d + 2 * u + 2 <= 2 * begun)
      BY <3>1, <3>2, <3>3, <3>4
    <3> QED  BY <3>5 DEF d, u
  <2> QED  BY <1>2, <2>1 DEF Numbered, Bounded
<1> QED  BY <1>6, <1>7, <1>8 DEF Numbered

LEMMA RowsNumbered ==
  ASSUME Numbered,
         \/ \E r \in Rows : Remember(r) \/ Promote(r) \/ Restore(r)
         \/ \E r \in Rows, s \in Sessions : \E q \in 1..Len(chunks[s]) : Extract(r, s, q)
         \/ \E j \in jobs, reported \in BOOLEAN : Retract(j, reported)
  PROVE  Numbered'
<1> USE DEF rows
<1>1. ASSUME NEW r \in Rows, Remember(r) PROVE Numbered'
  <2>1. Last(convo[session]) \in Turns
    BY <1>1, NumberedFacts, FrontFacts DEF Remember, Numbered, Placed
  <2>2. turn \in 0..(2 * MaxTurns)
    BY NumberedFacts
  <2>3. TypeOK'
    BY <1>1, <2>1, <2>2, AddType DEF Remember, Numbered, TypeOK, host, provider
  <2> QED  BY <1>1, <2>3, KeptNumbered DEF Remember
<1>2. ASSUME NEW r \in Rows, Promote(r) PROVE Numbered'
  <2>1. TypeOK'
    BY <1>2 DEF Promote, Numbered, TypeOK, host, provider
  <2> QED  BY <1>2, <2>1, KeptNumbered DEF Promote
<1>3. ASSUME NEW r \in Rows, Restore(r) PROVE Numbered'
  <2>1. TypeOK'
    BY <1>3 DEF Restore, Numbered, TypeOK, host, provider
  <2> QED  BY <1>3, <2>1, KeptNumbered DEF Restore
<1>4. ASSUME NEW r \in Rows, NEW s \in Sessions, NEW q \in 1..Len(chunks[s]), Extract(r, s, q)
      PROVE  Numbered'
  <2>1. chunks[s][q] \in Turns
    BY NumberedFacts, ElementOfSeq
  <2>2. q \in 0..(2 * MaxTurns)
    <3>1. Len(chunks[s]) \in Nat /\ Len(chunks[s]) <= 2 * MaxTurns /\ MaxTurns \in Nat
      BY NumberedFacts
    <3> QED  BY <3>1
  <2>3. TypeOK'
    BY <1>4, <2>1, <2>2, AddType DEF Extract, Numbered, TypeOK, host, provider
  <2> QED  BY <1>4, <2>3, KeptNumbered DEF Extract
<1>5. ASSUME NEW j \in jobs, NEW reported \in BOOLEAN, Retract(j, reported) PROVE Numbered'
  <2>1. TypeOK'
    BY <1>5 DEF Retract, Numbered, TypeOK, host, provider
  <2> QED  BY <1>5, <2>1, KeptNumbered DEF Retract
<1> QED  BY <1>1, <1>2, <1>3, <1>4, <1>5

LEMMA NumberedNext == Numbered /\ [Next]_vars => Numbered'
<1> SUFFICES ASSUME Numbered, [Next]_vars PROVE Numbered'
    OBVIOUS
<1>1. CASE UNCHANGED vars
  BY <1>1 DEF vars, Numbered, TypeOK, TurnsNumbered, Bounded, Placed
<1>2. CASE Next
  BY <1>2, StartNumbered, EndNumbered, UndoNumbered, SwitchNumbered, RestartNumbered,
     SyncNumbered, RowsNumbered
     DEF Next
<1> QED  BY <1>1, <1>2

(* Every reachable state is well typed. *)
THEOREM RetractionTypes == Spec => []TypeOK
<1>1. Numbered => TypeOK
  BY DEF Numbered
<1> QED  BY <1>1, NumberedInit, NumberedNext, PTL DEF Spec

(* The counter, in memory and in meta, is the length of the conversation,  *)
(* and an exchange that stands was given its position in it: whatever the  *)
(* order of turns, undos, session switches and restarts, _bump_turn_index, *)
(* _handle_rewind and _restore_turn_index agree on the numbers. *)
THEOREM CounterFollows == Spec => []TurnsNumbered
<1>1. Numbered => TurnsNumbered
  BY DEF Numbered
<1> QED  BY <1>1, NumberedInit, NumberedNext, PTL DEF Spec

-----------------------------------------------------------------------------
(* The retraction.                                                         *)

RetractionInv == Numbered /\ Aimed /\ Stamped /\ Unwritten /\ LeftoversCovered

LEMMA RetractionInit == Init => RetractionInv
<1> SUFFICES ASSUME Init PROVE RetractionInv
    OBVIOUS
<1>1. Aimed /\ Stamped /\ Unwritten /\ LeftoversCovered
  BY DEF Init, Aimed, Stamped, Unwritten, LeftoversCovered, Leftover
<1> QED  BY <1>1, NumberedInit DEF RetractionInv

(* The exchanges a job must not reach. *)
LEMMA AimedNext == RetractionInv /\ [Next]_vars => Aimed'
<1> SUFFICES ASSUME RetractionInv, [Next]_vars PROVE Aimed'
    OBVIOUS
<1>1. Numbered /\ Aimed
  BY DEF RetractionInv
<1>2. jobs \subseteq [session : Sessions, from : Turns, asked : 0..MaxTurns]
  BY <1>1 DEF Numbered, TypeOK
<1>3. CASE StartTurn
  <2> DEFINE x == begun + 1
  <2>1. /\ convo' = [convo EXCEPT ![session] = Append(convo[session], x)]
        /\ begun' = x /\ jobs' = jobs
    BY <1>3 DEF StartTurn
  <2>2. x \in Turns /\ x \in Int /\ \A j \in jobs : j.asked \in Int /\ j.asked < x
    <3>1. begun \in 0..MaxTurns /\ begun < MaxTurns /\ MaxTurns \in Nat
      BY <1>1, <1>3, NumberedFacts DEF StartTurn
    <3>2. \A j \in jobs : j.asked \in Int /\ j.asked <= begun
      BY <1>1, <1>2 DEF Aimed
    <3> QED  BY <3>1, <3>2 DEF Turns
  <2> HIDE DEF x
  <2>3. /\ Len(Append(convo[session], x)) = turn + 1 /\ turn \in Nat
        /\ Len(convo[session]) = turn
        /\ \A k \in 1..turn : Append(convo[session], x)[k] = convo[session][k]
        /\ Append(convo[session], x)[turn + 1] = x
    <3>1. convo[session] \in Seq(Turns) /\ Len(convo[session]) = turn /\ turn \in Nat
      BY <1>1, NumberedFacts
    <3> QED  BY <2>2, <3>1, AppendFacts
  <2>4. ASSUME NEW j \in jobs, NEW k \in 1..Len(convo'[j.session]),
               convo'[j.session][k] <= j.asked
        PROVE  k < j.from
    <3>1. \A i \in 1..Len(convo[j.session]) : convo[j.session][i] <= j.asked => i < j.from
      BY <1>1 DEF Aimed
    <3>2. CASE j.session = session
      <4>1. convo'[j.session] = Append(convo[session], x)
        BY <1>1, <2>1, <3>2, NumberedFacts DEF Numbered, TypeOK
      <4>2. k # turn + 1
        <5>1. j.asked \in Int /\ j.asked < x /\ x \in Int
          BY <2>2
        <5>2. ~(x <= j.asked)
          BY <5>1
        <5> QED  BY <2>3, <2>4, <4>1, <5>2
      <4>3. k \in 1..turn
        BY <2>3, <4>1, <4>2
      <4> QED  BY <2>3, <2>4, <3>1, <3>2, <4>1, <4>3
    <3>3. CASE j.session # session
      <4>1. convo'[j.session] = convo[j.session]
        BY <1>1, <1>2, <2>1, <3>3 DEF Numbered, TypeOK
      <4> QED  BY <2>4, <3>1, <4>1
    <3> QED  BY <3>2, <3>3
  <2>5. \A j \in jobs : j.asked <= x
    BY <2>2 DEF x
  <2> QED  BY <2>1, <2>4, <2>5 DEF Aimed
<1>4. CASE Undo
  <2>1. /\ convo[session] \in Seq(Turns) /\ convo[session] # <<>> /\ session \in Sessions
        /\ Len(convo[session]) = turn /\ turn \in Nat
        /\ convo' = [convo EXCEPT ![session] = Front(convo[session])]
    BY <1>1, <1>4, NumberedFacts DEF Undo
  <2>2. /\ turn > 0 /\ Len(Front(convo[session])) = turn - 1
        /\ \A k \in 1..(turn - 1) : Front(convo[session])[k] = convo[session][k]
    BY <2>1, FrontFacts
  <2>3. jobs' = jobs \cup {[session |-> session, from |-> turn, asked |-> begun]} /\ begun' = begun
    BY <1>4, <2>2 DEF Undo
  <2>4. convo'[session] = Front(convo[session])
    BY <1>1, <2>1 DEF Numbered, TypeOK
  <2>5. ASSUME NEW j \in jobs, NEW k \in 1..Len(convo'[j.session]),
               convo'[j.session][k] <= j.asked
        PROVE  k < j.from
    <3>1. \A i \in 1..Len(convo[j.session]) : convo[j.session][i] <= j.asked => i < j.from
      BY <1>1 DEF Aimed
    <3>2. CASE j.session = session
      <4>1. k \in 1..(turn - 1) /\ k \in 1..turn
        BY <2>1, <2>2, <2>4, <3>2
      <4> QED  BY <2>1, <2>2, <2>4, <2>5, <3>1, <3>2, <4>1
    <3>3. CASE j.session # session
      <4>1. convo'[j.session] = convo[j.session]
        BY <1>1, <1>2, <2>1, <3>3 DEF Numbered, TypeOK
      <4> QED  BY <2>5, <3>1, <4>1
    <3> QED  BY <3>2, <3>3
  <2>6. \A k \in 1..Len(convo'[session]) : k < turn
    BY <2>1, <2>2, <2>4
  <2>7. begun <= begun /\ \A j \in jobs : j.asked <= begun
    BY <1>1, NumberedFacts DEF Aimed
  <2> QED  BY <2>3, <2>5, <2>6, <2>7 DEF Aimed
<1>5. ASSUME convo' = convo, begun' = begun, jobs' \subseteq jobs PROVE Aimed'
  BY <1>1, <1>5 DEF Aimed
<1>6. ASSUME ~StartTurn, ~Undo
      PROVE  convo' = convo /\ begun' = begun /\ jobs' \subseteq jobs
  BY <1>6 DEF Next, EndTurn, Restart, SyncTurn, Switch, Remember, Promote, Restore, Extract,
              Retract, vars, host
<1> QED  BY <1>3, <1>4, <1>5, <1>6

(* The tool's rows. *)
LEMMA StampedNext == RetractionInv /\ [Next]_vars => Stamped' /\ Unwritten'
<1> SUFFICES ASSUME RetractionInv, [Next]_vars PROVE Stamped' /\ Unwritten'
    OBVIOUS
<1> USE DEF rows, host, provider
<1>1. Numbered /\ Stamped /\ Unwritten
  BY DEF RetractionInv
<1>2. ASSUME NEW r \in Rows, Remember(r) PROVE Stamped' /\ Unwritten'
  <2> DEFINE x == Last(convo[session])
  <2>1. /\ convo[session] \in Seq(Turns) /\ convo[session] # <<>> /\ session \in Sessions
        /\ Len(convo[session]) = turn /\ turn \in Nat
    BY <1>1, <1>2, NumberedFacts DEF Remember, Numbered, Placed
  <2>2. turn > 0 /\ turn \in 1..Len(convo[session]) /\ x = convo[session][turn]
    BY <2>1, FrontFacts DEF Last
  <2>3. number[x] = turn /\ x \in 1..begun
    BY <1>1, <2>1, <2>2 DEF Numbered, TurnsNumbered, Placed
  <2>4. Add(r, "active", turn, "tool", x) /\ UNCHANGED <<begun, number>>
    BY <1>2 DEF Remember
  <2> HIDE DEF x
  <2> QED  BY <1>1, <2>2, <2>3, <2>4 DEF Add, Stamped, Unwritten, Numbered, TypeOK
<1>3. ASSUME NEW r \in Rows, NEW n, NEW who, NEW x, who # "tool",
             Add(r, "pending", n, who, x), UNCHANGED <<begun, number>>
      PROVE  Stamped' /\ Unwritten'
  BY <1>1, <1>3 DEF Add, Stamped, Unwritten, Numbered, TypeOK
<1>4. CASE SyncTurn
  <2>1. CASE UNCHANGED rows
    BY <1>1, <1>4, <2>1 DEF SyncTurn, Stamped, Unwritten
  <2>2. ASSUME NEW r \in Rows, Add(r, "pending", turn, "auto", Head(toSync))
        PROVE  Stamped' /\ Unwritten'
    BY <1>3, <1>4, <2>2 DEF SyncTurn
  <2> QED  BY <1>4, <2>1, <2>2 DEF SyncTurn
<1>5. ASSUME NEW r \in Rows, NEW s \in Sessions, NEW q \in 1..Len(chunks[s]), Extract(r, s, q)
      PROVE  Stamped' /\ Unwritten'
  BY <1>3, <1>5 DEF Extract
<1>6. ASSUME NEW r \in Rows, Promote(r) \/ Restore(r) PROVE Stamped' /\ Unwritten'
  BY <1>1, <1>6 DEF Promote, Restore, Stamped, Unwritten, Numbered, TypeOK
<1>7. ASSUME NEW j \in jobs, NEW reported \in BOOLEAN, Retract(j, reported)
      PROVE  Stamped' /\ Unwritten'
  <2>1. \A r \in Rows : status'[r] = IF Reaches(j, r) THEN "retracted" ELSE status[r]
    BY <1>7 DEF Retract
  <2>2. UNCHANGED <<stamp, origin, of, number, begun>>
    BY <1>7 DEF Retract
  <2> QED  BY <1>1, <2>1, <2>2 DEF Stamped, Unwritten
<1>8. CASE StartTurn
  <2>1. ASSUME NEW y \in 1..begun PROVE number'[y] = number[y] /\ y \in 1..begun'
    <3>1. begun \in 0..MaxTurns /\ MaxTurns \in Nat
      BY <1>1, NumberedFacts
    <3>2. y # begun + 1 /\ y \in 1..(begun + 1) /\ y \in Turns
      BY <3>1 DEF Turns
    <3> QED  BY <1>1, <1>8, <3>2 DEF StartTurn, Numbered, TypeOK
  <2> QED  BY <1>1, <1>8, <2>1 DEF StartTurn, Stamped, Unwritten
<1>9. ASSUME UNCHANGED <<rows, begun, number>> PROVE Stamped' /\ Unwritten'
  BY <1>1, <1>9 DEF Stamped, Unwritten
<1>10. CASE UNCHANGED vars \/ EndTurn \/ Undo \/ Restart \/ \E s \in Sessions : Switch(s)
  BY <1>9, <1>10 DEF vars, EndTurn, Undo, Restart, Switch
<1> QED  BY <1>2, <1>4, <1>5, <1>6, <1>7, <1>8, <1>10 DEF Next

(* A row left over after a step was left over before it, unless the step   *)
(* undid its exchange. *)
LEMMA LeftoverBefore ==
  ASSUME RetractionInv, Next, NEW r \in Rows, Leftover(r)',
         of'[r] = of[r] /\ Stands(of[r]) => Stands(of[r])'
  PROVE  Leftover(r) /\ UNCHANGED <<of[r], stamp[r], home[of[r]]>>
<1> USE DEF rows, host, provider
<1>1. Numbered /\ Stamped /\ Unwritten
  BY DEF RetractionInv
<1>2. ASSUME UNCHANGED <<of[r], stamp[r], origin[r], status[r], home[of[r]], begun>>,
             restored \subseteq restored'
      PROVE  Leftover(r) /\ UNCHANGED <<of[r], stamp[r], home[of[r]]>>
  BY <1>2 DEF Leftover, Undone
<1>3. origin'[r] = "tool" /\ status'[r] = "active"
  BY DEF Leftover
<1>4. CASE StartTurn
  <2>1. UNCHANGED <<rows, restored>>
    BY <1>4 DEF StartTurn
  <2>2. of[r] \in 1..begun /\ begun \in 0..MaxTurns /\ MaxTurns \in Nat
    BY <1>1, <1>3, <2>1, NumberedFacts DEF Stamped
  <2>3. of[r] # begun + 1 /\ of[r] <= begun
    BY <2>2
  <2>4. home'[of[r]] = home[of[r]]
    BY <1>1, <1>4, <2>3 DEF StartTurn, Numbered, TypeOK
  <2> QED  BY <2>1, <2>3, <2>4 DEF Leftover, Undone
<1>5. CASE EndTurn \/ Undo \/ Restart \/ \E s \in Sessions : Switch(s)
  BY <1>2, <1>5 DEF EndTurn, Undo, Restart, Switch
<1>6. ASSUME NEW q \in Rows, NEW n, NEW x, NEW who, NEW st, Add(q, st, n, who, x),
             q # r \/ who # "tool", UNCHANGED <<home, begun, restored>>
      PROVE  Leftover(r) /\ UNCHANGED <<of[r], stamp[r], home[of[r]]>>
  <2>1. q # r
    BY <1>1, <1>3, <1>6 DEF Add, Numbered, TypeOK
  <2> QED  BY <1>1, <1>2, <1>6, <2>1 DEF Add, Numbered, TypeOK
<1>7. CASE SyncTurn
  <2>1. CASE UNCHANGED rows
    BY <1>2, <1>7, <2>1 DEF SyncTurn
  <2>2. ASSUME NEW q \in Rows, Add(q, "pending", turn, "auto", Head(toSync))
        PROVE  Leftover(r) /\ UNCHANGED <<of[r], stamp[r], home[of[r]]>>
    BY <1>6, <1>7, <2>2 DEF SyncTurn
  <2> QED  BY <1>7, <2>1, <2>2 DEF SyncTurn
<1>8. ASSUME NEW q \in Rows, Remember(q)
      PROVE  Leftover(r) /\ UNCHANGED <<of[r], stamp[r], home[of[r]]>>
  <2> DEFINE x == Last(convo[session])
  <2>1. Add(q, "active", turn, "tool", x)
    BY <1>8 DEF Remember
  <2>2. CASE q # r
    BY <1>6, <1>8, <2>1, <2>2 DEF Remember
  <2>3. CASE q = r
    <3>1. /\ convo[session] \in Seq(Turns) /\ convo[session] # <<>> /\ session \in Sessions
          /\ Len(convo[session]) = turn /\ turn \in Nat
      BY <1>1, <1>8, NumberedFacts DEF Remember, Numbered, Placed
    <3>2. turn \in 1..Len(convo[session]) /\ x = convo[session][turn]
      BY <3>1, FrontFacts DEF Last
    <3>3. home[x] = session
      BY <1>1, <3>1, <3>2 DEF Numbered, Placed
    <3>4. of'[r] = x /\ UNCHANGED <<home, convo, begun>>
      BY <1>1, <1>8, <2>1, <2>3 DEF Remember, Add, Numbered, TypeOK
    <3>5. Stands(of[r])'
      BY <3>2, <3>3, <3>4 DEF Stands
    <3> QED  BY <3>5 DEF Leftover, Undone
  <2> QED  BY <2>2, <2>3
<1>9. ASSUME NEW q \in Rows, NEW s \in Sessions, NEW k \in 1..Len(chunks[s]), Extract(q, s, k)
      PROVE  Leftover(r) /\ UNCHANGED <<of[r], stamp[r], home[of[r]]>>
  BY <1>6, <1>9 DEF Extract
<1>10. ASSUME NEW q \in Rows, Promote(q)
       PROVE  Leftover(r) /\ UNCHANGED <<of[r], stamp[r], home[of[r]]>>
  <2>1. UNCHANGED <<stamp, origin, of, home, begun, restored>>
    BY <1>10 DEF Promote
  <2>2. q # r
    BY <1>1, <1>3, <1>10, <2>1 DEF Promote, Stamped
  <2>3. status'[r] = status[r]
    BY <1>1, <1>10, <2>2 DEF Promote, Numbered, TypeOK
  <2> QED  BY <1>2, <2>1, <2>3
<1>11. ASSUME NEW q \in Rows, Restore(q)
       PROVE  Leftover(r) /\ UNCHANGED <<of[r], stamp[r], home[of[r]]>>
  <2>1. UNCHANGED <<stamp, origin, of, home, begun>> /\ restored' = restored \cup {q}
    BY <1>11 DEF Restore
  <2>2. q # r
    BY <2>1 DEF Leftover
  <2>3. status'[r] = status[r]
    BY <1>1, <1>11, <2>2 DEF Restore, Numbered, TypeOK
  <2> QED  BY <1>2, <2>1, <2>3
<1>12. ASSUME NEW j \in jobs, NEW reported \in BOOLEAN, Retract(j, reported)
       PROVE  Leftover(r) /\ UNCHANGED <<of[r], stamp[r], home[of[r]]>>
  <2>1. UNCHANGED <<stamp, origin, of, home, begun, restored>>
    BY <1>12 DEF Retract
  <2>2. status'[r] = status[r]
    BY <1>3, <1>12 DEF Retract
  <2> QED  BY <1>2, <2>1, <2>2
<1> QED  BY <1>4, <1>5, <1>7, <1>8, <1>9, <1>10, <1>11, <1>12 DEF Next

LEMMA CoveredNext == RetractionInv /\ [Next]_vars => LeftoversCovered'
<1> SUFFICES ASSUME RetractionInv, [Next]_vars PROVE LeftoversCovered'
    OBVIOUS
<1> USE DEF rows, host, provider
<1>1. Numbered /\ Stamped /\ LeftoversCovered
  BY DEF RetractionInv
<1>2. CASE UNCHANGED vars
  BY <1>1, <1>2 DEF vars, LeftoversCovered, Leftover, Undone, Stands, Reaches
<1>3. CASE Next
  <2> SUFFICES ASSUME NEW r \in Rows, Leftover(r)' PROVE \E j \in jobs' : Reaches(j, r)'
      BY DEF LeftoversCovered
  <2>1. status'[r] = "active"
    BY DEF Leftover
  (* The undo of its own exchange queues a job that starts at its number. *)
  <2>2. CASE Stands(of[r]) /\ ~Stands(of[r])' /\ Undo
    <3>1. /\ convo[session] \in Seq(Turns) /\ convo[session] # <<>> /\ session \in Sessions
          /\ Len(convo[session]) = turn /\ turn \in Nat
          /\ convo' = [convo EXCEPT ![session] = Front(convo[session])]
      BY <1>1, <2>2, NumberedFacts DEF Undo
    <3>2. /\ turn > 0 /\ Len(Front(convo[session])) = turn - 1
          /\ \A k \in 1..(turn - 1) : Front(convo[session])[k] = convo[session][k]
      BY <3>1, FrontFacts
    <3>3. convo'[session] = Front(convo[session])
      BY <1>1, <3>1 DEF Numbered, TypeOK
    <3>4. UNCHANGED <<rows, home>>
          /\ jobs' = jobs \cup {[session |-> session, from |-> turn, asked |-> begun]}
      BY <2>2, <3>2 DEF Undo
    <3>5. PICK k \in 1..Len(convo[home[of[r]]]) : convo[home[of[r]]][k] = of[r]
      BY <2>2 DEF Stands
    <3>6. home[of[r]] = session
      <4>1. SUFFICES ASSUME home[of[r]] # session PROVE FALSE
        OBVIOUS
      <4>2. convo'[home[of[r]]] = convo[home[of[r]]]
        BY <1>1, <3>1, <4>1 DEF Numbered, TypeOK
      <4> QED  BY <2>2, <3>4, <3>5, <4>2 DEF Stands
    <3>7. k = turn
      <4>1. SUFFICES ASSUME k # turn PROVE FALSE
        OBVIOUS
      <4>2. k \in 1..(turn - 1)
        BY <3>1, <3>5, <3>6, <4>1
      <4>3. k \in 1..Len(convo'[session]) /\ convo'[session][k] = of[r]
        BY <3>2, <3>3, <3>5, <3>6, <4>2
      <4> QED  BY <2>2, <3>4, <3>6, <4>3 DEF Stands
    <3>8. number[of[r]] = turn
      BY <1>1, <3>1, <3>5, <3>6, <3>7 DEF Numbered, TurnsNumbered
    <3>9. stamp[r] = turn /\ stamp[r] # 0
      BY <1>1, <3>4, <3>8 DEF Stamped, Leftover
    <3>10. PICK j \in jobs' : j.session = session /\ j.from = turn
      <4>1. [session |-> session, from |-> turn, asked |-> begun] \in jobs'
        BY <3>4
      <4> QED  BY <4>1
    <3>11. Reaches(j, r)'
      BY <2>1, <3>1, <3>4, <3>6, <3>9, <3>10 DEF Reaches
    <3> QED  BY <3>10, <3>11
  <2>3. CASE ~(Stands(of[r]) /\ ~Stands(of[r])' /\ Undo)
    <3>1. of'[r] = of[r] /\ Stands(of[r]) => Stands(of[r])'
      <4>1. SUFFICES ASSUME of'[r] = of[r], Stands(of[r]), ~Stands(of[r])', ~Undo PROVE FALSE
        BY <2>3
      <4>2. CASE StartTurn
        <5> DEFINE x == begun + 1
        <5>1. /\ convo' = [convo EXCEPT ![session] = Append(convo[session], x)]
              /\ home' = [home EXCEPT ![x] = session] /\ UNCHANGED rows
          BY <4>2 DEF StartTurn
        <5>2. x \in Turns /\ \A y \in 1..begun : y # x
          <6>1. begun \in 0..MaxTurns /\ begun < MaxTurns /\ MaxTurns \in Nat
            BY <1>1, <4>2, NumberedFacts DEF StartTurn
          <6> QED  BY <6>1 DEF Turns
        <5>3. of[r] \in 1..begun
          BY <1>1, <5>1 DEF Stamped, Leftover
        <5> HIDE DEF x
        <5>4. home'[of[r]] = home[of[r]]
          BY <1>1, <5>1, <5>2, <5>3 DEF Numbered, TypeOK
        <5>5. PICK k \in 1..Len(convo[home[of[r]]]) : convo[home[of[r]]][k] = of[r]
          BY <4>1 DEF Stands
        <5>6. CASE home[of[r]] = session
          <6>1. convo[session] \in Seq(Turns) /\ Len(convo[session]) \in Nat /\ session \in Sessions
            BY <1>1, NumberedFacts
          <6>2. /\ Len(Append(convo[session], x)) = Len(convo[session]) + 1
                /\ \A i \in 1..Len(convo[session]) : Append(convo[session], x)[i] = convo[session][i]
            BY <5>2, <6>1, AppendFacts
          <6>3. convo'[session] = Append(convo[session], x)
            BY <1>1, <5>1, <6>1 DEF Numbered, TypeOK
          <6>4. k \in 1..Len(convo'[session]) /\ convo'[session][k] = of[r]
            BY <5>5, <5>6, <6>1, <6>2, <6>3
          <6> QED  BY <4>1, <5>1, <5>4, <5>6, <6>4 DEF Stands
        <5>7. CASE home[of[r]] # session
          <6>1. convo'[home[of[r]]] = convo[home[of[r]]]
            BY <1>1, <5>1, <5>3, <5>7 DEF Numbered, TypeOK
          <6> QED  BY <4>1, <5>1, <5>4, <5>5, <6>1 DEF Stands
        <5> QED  BY <5>6, <5>7
      <4>3. CASE ~StartTurn
        <5>1. convo' = convo /\ home' = home
          BY <1>3, <4>1, <4>3 DEF Next, EndTurn, Restart, SyncTurn, Switch, Remember, Promote,
                                  Restore, Extract, Retract
        <5> QED  BY <4>1, <5>1 DEF Stands
      <4> QED  BY <4>2, <4>3
    <3>2. Leftover(r) /\ UNCHANGED <<of[r], stamp[r], home[of[r]]>>
      BY <1>3, <3>1, LeftoverBefore
    <3>3. PICK j \in jobs : Reaches(j, r)
      BY <1>1, <3>2 DEF LeftoversCovered
    <3>4. Reaches(j, r)'
      BY <2>1, <3>2, <3>3 DEF Reaches
    <3>5. j \in jobs'
      <4>1. ASSUME NEW i \in jobs, NEW reported \in BOOLEAN, Retract(i, reported)
            PROVE  j \in jobs'
        <5>1. status' = [q \in Rows |-> IF Reaches(i, q) THEN "retracted" ELSE status[q]]
          BY <4>1 DEF Retract
        <5>2. j # i
          BY <2>1, <3>3, <5>1
        <5> QED  BY <4>1, <5>2 DEF Retract
      <4> QED  BY <1>3, <4>1 DEF Next, StartTurn, EndTurn, Undo, Restart, SyncTurn, Switch,
                                 Remember, Promote, Restore, Extract
    <3> QED  BY <3>4, <3>5
  <2> QED  BY <2>2, <2>3
<1> QED  BY <1>2, <1>3

LEMMA RetractionNext == RetractionInv /\ [Next]_vars => RetractionInv'
<1> SUFFICES ASSUME RetractionInv, [Next]_vars PROVE RetractionInv'
    OBVIOUS
<1>1. Numbered'
  BY NumberedNext DEF RetractionInv
<1> QED  BY <1>1, AimedNext, StampedNext, CoveredNext DEF RetractionInv

(* While a memory the tool wrote in an undone exchange is still live, and  *)
(* nobody restored it, a queued retract_turns job reaches it: "the undone  *)
(* turn's writes have to go with it" (provider.py:1663). *)
THEOREM NothingEscapes == Spec => []LeftoversCovered
<1>1. RetractionInv => LeftoversCovered
  BY DEF RetractionInv
<1> QED  BY <1>1, RetractionInit, RetractionNext, PTL DEF Spec

(* A retraction never takes what the tool wrote in an exchange that stands *)
(* and had begun when the user asked for the undo: the numbers a job       *)
(* compares are those the conversation had when it was queued. *)
THEOREM EarlierTurnsStay == Spec => EarlierTurnsKept
<1> DEFINE Kept(r) ==
      status[r] = "active" /\ status'[r] = "retracted" /\ origin[r] = "tool"
         => \/ Undone(of[r])
            \/ \E j \in jobs : Reaches(j, r) /\ of[r] > j.asked
<1>1. RetractionInv /\ [Next]_vars => [\A r \in Rows : Kept(r)]_vars
  <2> SUFFICES ASSUME RetractionInv, Next, NEW r \in Rows,
                      status[r] = "active", status'[r] = "retracted", origin[r] = "tool"
               PROVE  \/ Undone(of[r])
                      \/ \E j \in jobs : Reaches(j, r) /\ of[r] > j.asked
    OBVIOUS
  <2>1. Numbered /\ Aimed /\ Stamped
    BY DEF RetractionInv
  <2>2. PICK j \in jobs, reported \in BOOLEAN : Retract(j, reported)
    BY <2>1 DEF Next, StartTurn, EndTurn, Undo, Restart, SyncTurn, Switch, Remember, Promote,
                Restore, Extract, Add, rows, Numbered, TypeOK
  <2>3. Reaches(j, r)
    BY <2>2 DEF Retract
  <2>4. /\ of[r] \in 1..begun /\ begun \in Nat
        /\ stamp[r] = number[of[r]]
    BY <2>1, NumberedFacts DEF Stamped
  <2>5. j.asked \in Int /\ j.from \in Int
    <3>1. jobs \subseteq [session : Sessions, from : Turns, asked : 0..MaxTurns]
      BY <2>1 DEF Numbered, TypeOK
    <3>2. j.from \in 1..MaxTurns /\ j.asked \in 0..MaxTurns
      BY <3>1 DEF Turns
    <3> QED  BY <3>2
  <2>6. CASE of[r] > j.asked
    BY <2>3, <2>6
  <2>7. CASE ~(of[r] > j.asked)
    <3>1. SUFFICES ASSUME Stands(of[r]) PROVE FALSE
      BY <2>4 DEF Undone
    <3>2. PICK k \in 1..Len(convo[j.session]) : convo[j.session][k] = of[r]
      BY <2>3, <3>1 DEF Stands, Reaches
    <3>3. of[r] <= j.asked
      BY <2>4, <2>5, <2>7
    <3>4. k < j.from
      BY <2>1, <3>2, <3>3 DEF Aimed
    <3>5. number[of[r]] = k
      BY <2>1, <2>3, <3>2 DEF Numbered, TurnsNumbered, TypeOK
    <3>6. k >= j.from
      BY <2>3, <2>4, <3>5 DEF Reaches
    <3> QED  BY <2>5, <3>2, <3>4, <3>6
  <2> QED  BY <2>6, <2>7
<1> QED  BY <1>1, RetractionInit, RetractionNext, PTL DEF Spec, EarlierTurnsKept

-----------------------------------------------------------------------------
(* The inductive invariant, in three parts that meet in the call alone.    *)

Passes == [step : {"generate", "wait", "load"}, gen : 0..MaxWrites,
           left : Seq({"pinned", "bm25"}), found : SUBSET Memories, whole : BOOLEAN]
Results == [step : {"finish"}, gen : 0..MaxWrites, rows : SUBSET Memories, store : BOOLEAN]

CallTypes ==
    /\ live \subseteq Memories /\ touched \subseteq Memories
    /\ generation \in 0..MaxWrites
    /\ cache.gen \in -1..MaxWrites /\ cache.rows \subseteq Memories
    /\ call \in {NoCall} \cup Passes \cup Results
    /\ call.step = "wait" => call.left # <<>>
    /\ worker.busy \in BOOLEAN

(* An entry of the present generation holds live memories only. *)
CacheIsCurrent ==
    /\ cache.gen <= generation
    /\ cache.gen = generation => cache.rows \subseteq live

(* What a call has found was live during the call; if nothing was          *)
(* committed since it began, what was live is live.                        *)
CallIsCurrent ==
    call # NoCall =>
      /\ call.gen <= generation
      /\ call.gen = generation => touched = live
      /\ live \subseteq touched
      /\ call \in Passes => call.found \subseteq touched
      /\ call \in Results => call.rows \subseteq touched

CallInv == CallTypes /\ CacheIsCurrent /\ CallIsCurrent

Longer == IF DedupTurns > RepeatTurns THEN DedupTurns ELSE RepeatTurns

HistoryTypes ==
    /\ calls \in 0..MaxCalls
    /\ call # NoCall => calls < MaxCalls
    /\ recent \in [Memories -> 0..MaxCalls]
    /\ shown \in [Memories -> 0..MaxCalls]

(* What is remembered of a memory is when it was last shown, and what is   *)
(* forgotten is further back than both distances.                          *)
HistoryIsLong ==
    \A m \in Memories :
      /\ shown[m] <= calls
      /\ recent[m] # 0 => recent[m] = shown[m]
      /\ recent[m] = 0 /\ Ever(m) => calls - shown[m] > Longer + 1

HistoryInv == HistoryTypes /\ HistoryIsLong

Queued(h) == \E i \in DOMAIN queue : queue[i] = h
Newer(h)  == \E i \in DOMAIN asked : i > h /\ asked[i] = asked[h]

QuestionTypes ==
    /\ asked \in Seq(Askers) /\ Len(asked) <= MaxAsks
    /\ queue \in Seq(0..MaxAsks) /\ Len(queue) <= QueueMax
    /\ cancelled \cup ended \cup dropped \cup answered \subseteq DOMAIN asked
    /\ ahead \in {Idle, Left} \cup DOMAIN asked
    /\ closed \in {"no", "asked", "yes"}
    /\ lock \in {"free", "turn", "ahead", "close"}
    /\ lock = "turn" <=> call # NoCall
    /\ lock = "ahead" => ahead \in DOMAIN asked

(* What waits was asked, or is the sentinel of close. *)
QueueOfAsked ==
    /\ \A i \in DOMAIN queue : queue[i] \in DOMAIN asked \cup {Stop}
    /\ closed = "no" => ~Queued(Stop)

(* Only a question whose session has asked again is cancelled. *)
CancelledHasNewer == \A h \in cancelled : Newer(h)

(* The safety of AsksEnd: a question waits, is being computed, was         *)
(* computed, was dropped from a full queue, or ended with a newer one of   *)
(* its session.                                                            *)
NoneForgotten ==
    \A h \in DOMAIN asked :
        \/ Queued(h) \/ ahead = h
        \/ h \in dropped \/ h \in answered
        \/ h \in ended /\ Newer(h)

QuestionInv == QuestionTypes /\ QueueOfAsked /\ CancelledHasNewer /\ NoneForgotten

IInv == CallInv /\ HistoryInv /\ QuestionInv

-----------------------------------------------------------------------------
(* The call.                                                               *)

LEMMA PassShape ==
  ASSUME NEW c \in Passes
  PROVE  /\ c # NoCall /\ c \notin Results
         /\ c.step \in {"generate", "wait", "load"}
         /\ c.gen \in 0..MaxWrites /\ c.found \subseteq Memories /\ c.whole \in BOOLEAN
         /\ c.left \in Seq({"pinned", "bm25"})
  BY DEF Passes, Results, NoCall

LEMMA ResultShape ==
  ASSUME NEW c \in Results
  PROVE  /\ c # NoCall /\ c \notin Passes
         /\ c.step = "finish"
         /\ c.gen \in 0..MaxWrites /\ c.rows \subseteq Memories /\ c.store \in BOOLEAN
  BY DEF Passes, Results, NoCall

LEMMA StepTells ==
  ASSUME CallTypes
  PROVE  /\ call.step \in {"generate", "wait", "load"} <=> call \in Passes
         /\ call.step = "finish" <=> call \in Results
         /\ call.step = "none" <=> call = NoCall
<1>1. NoCall.step = "none"
  BY DEF NoCall
<1> QED  BY <1>1, PassShape, ResultShape DEF CallTypes

(* A pass goes on: with the same generation, and what it found. *)
LEMMA PassOn ==
  ASSUME NEW c \in Passes, NEW s \in {"generate", "wait", "load"}
  PROVE  /\ [c EXCEPT !.step = s] \in Passes /\ [c EXCEPT !.step = s].step = s
         /\ [c EXCEPT !.step = s].left = c.left
         /\ [c EXCEPT !.step = s].gen = c.gen /\ [c EXCEPT !.step = s].found = c.found
  BY DEF Passes

LEMMA CutOff ==
  ASSUME NEW c \in Passes
  PROVE  LET d == [c EXCEPT !.step = "load", !.whole = FALSE]
         IN  /\ d \in Passes /\ d.step = "load"
             /\ d.gen = c.gen /\ d.found = c.found
  BY DEF Passes

LEMMA PassFinds ==
  ASSUME NEW c \in Passes, c.left # <<>>, NEW more \in SUBSET Memories
  PROVE  LET d == [c EXCEPT !.step = "generate", !.left = Tail(@), !.found = @ \cup more]
         IN  /\ d \in Passes /\ d.step = "generate"
             /\ d.gen = c.gen /\ d.found = c.found \cup more
<1>1. Tail(c.left) \in Seq({"pinned", "bm25"})
  BY PassShape, HeadTailProperties
<1> QED  BY <1>1 DEF Passes

(* A call that goes on within a pass or to its result, without a commit.   *)
LEMMA CallGoesOn ==
  ASSUME CallInv, call # NoCall,
         UNCHANGED <<live, generation, cache, touched>>, worker'.busy \in BOOLEAN,
         call' \in Passes \cup Results, call'.gen = call.gen,
         call'.step = "wait" => call'.left # <<>>,
         call' \in Passes => call'.found \subseteq touched,
         call' \in Results => call'.rows \subseteq touched
  PROVE  CallInv'
<1>1. CallTypes'
  BY DEF CallInv, CallTypes
<1>2. CacheIsCurrent'
  BY DEF CallInv, CacheIsCurrent
<1>3. CallIsCurrent'
  BY DEF CallInv, CallIsCurrent
<1> QED  BY <1>1, <1>2, <1>3 DEF CallInv

LEMMA CallStays ==
  ASSUME CallInv, UNCHANGED <<live, generation, cache, touched, call, worker>>
  PROVE  CallInv'
  BY DEF CallInv, CallTypes, CacheIsCurrent, CallIsCurrent

LEMMA CommitCall == CallInv /\ Commit => CallInv'
<1> SUFFICES ASSUME CallInv, Commit PROVE CallInv'
    OBVIOUS
<1>1. /\ generation \in 0..MaxWrites /\ generation' = generation + 1 /\ generation < MaxWrites
      /\ MaxWrites \in Nat /\ cache.gen \in -1..MaxWrites
      /\ cache' = cache /\ call' = call /\ worker' = worker
  BY PrefetchConstants DEF Commit, service, CallInv, CallTypes, PrefetchConstants
<1>2. live' \subseteq Memories
  BY DEF Commit, CallInv, CallTypes
<1>3. touched' = IF call = NoCall THEN touched ELSE touched \cup live'
  BY DEF Commit
<1>4. CallTypes'
  <2>1. generation' \in 0..MaxWrites
    BY <1>1
  <2> QED  BY <1>1, <1>2, <1>3, <2>1 DEF CallInv, CallTypes
<1>5. CacheIsCurrent'
  BY <1>1 DEF CallInv, CacheIsCurrent
<1>6. CallIsCurrent'
  <2> SUFFICES ASSUME call # NoCall
               PROVE  /\ call.gen <= generation' /\ call.gen # generation'
                      /\ live' \subseteq touched'
                      /\ call \in Passes => call.found \subseteq touched'
                      /\ call \in Results => call.rows \subseteq touched'
    BY <1>1 DEF CallIsCurrent
  <2>1. call.gen \in 0..MaxWrites
    BY PassShape, ResultShape DEF CallInv, CallTypes
  <2> QED  BY <1>1, <1>3, <2>1 DEF CallInv, CallIsCurrent
<1> QED  BY <1>4, <1>5, <1>6 DEF CallInv

LEMMA BeginCall == CallInv /\ Begin /\ call = NoCall => CallInv'
<1> SUFFICES ASSUME CallInv, Begin PROVE CallInv'
    OBVIOUS
<1>1. /\ call' = IF cache.gen = generation THEN Hit ELSE Miss(generation)
      /\ touched' = live
      /\ UNCHANGED <<live, generation, cache, worker>>
  BY DEF Begin, service
<1>2. generation \in 0..MaxWrites /\ live \subseteq Memories
  BY DEF CallInv, CallTypes
<1>3. CASE cache.gen = generation
  <2>1. Hit \in Results /\ Hit.gen = generation /\ Hit.rows = cache.rows /\ Hit.step # "wait"
    BY <1>2, <1>3 DEF Hit, Results, CallInv, CallTypes
  <2>2. Hit # NoCall /\ Hit \notin Passes
    BY <2>1, ResultShape
  <2>3. call' = Hit
    BY <1>1, <1>3
  <2>4. Hit.rows \subseteq live
    BY <1>3, <2>1 DEF CallInv, CacheIsCurrent
  <2>5. CallTypes' /\ CacheIsCurrent'
    BY <1>1, <1>2, <2>1, <2>3 DEF CallInv, CallTypes, CacheIsCurrent
  <2>6. CallIsCurrent'
    BY <1>1, <1>2, <2>1, <2>2, <2>3, <2>4 DEF CallIsCurrent
  <2> QED  BY <2>5, <2>6 DEF CallInv
<1>4. CASE cache.gen # generation
  <2> DEFINE c == Miss(generation)
  <2>1. Generators \in Seq({"pinned", "bm25"})
    BY DEF Generators
  <2>2. c \in Passes /\ c.gen = generation /\ c.found = {} /\ c.step # "wait"
    BY <1>2, <2>1 DEF Miss, Passes
  <2>3. c # NoCall /\ c \notin Results
    BY <2>2, PassShape
  <2>4. call' = c
    BY <1>1, <1>4
  <2> HIDE DEF c
  <2>5. CallTypes' /\ CacheIsCurrent'
    BY <1>1, <1>2, <2>2, <2>4 DEF CallInv, CallTypes, CacheIsCurrent
  <2>6. CallIsCurrent'
    BY <1>1, <1>2, <2>2, <2>3, <2>4 DEF CallIsCurrent
  <2> QED  BY <2>5, <2>6 DEF CallInv
<1> QED  BY <1>3, <1>4

LEMMA GenerateCall == CallInv /\ Generate => CallInv'
<1> SUFFICES ASSUME CallInv, Generate PROVE CallInv'
    OBVIOUS
<1>1. call \in Passes /\ call # NoCall /\ call.found \subseteq touched
  BY StepTells, PassShape DEF Generate, CallInv, CallIsCurrent
<1>2. UNCHANGED <<live, generation, cache, touched>>
  BY DEF Generate, service
<1>3. worker'.busy \in BOOLEAN
  <2>1. worker.busy \in BOOLEAN
    BY DEF CallInv, CallTypes
  <2>2. [busy |-> TRUE, name |-> Head(call.left), for |-> calls + 1].busy = TRUE
    OBVIOUS
  <2> QED  BY <2>1, <2>2 DEF Generate
<1>4. /\ call' \in Passes /\ call'.gen = call.gen /\ call'.found = call.found
      /\ call'.step = "wait" => call'.left # <<>>
  <2>1. CASE call.left = <<>> /\ call' = [call EXCEPT !.step = "load"]
    BY <1>1, <2>1, PassOn
  <2>2. CASE call.left # <<>> /\ call' = [call EXCEPT !.step = "wait"]
    BY <1>1, <2>2, PassOn
  <2>3. CASE call' = CutShort
    BY <1>1, <2>3, CutOff DEF CutShort
  <2> QED  BY <2>1, <2>2, <2>3 DEF Generate
<1>5. call' \notin Results
  BY <1>4, PassShape
<1> QED  BY <1>1, <1>2, <1>3, <1>4, <1>5, CallGoesOn

(* What the worker finds is live at that moment. *)
LEMMA WorkerEndCall == CallInv /\ WorkerEnd => CallInv'
<1> SUFFICES ASSUME CallInv, WorkerEnd PROVE CallInv'
    OBVIOUS
<1>1. UNCHANGED <<live, generation, cache, touched>> /\ worker'.busy \in BOOLEAN
  BY DEF WorkerEnd, service
<1>2. CASE call.step = "wait" /\ worker.for = calls + 1
  <2> DEFINE more == Finds(worker.name)
  <2>1. call \in Passes /\ call # NoCall /\ call.found \subseteq touched /\ live \subseteq touched
    BY <1>2, StepTells, PassShape DEF CallInv, CallIsCurrent
  <2>0. call.left # <<>>
    BY <1>2 DEF CallInv, CallTypes
  <2>2. more \subseteq live /\ more \in SUBSET Memories
    BY DEF Finds, CallInv, CallTypes
  <2>3. call' = [call EXCEPT !.step = "generate", !.left = Tail(@), !.found = @ \cup more]
    BY <1>2 DEF WorkerEnd
  <2> HIDE DEF more
  <2>4. call' \in Passes /\ call'.gen = call.gen /\ call'.found = call.found \cup more
        /\ call'.step # "wait"
    BY <2>0, <2>1, <2>2, <2>3, PassFinds
  <2>5. call' \notin Results
    BY <2>4, PassShape
  <2> QED  BY <1>1, <2>1, <2>2, <2>4, <2>5, CallGoesOn
<1>3. CASE ~(call.step = "wait" /\ worker.for = calls + 1)
  BY <1>1, <1>3 DEF WorkerEnd, CallInv, CallTypes, CacheIsCurrent, CallIsCurrent
<1> QED  BY <1>2, <1>3

LEMMA DeadlineCall == CallInv /\ Deadline => CallInv'
<1> SUFFICES ASSUME CallInv, Deadline PROVE CallInv'
    OBVIOUS
<1>1. call \in Passes /\ call # NoCall /\ call.found \subseteq touched
  BY StepTells, PassShape DEF Deadline, CallInv, CallIsCurrent
<1>2. UNCHANGED <<live, generation, cache, touched, worker>> /\ worker.busy \in BOOLEAN
  BY DEF Deadline, service, CallInv, CallTypes
<1>3. /\ call' \in Passes /\ call'.gen = call.gen /\ call'.found = call.found
      /\ call'.step # "wait"
  BY <1>1, CutOff DEF Deadline, CutShort
<1>4. call' \notin Results
  BY <1>3, PassShape
<1> QED  BY <1>1, <1>2, <1>3, <1>4, CallGoesOn

LEMMA LoadCall == CallInv /\ Load => CallInv'
<1> SUFFICES ASSUME CallInv, Load PROVE CallInv'
    OBVIOUS
<1>1. call \in Passes /\ call # NoCall /\ call.found \subseteq touched
  BY StepTells, PassShape DEF Load, CallInv, CallIsCurrent
<1>2. UNCHANGED <<live, generation, cache, touched, worker>> /\ worker.busy \in BOOLEAN
  BY DEF Load, service, CallInv, CallTypes
<1>3. /\ call' \in Results /\ call'.gen = call.gen /\ call'.rows \subseteq touched
      /\ call'.step # "wait"
  <2>1. /\ call.found \subseteq Memories /\ call.gen \in 0..MaxWrites
        /\ call.whole \in BOOLEAN
    BY <1>1, PassShape
  <2>2. call' = [step |-> "finish", gen |-> call.gen, rows |-> call.found \cap live,
                 store |-> call.whole]
    BY DEF Load
  <2> QED  BY <1>1, <2>1, <2>2 DEF Results
<1>4. call' \notin Passes
  BY <1>3, ResultShape
<1> QED  BY <1>1, <1>2, <1>3, <1>4, CallGoesOn

(* An answer that nothing was committed beside is of live memories: what   *)
(* was live during the call is live. *)
LEMMA FinishCall == CallInv /\ Finish => CallInv'
<1> SUFFICES ASSUME CallInv, Finish PROVE CallInv'
    OBVIOUS
<1>1. call \in Results /\ call # NoCall
  BY StepTells, ResultShape DEF Finish, CallInv
<1>2. /\ call.gen \in 0..MaxWrites /\ call.rows \subseteq Memories
      /\ call.gen <= generation
      /\ call.gen = generation => call.rows \subseteq live
  BY <1>1, ResultShape DEF CallInv, CallIsCurrent
<1>3. /\ cache' = IF call.store THEN Entry ELSE cache
      /\ call' = NoCall
      /\ UNCHANGED <<live, generation, worker, touched>>
  BY DEF Finish
<1>4. Entry.gen = call.gen /\ Entry.rows = call.rows
  BY DEF Entry
<1>5. /\ cache'.gen \in -1..MaxWrites /\ cache'.rows \subseteq Memories
      /\ cache'.gen <= generation
      /\ cache'.gen = generation => cache'.rows \subseteq live
  <2>1. CASE call.store
    <3>1. call.gen \in -1..MaxWrites
      BY <1>2, PrefetchConstants DEF PrefetchConstants
    <3> QED  BY <1>2, <1>3, <1>4, <2>1, <3>1
  <2>2. CASE ~call.store
    BY <1>3, <2>2 DEF CallInv, CallTypes, CacheIsCurrent
  <2> QED  BY <2>1, <2>2
<1>6. NoCall.step # "wait"
  BY DEF NoCall
<1>7. CallTypes'
  BY <1>3, <1>5, <1>6 DEF CallInv, CallTypes
<1>8. CacheIsCurrent'
  BY <1>3, <1>5 DEF CacheIsCurrent
<1>9. CallIsCurrent'
  BY <1>3 DEF CallIsCurrent
<1> QED  BY <1>7, <1>8, <1>9 DEF CallInv

LEMMA InitCall == PrefetchInit => CallInv
<1> SUFFICES ASSUME PrefetchInit PROVE CallInv
    OBVIOUS
<1>1. NoEntry.gen = -1 /\ NoEntry.rows = {} /\ NoCall.step = "none"
  BY DEF NoEntry, NoCall
<1>2. 0 \in 0..MaxWrites /\ -1 \in -1..MaxWrites /\ -1 <= 0
  BY PrefetchConstants DEF PrefetchConstants
<1>3. [busy |-> FALSE].busy \in BOOLEAN
  OBVIOUS
<1>4. CallTypes
  BY <1>1, <1>2, <1>3 DEF PrefetchInit, CallTypes
<1>5. CacheIsCurrent /\ CallIsCurrent
  BY <1>1, <1>2 DEF PrefetchInit, CacheIsCurrent, CallIsCurrent
<1> QED  BY <1>4, <1>5 DEF CallInv

LEMMA NextCall == CallInv /\ QuestionTypes /\ [PrefetchNext]_prefetchVars => CallInv'
<1> SUFFICES ASSUME CallInv, QuestionTypes, [PrefetchNext]_prefetchVars PROVE CallInv'
    OBVIOUS
<1>1. CASE Commit
  BY <1>1, CommitCall
<1>2. CASE Begin
  <2>1. call = NoCall
    BY <1>2 DEF Begin, QuestionTypes
  <2> QED  BY <1>2, <2>1, BeginCall
<1>3. CASE Generate \/ WorkerEnd \/ Deadline \/ Load \/ Finish
  BY <1>3, GenerateCall, WorkerEndCall, DeadlineCall, LoadCall, FinishCall
<1>4. CASE Ask \/ Take \/ AheadBegin \/ AheadEnd \/ CloseAsk \/ CloseEnd
           \/ UNCHANGED prefetchVars
  <2>1. UNCHANGED <<live, generation, cache, touched, call, worker>>
    BY <1>4 DEF Ask, Take, AheadBegin, AheadEnd, CloseAsk, CloseEnd, prefetchVars, service
  <2> QED  BY <2>1, CallStays
<1> QED  BY <1>1, <1>2, <1>3, <1>4 DEF PrefetchNext

-----------------------------------------------------------------------------
(* The history.                                                            *)

LEMMA LongerIsLonger ==
  /\ DedupTurns \in Nat /\ RepeatTurns \in Nat /\ Longer \in Nat
  /\ HotGap \in Nat /\ MaxCalls \in Nat
  /\ Longer >= DedupTurns /\ Longer >= RepeatTurns
  BY PrefetchConstants DEF PrefetchConstants, Longer

LEMMA PrunedIsFarBack ==
  ASSUME NEW r \in [Memories -> 0..MaxCalls], NEW t
  PROVE  /\ Pruned(r, t) \in [Memories -> 0..MaxCalls]
         /\ \A m \in Memories :
              Pruned(r, t)[m] = IF t - r[m] <= Longer + 1 THEN r[m] ELSE 0
<1>1. 0 \in 0..MaxCalls
  BY LongerIsLonger
<1> DEFINE f == [m \in Memories |-> IF t - r[m] <= Longer + 1 THEN r[m] ELSE 0]
<1>2. f \in [Memories -> 0..MaxCalls]
  BY <1>1
<1>3. Pruned(r, t) = f
  <2>1. CASE DedupTurns > RepeatTurns
    BY <2>1, Zenon DEF Pruned, Longer
  <2>2. CASE ~(DedupTurns > RepeatTurns)
    BY <2>2, Zenon DEF Pruned, Longer
  <2> QED  BY <2>1, <2>2
<1> QED  BY <1>2, <1>3

(* What Finish does to the history. *)
LEMMA FinishShows ==
  ASSUME HistoryInv, CallInv, Finish
  PROVE  /\ calls \in 0..(MaxCalls - 1) /\ calls' = calls + 1 /\ call' = NoCall
         /\ recent' \in [Memories -> 0..MaxCalls] /\ shown' \in [Memories -> 0..MaxCalls]
         /\ \A m \in Memories :
              \/ /\ shown'[m] = calls + 1 /\ recent'[m] = calls + 1
                 /\ Fresh(m, calls + 1)
              \/ /\ shown'[m] = shown[m]
                 /\ recent'[m] = IF (calls + 1) - recent[m] <= Longer + 1
                                 THEN recent[m] ELSE 0
<1>1. call # NoCall /\ calls' = calls + 1 /\ call' = NoCall
  BY StepTells, ResultShape DEF Finish, CallInv
<1>2. calls \in 0..(MaxCalls - 1) /\ calls + 1 \in 0..MaxCalls
  BY <1>1, LongerIsLonger DEF HistoryInv, HistoryTypes
<1>3. PICK chosen \in SUBSET {m \in call.rows : Fresh(m, calls + 1)} :
        /\ recent' = Pruned([m \in Memories |-> IF m \in chosen THEN calls + 1
                                               ELSE recent[m]], calls + 1)
        /\ shown' = [m \in Memories |-> IF m \in chosen THEN calls + 1 ELSE shown[m]]
  BY DEF Finish
<1> DEFINE now == [m \in Memories |-> IF m \in chosen THEN calls + 1 ELSE recent[m]]
<1>4. now \in [Memories -> 0..MaxCalls]
  BY <1>2 DEF HistoryInv, HistoryTypes
<1>5. /\ recent' \in [Memories -> 0..MaxCalls]
      /\ \A m \in Memories :
           recent'[m] = IF (calls + 1) - now[m] <= Longer + 1 THEN now[m] ELSE 0
  <2>1. recent' = Pruned(now, calls + 1)
    BY <1>3
  <2> HIDE DEF now
  <2> QED  BY <1>4, <2>1, PrunedIsFarBack
<1>6. shown' \in [Memories -> 0..MaxCalls]
  BY <1>2, <1>3 DEF HistoryInv, HistoryTypes
<1>7. ASSUME NEW m \in Memories, m \in chosen
      PROVE  shown'[m] = calls + 1 /\ recent'[m] = calls + 1 /\ Fresh(m, calls + 1)
  <2>1. now[m] = calls + 1 /\ shown'[m] = calls + 1 /\ Fresh(m, calls + 1)
    BY <1>3, <1>7
  <2>2. (calls + 1) - (calls + 1) <= Longer + 1
    BY <1>2, LongerIsLonger
  <2> QED  BY <1>5, <2>1, <2>2
<1>8. ASSUME NEW m \in Memories, m \notin chosen
      PROVE  /\ shown'[m] = shown[m]
             /\ recent'[m] = IF (calls + 1) - recent[m] <= Longer + 1 THEN recent[m] ELSE 0
  <2>1. now[m] = recent[m] /\ shown'[m] = shown[m]
    BY <1>3, <1>8
  <2> QED  BY <1>5, <2>1
<1> QED  BY <1>1, <1>2, <1>5, <1>6, <1>7, <1>8

LEMMA FinishHistory == HistoryInv /\ CallInv /\ Finish => HistoryInv'
<1> SUFFICES ASSUME HistoryInv, CallInv, Finish PROVE HistoryInv'
    OBVIOUS
<1>1. HistoryTypes'
  BY FinishShows, LongerIsLonger DEF HistoryTypes
<1>2. ASSUME NEW m \in Memories
      PROVE  /\ shown'[m] <= calls'
             /\ recent'[m] # 0 => recent'[m] = shown'[m]
             /\ recent'[m] = 0 /\ shown'[m] > 0 => calls' - shown'[m] > Longer + 1
  <2>1. /\ calls \in Nat /\ calls' = calls + 1
        /\ shown[m] \in Nat /\ recent[m] \in Nat /\ Longer \in Nat
    BY FinishShows, LongerIsLonger DEF HistoryInv, HistoryTypes
  <2>2. /\ shown[m] <= calls
        /\ recent[m] # 0 => recent[m] = shown[m]
        /\ recent[m] = 0 /\ shown[m] > 0 => calls - shown[m] > Longer + 1
    BY DEF HistoryInv, HistoryIsLong, Ever
  <2>3. CASE shown'[m] = calls + 1 /\ recent'[m] = calls + 1
    BY <2>1, <2>3
  <2>4. CASE /\ shown'[m] = shown[m]
             /\ recent'[m] = IF (calls + 1) - recent[m] <= Longer + 1 THEN recent[m] ELSE 0
    BY <2>1, <2>2, <2>4
  <2> QED  BY <2>3, <2>4, FinishShows
<1>3. HistoryIsLong'
  BY <1>2 DEF HistoryIsLong, Ever
<1> QED  BY <1>1, <1>3 DEF HistoryInv

LEMMA NextHistory ==
  HistoryInv /\ CallInv /\ QuestionTypes /\ [PrefetchNext]_prefetchVars => HistoryInv'
<1> SUFFICES ASSUME HistoryInv, CallInv, QuestionTypes, [PrefetchNext]_prefetchVars
             PROVE  HistoryInv'
    OBVIOUS
<1>1. CASE Finish
  BY <1>1, FinishHistory
<1>2. ASSUME UNCHANGED <<calls, recent, shown>>,
             call' # NoCall => call # NoCall \/ calls < MaxCalls
      PROVE  HistoryInv'
  BY <1>2 DEF HistoryInv, HistoryTypes, HistoryIsLong, Ever
<1>3. CASE Begin
  BY <1>2, <1>3 DEF Begin, service
<1>4. CASE Generate \/ WorkerEnd \/ Deadline \/ Load
  <2>1. UNCHANGED <<calls, recent, shown>>
    BY <1>4 DEF Generate, WorkerEnd, Deadline, Load, service
  <2>2. CASE Generate \/ Deadline \/ Load
    <3>1. call # NoCall
      BY <2>2, StepTells DEF Generate, Deadline, Load, CallInv
    <3> QED  BY <1>2, <2>1, <3>1
  <2>3. CASE WorkerEnd
    <3>1. call' # call => call # NoCall
      BY <2>3, StepTells DEF WorkerEnd, CallInv
    <3> QED  BY <1>2, <2>1, <3>1
  <2> QED  BY <1>4, <2>2, <2>3
<1>5. CASE Commit \/ Ask \/ Take \/ AheadBegin \/ AheadEnd \/ CloseAsk \/ CloseEnd
           \/ UNCHANGED prefetchVars
  <2>1. UNCHANGED <<calls, recent, shown, call>>
    BY <1>5 DEF Commit, Ask, Take, AheadBegin, AheadEnd, CloseAsk, CloseEnd,
                prefetchVars, service
  <2> QED  BY <1>2, <2>1
<1> QED  BY <1>1, <1>3, <1>4, <1>5 DEF PrefetchNext

LEMMA InitHistory == PrefetchInit => HistoryInv
<1> SUFFICES ASSUME PrefetchInit PROVE HistoryInv
    OBVIOUS
<1>1. 0 \in 0..MaxCalls
  BY LongerIsLonger
<1>2. /\ calls = 0 /\ call = NoCall
      /\ recent = [m \in Memories |-> 0] /\ shown = [m \in Memories |-> 0]
  BY DEF PrefetchInit
<1> QED  BY <1>1, <1>2 DEF HistoryInv, HistoryTypes, HistoryIsLong, Ever

-----------------------------------------------------------------------------
(* The questions.                                                          *)

LEMMA QueueFacts ==
  ASSUME QuestionTypes
  PROVE  /\ DOMAIN asked = 1..Len(asked) /\ Len(asked) \in Nat
         /\ DOMAIN queue = 1..Len(queue) /\ Len(queue) \in Nat
         /\ MaxAsks \in Nat /\ QueueMax \in Nat \ {0}
         /\ DOMAIN asked \subseteq 1..MaxAsks
         /\ Stop \notin DOMAIN asked /\ Idle \notin DOMAIN asked /\ Left \notin DOMAIN asked
         /\ Idle # Left
<1>1. MaxAsks \in Nat /\ QueueMax \in Nat \ {0}
  BY PrefetchConstants DEF PrefetchConstants
<1>2. /\ DOMAIN asked = 1..Len(asked) /\ Len(asked) \in Nat
      /\ DOMAIN queue = 1..Len(queue) /\ Len(queue) \in Nat
  BY LenProperties DEF QuestionTypes
<1> QED  BY <1>1, <1>2 DEF QuestionTypes, Stop, Idle, Left

LEMMA Joined ==
  ASSUME NEW S, NEW s \in Seq(S), NEW e \in S
  PROVE  /\ Append(s, e) \in Seq(S) /\ Len(Append(s, e)) = Len(s) + 1
         /\ DOMAIN s = 1..Len(s) /\ Len(s) \in Nat
         /\ DOMAIN Append(s, e) = 1..(Len(s) + 1)
         /\ \A i \in DOMAIN s : Append(s, e)[i] = s[i]
         /\ Append(s, e)[Len(s) + 1] = e
  BY AppendProperties, LenProperties

(* What is in the rest of a sequence was in it, and what was in it is its  *)
(* head or in the rest. *)
LEMMA Rest ==
  ASSUME NEW S, NEW s \in Seq(S), s # <<>>
  PROVE  /\ Tail(s) \in Seq(S) /\ Len(Tail(s)) = Len(s) - 1 /\ Len(s) \in Nat \ {0}
         /\ Head(s) = s[1] /\ 1 \in DOMAIN s
         /\ \A i \in DOMAIN Tail(s) : i + 1 \in DOMAIN s /\ Tail(s)[i] = s[i + 1]
         /\ \A i \in DOMAIN s : i # 1 => i - 1 \in DOMAIN Tail(s) /\ Tail(s)[i - 1] = s[i]
<1>1. /\ Tail(s) \in Seq(S) /\ Len(s) \in Nat /\ Len(s) # 0
      /\ Len(Tail(s)) = Len(s) - 1 /\ Head(s) = s[1]
  BY HeadTailProperties, LenProperties, EmptySeq
<1>2. DOMAIN s = 1..Len(s) /\ DOMAIN Tail(s) = 1..(Len(s) - 1)
  BY <1>1, LenProperties
<1>3. \A i \in 1..(Len(s) - 1) : Tail(s)[i] = s[i + 1]
  BY <1>1, HeadTailProperties
<1> QED  BY <1>1, <1>2, <1>3

(* A step that leaves the questions, and the lock with the call, alone.    *)
LEMMA QuestionsStay ==
  ASSUME QuestionInv,
         UNCHANGED <<asked, queue, cancelled, ended, dropped, answered, ahead>>,
         closed' \in {"no", "asked", "yes"}, closed' = "no" => closed = "no",
         lock' \in {"free", "turn", "ahead", "close"},
         lock' = "turn" <=> call' # NoCall,
         lock' = "ahead" => ahead \in DOMAIN asked
  PROVE  QuestionInv'
<1>1. QuestionTypes'
  BY DEF QuestionInv, QuestionTypes
<1>2. QueueOfAsked' /\ CancelledHasNewer' /\ NoneForgotten'
  BY DEF QuestionInv, QueueOfAsked, CancelledHasNewer, NoneForgotten, Queued, Newer
<1> QED  BY <1>1, <1>2 DEF QuestionInv

(* The newest question joins the queue: the oldest may drop out, and the   *)
(* last one of the session that has not ended is cancelled. *)
LEMMA AskQuestions == QuestionInv /\ Ask => QuestionInv'
<1> SUFFICES ASSUME QuestionInv, Ask PROVE QuestionInv'
    OBVIOUS
<1> USE DEF QuestionInv
<1>1. PICK s \in Askers : /\ asked' = Append(asked, s)
                          /\ cancelled' = cancelled \cup (Latest(s) \ ended)
  BY DEF Ask
<1> DEFINE n == Len(asked) + 1
           rest == IF Len(queue) = QueueMax THEN Tail(queue) ELSE queue
<1>2. /\ asked' \in Seq(Askers) /\ Len(asked') = n /\ DOMAIN asked' = 1..n
      /\ Len(asked) \in Nat /\ DOMAIN asked = 1..Len(asked)
      /\ \A i \in DOMAIN asked : asked'[i] = asked[i]
      /\ asked'[n] = s
  BY <1>1, Joined DEF QuestionTypes
<1>3. n <= MaxAsks /\ n \in 0..MaxAsks /\ n \in DOMAIN asked' /\ DOMAIN asked \subseteq DOMAIN asked'
  BY <1>2, QueueFacts DEF Ask, QuestionTypes
<1>4. /\ UNCHANGED <<lock, call, ended, answered, ahead, closed>> /\ closed = "no"
      /\ queue' = Append(rest, n)
      /\ dropped' = IF Len(queue) = QueueMax THEN dropped \cup {Head(queue)} ELSE dropped
  BY <1>2 DEF Ask
<1>5. /\ rest \in Seq(0..MaxAsks) /\ Len(rest) \in Nat /\ Len(rest) < QueueMax
      /\ \A i \in DOMAIN rest : \E k \in DOMAIN queue : rest[i] = queue[k]
      /\ \A k \in DOMAIN queue :
           \/ \E i \in DOMAIN rest : rest[i] = queue[k]
           \/ Len(queue) = QueueMax /\ queue[k] = Head(queue)
  <2>1. CASE Len(queue) = QueueMax
    <3>1. queue # <<>>
      BY <2>1, QueueFacts, EmptySeq
    <3>2. /\ Tail(queue) \in Seq(0..MaxAsks) /\ Len(Tail(queue)) = Len(queue) - 1
          /\ Len(queue) \in Nat \ {0} /\ Head(queue) = queue[1]
          /\ \A i \in DOMAIN Tail(queue) : i + 1 \in DOMAIN queue /\ Tail(queue)[i] = queue[i + 1]
          /\ \A i \in DOMAIN queue : i # 1 =>
                i - 1 \in DOMAIN Tail(queue) /\ Tail(queue)[i - 1] = queue[i]
      BY <3>1, Rest DEF QuestionTypes
    <3>3. rest = Tail(queue)
      BY <2>1
    <3>4. Len(rest) \in Nat /\ Len(rest) < QueueMax
      BY <2>1, <3>2, <3>3
    <3>5. \A i \in DOMAIN rest : \E k \in DOMAIN queue : rest[i] = queue[k]
      BY <3>2, <3>3
    <3>6. \A k \in DOMAIN queue :
             (\E i \in DOMAIN rest : rest[i] = queue[k]) \/ queue[k] = Head(queue)
      <4> SUFFICES ASSUME NEW k \in DOMAIN queue, k # 1
                   PROVE  \E i \in DOMAIN rest : rest[i] = queue[k]
        BY <3>2
      <4>1. k - 1 \in DOMAIN rest /\ rest[k - 1] = queue[k]
        BY <3>2, <3>3
      <4> QED  BY <4>1
    <3> QED  BY <2>1, <3>2, <3>3, <3>4, <3>5, <3>6
  <2>2. CASE Len(queue) # QueueMax
    <3>1. rest = queue
      BY <2>2
    <3> QED  BY <2>2, <3>1, QueueFacts DEF QuestionTypes
  <2> QED  BY <2>1, <2>2
<1>6. /\ queue' \in Seq(0..MaxAsks) /\ Len(queue') = Len(rest) + 1
      /\ DOMAIN rest = 1..Len(rest) /\ DOMAIN queue' = 1..(Len(rest) + 1)
      /\ \A i \in DOMAIN rest : queue'[i] = rest[i]
      /\ queue'[Len(rest) + 1] = n
  BY <1>3, <1>4, <1>5, Joined
<1> HIDE DEF rest, n
<1>7. Len(queue) = QueueMax => Head(queue) \in DOMAIN asked
  <2> SUFFICES ASSUME Len(queue) = QueueMax PROVE Head(queue) \in DOMAIN asked
    OBVIOUS
  <2>1. queue # <<>>
    BY QueueFacts, EmptySeq
  <2>2. Head(queue) = queue[1] /\ 1 \in DOMAIN queue
    BY <2>1, Rest DEF QuestionTypes
  <2>3. queue[1] # Stop
    BY <1>4, <2>2 DEF QueueOfAsked, Queued
  <2> QED  BY <2>2, <2>3 DEF QueueOfAsked
<1>8. Latest(s) \subseteq DOMAIN asked /\ \A h \in Latest(s) : asked[h] = s
  BY DEF Latest
<1>9. \A h \in DOMAIN asked : Newer(h) => Newer(h)'
  BY <1>2, <1>3 DEF Newer
<1>10. \A h \in Latest(s) : Newer(h)'
  BY <1>2, <1>3, <1>8 DEF Newer, n
<1>11. QuestionTypes'
  <2>1. cancelled' \cup ended' \cup dropped' \cup answered' \subseteq DOMAIN asked'
    BY <1>1, <1>3, <1>4, <1>7, <1>8 DEF QuestionTypes
  <2>2. Len(queue') <= QueueMax
    BY <1>5, <1>6, QueueFacts
  <2> QED  BY <1>2, <1>3, <1>4, <1>6, <2>1, <2>2 DEF QuestionTypes
<1>12. QueueOfAsked'
  <2>1. \A i \in DOMAIN rest : rest[i] \in DOMAIN asked
    BY <1>4, <1>5 DEF QueueOfAsked, Queued
  <2>2. \A i \in DOMAIN queue' : queue'[i] \in DOMAIN asked'
    BY <1>3, <1>5, <1>6, <2>1
  <2>3. Stop \notin DOMAIN asked'
    BY <1>2, <1>3 DEF Stop
  <2> QED  BY <2>2, <2>3 DEF QueueOfAsked, Queued
<1>13. CancelledHasNewer'
  BY <1>1, <1>9, <1>10 DEF CancelledHasNewer, QuestionTypes
<1>14. NoneForgotten'
  <2> SUFFICES ASSUME NEW h \in DOMAIN asked'
               PROVE  \/ Queued(h)' \/ ahead' = h \/ h \in dropped' \/ h \in answered'
                      \/ h \in ended' /\ Newer(h)'
    BY DEF NoneForgotten
  <2>1. CASE h = n
    BY <1>5, <1>6, <2>1 DEF Queued
  <2>2. CASE h \in DOMAIN asked /\ Queued(h)
    <3>1. PICK k \in DOMAIN queue : queue[k] = h
      BY <2>2 DEF Queued
    <3>2. CASE \E i \in DOMAIN rest : rest[i] = queue[k]
      BY <1>5, <1>6, <3>1, <3>2 DEF Queued
    <3>3. CASE Len(queue) = QueueMax /\ queue[k] = Head(queue)
      BY <1>4, <3>1, <3>3
    <3> QED  BY <1>5, <3>2, <3>3
  <2>3. CASE h \in DOMAIN asked /\ ~Queued(h)
    BY <1>4, <1>9, <2>3 DEF NoneForgotten
  <2>4. h = n \/ h \in DOMAIN asked
    BY <1>2, <1>3 DEF n
  <2> QED  BY <2>1, <2>2, <2>3, <2>4
<1> QED  BY <1>11, <1>12, <1>13, <1>14

(* A question that is skipped has a newer one of its session.              *)
LEMMA TakeQuestions == QuestionInv /\ Take => QuestionInv'
<1> SUFFICES ASSUME QuestionInv, Take PROVE QuestionInv'
    OBVIOUS
<1> USE DEF QuestionInv
<1> DEFINE h == Head(queue)
<1>1. /\ ahead = Idle /\ queue # <<>> /\ queue' = Tail(queue)
      /\ ahead' = IF h = Stop THEN Left ELSE IF Superseded(h) THEN Idle ELSE h
      /\ ended' = IF h # Stop /\ Superseded(h) THEN ended \cup {h} ELSE ended
      /\ UNCHANGED <<lock, call, asked, cancelled, dropped, answered, closed>>
  BY DEF Take
<1>2. /\ Tail(queue) \in Seq(0..MaxAsks) /\ Len(Tail(queue)) = Len(queue) - 1
      /\ Len(queue) \in Nat \ {0} /\ h = queue[1] /\ 1 \in DOMAIN queue
      /\ \A i \in DOMAIN Tail(queue) : i + 1 \in DOMAIN queue /\ Tail(queue)[i] = queue[i + 1]
      /\ \A i \in DOMAIN queue : i # 1 =>
            i - 1 \in DOMAIN Tail(queue) /\ Tail(queue)[i - 1] = queue[i]
  BY <1>1, Rest DEF QuestionTypes
<1>3. h \in DOMAIN asked \cup {Stop}
  BY <1>2 DEF QueueOfAsked
<1> HIDE DEF h
<1>4. h \in DOMAIN asked /\ Superseded(h) => Newer(h)
  <2> SUFFICES ASSUME h \in DOMAIN asked, Superseded(h) PROVE Newer(h)
    OBVIOUS
  <2>1. CASE h \in cancelled
    BY <2>1 DEF CancelledHasNewer
  <2>2. CASE h \notin Latest(asked[h])
    <3>1. PICK i \in DOMAIN asked : asked[i] = asked[h] /\ ~(i <= h)
      BY <2>2 DEF Latest
    <3>2. i > h
      BY <3>1, QueueFacts
    <3> QED  BY <3>1, <3>2 DEF Newer
  <2> QED  BY <2>1, <2>2 DEF Superseded
<1>5. QuestionTypes'
  <2>1. Len(queue') <= QueueMax
    BY <1>1, <1>2, QueueFacts DEF QuestionTypes
  <2>2. ahead' \in {Idle, Left} \cup DOMAIN asked
    BY <1>1, <1>3
  <2>3. cancelled' \cup ended' \cup dropped' \cup answered' \subseteq DOMAIN asked
    BY <1>1, <1>3 DEF QuestionTypes
  <2>4. lock # "ahead"
    BY <1>1, QueueFacts DEF QuestionTypes
  <2> QED  BY <1>1, <1>2, <2>1, <2>2, <2>3, <2>4 DEF QuestionTypes
<1>6. QueueOfAsked'
  BY <1>1, <1>2 DEF QueueOfAsked, Queued
<1>7. CancelledHasNewer'
  BY <1>1 DEF CancelledHasNewer, Newer
<1>8. NoneForgotten'
  <2> SUFFICES ASSUME NEW g \in DOMAIN asked
               PROVE  \/ Queued(g)' \/ ahead' = g \/ g \in dropped \/ g \in answered
                      \/ g \in ended' /\ Newer(g)
    BY <1>1 DEF NoneForgotten, Newer
  <2>1. CASE Queued(g)
    <3>1. PICK k \in DOMAIN queue : queue[k] = g
      BY <2>1 DEF Queued
    <3>2. CASE k = 1
      <4>1. g = h /\ h # Stop
        BY <1>2, <3>1, <3>2, QueueFacts
      <4> QED  BY <1>1, <1>4, <4>1
    <3>3. CASE k # 1
      BY <1>1, <1>2, <3>1, <3>3 DEF Queued
    <3> QED  BY <3>2, <3>3
  <2>2. CASE ahead = g
    BY <1>1, <2>2, QueueFacts
  <2>3. CASE g \in dropped \/ g \in answered \/ (g \in ended /\ Newer(g))
    BY <1>1, <2>3
  <2> QED  BY <2>1, <2>2, <2>3 DEF NoneForgotten
<1> QED  BY <1>5, <1>6, <1>7, <1>8

LEMMA AheadQuestions == QuestionInv /\ (AheadBegin \/ AheadEnd) => QuestionInv'
<1> SUFFICES ASSUME QuestionInv, AheadBegin \/ AheadEnd PROVE QuestionInv'
    OBVIOUS
<1>1. CASE AheadBegin
  <2>1. /\ UNCHANGED <<asked, queue, cancelled, ended, dropped, answered, ahead, closed, call>>
        /\ lock = "free" /\ lock' = "ahead" /\ ahead \in DOMAIN asked
    BY <1>1 DEF AheadBegin, questions
  <2>2. call = NoCall
    BY <2>1 DEF QuestionInv, QuestionTypes
  <2> QED  BY <2>1, <2>2, QuestionsStay DEF QuestionInv, QuestionTypes
<1>2. CASE AheadEnd
  <2> USE DEF QuestionInv
  <2>1. /\ lock = "ahead" /\ lock' = "free" /\ ahead' = Idle
        /\ ended' = ended \cup {ahead} /\ answered' = answered \cup {ahead}
        /\ UNCHANGED <<call, asked, queue, cancelled, dropped, closed>>
    BY <1>2 DEF AheadEnd
  <2>2. ahead \in DOMAIN asked /\ call = NoCall
    BY <2>1 DEF QuestionTypes
  <2>3. QuestionTypes'
    BY <2>1, <2>2 DEF QuestionTypes
  <2>4. QueueOfAsked' /\ CancelledHasNewer'
    BY <2>1 DEF QueueOfAsked, CancelledHasNewer, Queued, Newer
  <2>5. NoneForgotten'
    BY <2>1 DEF NoneForgotten, Queued, Newer
  <2> QED  BY <2>3, <2>4, <2>5
<1> QED  BY <1>1, <1>2

(* The sentinel joins the queue, if there is room. *)
LEMMA CloseQuestions == QuestionInv /\ CloseAsk => QuestionInv'
<1> SUFFICES ASSUME QuestionInv, CloseAsk PROVE QuestionInv'
    OBVIOUS
<1> USE DEF QuestionInv
<1>1. /\ closed' = "asked"
      /\ UNCHANGED <<lock, call, asked, cancelled, ended, dropped, answered, ahead>>
      /\ queue' = IF Len(queue) < QueueMax THEN Append(queue, Stop) ELSE queue
  BY DEF CloseAsk
<1>2. Stop \in 0..MaxAsks
  BY QueueFacts DEF Stop
<1>3. /\ queue' \in Seq(0..MaxAsks) /\ Len(queue') <= QueueMax
      /\ DOMAIN queue \subseteq DOMAIN queue' /\ \A i \in DOMAIN queue : queue'[i] = queue[i]
      /\ \A i \in DOMAIN queue' \ DOMAIN queue : queue'[i] = Stop
  <2>1. CASE Len(queue) < QueueMax
    <3>1. /\ queue' \in Seq(0..MaxAsks) /\ Len(queue') = Len(queue) + 1
          /\ DOMAIN queue = 1..Len(queue) /\ Len(queue) \in Nat
          /\ DOMAIN queue' = 1..(Len(queue) + 1)
          /\ \A i \in DOMAIN queue : queue'[i] = queue[i]
          /\ queue'[Len(queue) + 1] = Stop
      BY <1>1, <1>2, <2>1, Joined DEF QuestionTypes
    <3>2. QueueMax \in Nat
      BY QueueFacts
    <3> QED  BY <2>1, <3>1, <3>2
  <2>2. CASE ~(Len(queue) < QueueMax)
    BY <1>1, <2>2 DEF QuestionTypes
  <2> QED  BY <2>1, <2>2
<1>4. QuestionTypes'
  BY <1>1, <1>3 DEF QuestionTypes
<1>5. QueueOfAsked'
  BY <1>1, <1>3 DEF QueueOfAsked
<1>6. CancelledHasNewer'
  BY <1>1 DEF CancelledHasNewer, Newer
<1>7. NoneForgotten'
  <2>1. \A h : Queued(h) => Queued(h)'
    BY <1>3 DEF Queued
  <2> QED  BY <1>1, <2>1 DEF NoneForgotten, Newer
<1> QED  BY <1>4, <1>5, <1>6, <1>7

LEMMA NextQuestions ==
  QuestionInv /\ CallInv /\ [PrefetchNext]_prefetchVars => QuestionInv'
<1> SUFFICES ASSUME QuestionInv, CallInv, [PrefetchNext]_prefetchVars PROVE QuestionInv'
    OBVIOUS
<1>1. /\ lock \in {"free", "turn", "ahead", "close"}
      /\ lock = "turn" <=> call # NoCall
      /\ lock = "ahead" => ahead \in DOMAIN asked
      /\ closed \in {"no", "asked", "yes"}
  BY DEF QuestionInv, QuestionTypes
<1>2. CASE Begin
  <2>1. Hit # NoCall /\ Miss(generation) # NoCall
    BY DEF Hit, Miss, NoCall
  <2>2. /\ UNCHANGED <<asked, queue, cancelled, ended, dropped, answered, ahead, closed>>
        /\ lock' = "turn" /\ call' # NoCall
    BY <1>2, <2>1 DEF Begin, questions
  <2> QED  BY <1>1, <2>2, QuestionsStay
<1>3. CASE Finish
  <2>1. /\ UNCHANGED <<asked, queue, cancelled, ended, dropped, answered, ahead, closed>>
        /\ lock' = "free" /\ call' = NoCall
    BY <1>3 DEF Finish, questions
  <2> QED  BY <1>1, <2>1, QuestionsStay
<1>4. CASE Generate \/ WorkerEnd \/ Deadline \/ Load
  <2>1. UNCHANGED <<asked, queue, cancelled, ended, dropped, answered, ahead, closed, lock>>
    BY <1>4 DEF Generate, WorkerEnd, Deadline, Load, questions
  <2>2. call' = call \/ (call # NoCall /\ call' # NoCall)
    <3>1. CASE Generate \/ Deadline \/ Load
      <4>1. call \in Passes /\ call # NoCall
        BY <3>1, StepTells, PassShape DEF Generate, Deadline, Load, CallInv
      <4>2. /\ [call EXCEPT !.step = "load"] # NoCall
            /\ [call EXCEPT !.step = "wait"] # NoCall
            /\ CutShort # NoCall
        BY <4>1, PassOn, CutOff, PassShape DEF CutShort
      <4>3. [step |-> "finish", gen |-> call.gen, rows |-> call.found \cap live,
             store |-> call.whole] # NoCall
        BY DEF NoCall
      <4> QED  BY <3>1, <4>1, <4>2, <4>3 DEF Generate, Deadline, Load
    <3>2. CASE WorkerEnd
      <4>1. CASE call' = call
        BY <4>1
      <4>2. CASE call' # call
        <5>1. call.step = "wait"
          BY <3>2, <4>2 DEF WorkerEnd
        <5>2. call \in Passes /\ call # NoCall
          BY <5>1, StepTells, PassShape DEF CallInv
        <5>3. PICK more : call' = [call EXCEPT !.step = "generate", !.left = Tail(@),
                                               !.found = @ \cup more]
          BY <3>2, <4>2 DEF WorkerEnd
        <5>4. call'.step = "generate"
          BY <5>2, <5>3 DEF Passes
        <5> QED  BY <5>2, <5>4 DEF NoCall
      <4> QED  BY <4>1, <4>2
    <3> QED  BY <1>4, <3>1, <3>2
  <2> QED  BY <1>1, <2>1, <2>2, QuestionsStay
<1>5. CASE Commit \/ CloseEnd \/ UNCHANGED prefetchVars
  <2>1. /\ UNCHANGED <<asked, queue, cancelled, ended, dropped, answered, ahead, lock, call>>
        /\ closed' \in {closed, "yes"}
    BY <1>5 DEF Commit, CloseEnd, prefetchVars, questions
  <2> QED  BY <1>1, <2>1, QuestionsStay
<1>6. CASE Ask \/ Take \/ AheadBegin \/ AheadEnd \/ CloseAsk
  BY <1>6, AskQuestions, TakeQuestions, AheadQuestions, CloseQuestions
<1> QED  BY <1>2, <1>3, <1>4, <1>5, <1>6 DEF PrefetchNext

LEMMA InitQuestions == PrefetchInit => QuestionInv
<1> SUFFICES ASSUME PrefetchInit PROVE QuestionInv
    OBVIOUS
<1>1. /\ asked = <<>> /\ queue = <<>> /\ ahead = Idle /\ closed = "no"
      /\ lock = "free" /\ call = NoCall
      /\ cancelled = {} /\ ended = {} /\ dropped = {} /\ answered = {}
  BY DEF PrefetchInit
<1>2. /\ <<>> \in Seq(Askers) /\ <<>> \in Seq(0..MaxAsks)
      /\ Len(<<>>) = 0 /\ DOMAIN <<>> = {}
  OBVIOUS
<1>3. 0 <= MaxAsks /\ 0 <= QueueMax
  BY PrefetchConstants DEF PrefetchConstants
<1>4. QuestionTypes
  BY <1>1, <1>2, <1>3 DEF QuestionTypes
<1>5. QueueOfAsked /\ CancelledHasNewer /\ NoneForgotten
  BY <1>1, <1>2 DEF QueueOfAsked, CancelledHasNewer, NoneForgotten, Queued
<1> QED  BY <1>4, <1>5 DEF QuestionInv

-----------------------------------------------------------------------------
(* The theorems.                                                           *)

LEMMA InitInv == PrefetchInit => IInv
  BY InitCall, InitHistory, InitQuestions DEF IInv

LEMMA NextInv == IInv /\ [PrefetchNext]_prefetchVars => IInv'
  BY NextCall, NextHistory, NextQuestions DEF IInv, QuestionInv

(* Every variable has its type, and who is in a call holds the lock. *)
THEOREM PrefetchTypes == PrefetchSpec => []PrefetchTypeOK
<1>1. IInv => PrefetchTypeOK
  <2> SUFFICES ASSUME IInv PROVE PrefetchTypeOK
    OBVIOUS
  <2>1. call.step \in {"none", "generate", "wait", "load", "finish"}
    BY PassShape, ResultShape DEF IInv, CallInv, CallTypes, NoCall
  <2>2. DOMAIN asked \subseteq 1..MaxAsks
    BY QueueFacts DEF IInv, QuestionInv
  <2> QED  BY <2>1, <2>2 DEF IInv, CallInv, CallTypes, HistoryInv, HistoryTypes,
                             QuestionInv, QuestionTypes, PrefetchTypeOK
<1> QED  BY InitInv, NextInv, <1>1, PTL DEF PrefetchSpec

(* Nothing is shown that was gone before the call began, although a call   *)
(* reads in several statements, commits fall between them, and abandoned   *)
(* generators still run. *)
THEOREM HitsAreCurrent == PrefetchSpec => []HitIsCurrent
<1>1. IInv => HitIsCurrent
  BY StepTells, ResultShape DEF IInv, CallInv, CallIsCurrent, HitIsCurrent
<1> QED  BY InitInv, NextInv, <1>1, PTL DEF PrefetchSpec

(* A memory that was shown comes back only after its distance, although    *)
(* the history is pruned every turn. *)
THEOREM GapsAreKept == PrefetchSpec => GapKept
<1> DEFINE Kept == \A m \in Memories : shown'[m] # shown[m] /\ Ever(m) =>
                     LET gap == shown'[m] - shown[m]
                     IN  IF m \in Pinned THEN gap >= RepeatTurns
                         ELSE gap > DedupTurns \/ (m \in Hot /\ gap > HotGap)
<1>1. IInv /\ [PrefetchNext]_prefetchVars => [Kept]_prefetchVars
  <2> SUFFICES ASSUME IInv, [PrefetchNext]_prefetchVars PROVE [Kept]_prefetchVars
    OBVIOUS
  <2>1. CASE Finish
    <3> SUFFICES ASSUME NEW m \in Memories, shown'[m] # shown[m], Ever(m)
                 PROVE  IF m \in Pinned THEN shown'[m] - shown[m] >= RepeatTurns
                        ELSE \/ shown'[m] - shown[m] > DedupTurns
                             \/ m \in Hot /\ shown'[m] - shown[m] > HotGap
      OBVIOUS
    <3>1. shown'[m] = calls + 1 /\ Fresh(m, calls + 1)
      BY <2>1, FinishShows DEF IInv
    <3>2. /\ calls \in Nat /\ shown[m] \in Nat /\ recent[m] \in Nat
          /\ recent[m] # 0 => recent[m] = shown[m]
          /\ recent[m] = 0 => calls - shown[m] > Longer + 1
      BY DEF IInv, HistoryInv, HistoryTypes, HistoryIsLong
    <3>3. CASE recent[m] = 0
      BY <3>1, <3>2, <3>3, LongerIsLonger
    <3>4. CASE recent[m] # 0
      BY <3>1, <3>2, <3>4, LongerIsLonger DEF Fresh
    <3> QED  BY <3>3, <3>4
  <2>2. CASE shown' = shown
    BY <2>2
  <2>3. Finish \/ shown' = shown
    BY DEF PrefetchNext, prefetchVars, Commit, Begin, Generate, WorkerEnd, Deadline, Load,
           Ask, Take, AheadBegin, AheadEnd, CloseAsk, CloseEnd
  <2> QED  BY <2>1, <2>2, <2>3
<1> QED  BY InitInv, NextInv, <1>1, PTL DEF PrefetchSpec, GapKept

(* No question is lost: it waits, is being computed, was computed, fell    *)
(* out of a full queue, or has ended with a newer one of its session. *)
THEOREM NoQuestionIsLost == PrefetchSpec => []NoneForgotten
<1>1. IInv => NoneForgotten
  BY DEF IInv, QuestionInv
<1> QED  BY InitInv, NextInv, <1>1, PTL DEF PrefetchSpec
=============================================================================
