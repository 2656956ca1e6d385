----------------------------- MODULE VaultProofs -----------------------------
(***************************************************************************)
(* Theorems about VaultSchedule, for any number of pages, any length of    *)
(* the chain of keys, any delays and any number of attempts.  That no      *)
(* write is lost is proved for workers of which no two carry one kind of   *)
(* job: of two projections the older rows may be written last.  Then       *)
(* theorems about VaultPages, for any memories, statements and limit.      *)
(* Last one about NoteIndex, for any notes, titles and number of writes.   *)
(***************************************************************************)
EXTENDS VaultSchedule, VaultPages, NoteIndex, WellFoundedInduction, FiniteSetTheorems, TLAPS

-----------------------------------------------------------------------------
(* The inductive invariant.                                                *)

(* Who runs a job holds its row, and carries its kind; who runs none has   *)
(* read nothing. *)
Owned ==
    \A w \in Workers :
      /\ job[w] = NoRow => snap[w] = NoSnap
      /\ job[w] # NoRow => Holds(w, job[w]) /\ job[w][1] \in handles[w]

(* A projection will still read the rows of page p. *)
RenderAhead(r, p) ==
    \/ Waiting(r)
    \/ /\ status[r] = "running"
       /\ \A w \in Workers : job[w] = r => pos[w] <= p /\ snap[w][p] # "stale"

(* A refresh will still read page p, or holds it as it is. *)
RefreshAhead(r, p) ==
    \/ Waiting(r)
    \/ /\ status[r] = "running"
       /\ \A w \in Workers : job[w] = r =>
            pos[w] <= NPages + 1 /\ (pos[w] <= p \/ snap[w][p] = "current")

(* A projection will still request a refresh. *)
RequestAhead(r) ==
    \/ Waiting(r)
    \/ /\ status[r] = "running"
       /\ \A w \in Workers : job[w] = r => pos[w] <= NPages + 1

(* The page does not show the store, or is about to be written from rows   *)
(* that are older than it. *)
PageBehind(p) ==
    ~page[p] \/ \E w \in Workers : Handling(w, "project") /\ snap[w][p] = "stale"

(* The index does not show the page, or is about to be written without it. *)
IndexBehind(p) ==
    \/ ~index[p]
    \/ \E w \in Workers : Handling(w, "reindex") /\ pos[w] > p /\ snap[w][p] # "current"

PageSeenTo(p) ==
    givenUp["project"] \/ \E r \in Rows : r[1] = "project" /\ RenderAhead(r, p)

IndexSeenTo(p) ==
    \/ givenUp["project"] \/ givenUp["reindex"]
    \/ \E r \in Rows : r[1] = "reindex" /\ RefreshAhead(r, p)
    \/ \E r \in Rows : r[1] = "project" /\ RequestAhead(r)

PagesCovered == \A p \in Pages : PageBehind(p) => PageSeenTo(p)
NotesCovered == \A p \in Pages : IndexBehind(p) => IndexSeenTo(p)

(* A running row was attempted, and a waiting one may be once more. *)
Counted ==
    \A r \in Rows :
      /\ status[r] = "running" => attempts[r] # 0
      /\ status[r] \in {"none", "queued", "failed"} => attempts[r] < MaxAttempts

IInv ==
    /\ TypeOK
    /\ Counted
    /\ Alone => Owned /\ PagesCovered /\ NotesCovered

Statuses == {"none", "queued", "running", "failed", "done", "dead"}

-----------------------------------------------------------------------------
(* Rows, and the chain walk.                                               *)

LEMMA RowShape ==
  /\ \A r \in Rows : /\ r # NoRow /\ r[1] \in Kinds /\ r[2] \in 1..MaxChain
                     /\ r = <<r[1], r[2]>>
  /\ NoRow[1] = "none" /\ NoRow[1] \notin Kinds
  /\ \A k \in Kinds, i \in 1..MaxChain : <<k, i>> \in Rows /\ <<k, i>>[1] = k
  BY DEF Rows, NoRow, Kinds

LEMMA FirstIn ==
  ASSUME NEW S \in SUBSET Nat, S # {}
  PROVE  First(S) \in S /\ \A j \in S : First(S) <= j
<1>1. PICK R : IsWellFoundedOn(R, Nat) /\ \A i, j \in Nat : i < j => <<i, j>> \in R
  <2>1. \A i, j \in Nat : i < j => <<i, j>> \in OpToRel(<, Nat)
    BY DEF OpToRel
  <2> QED  BY <2>1, NatLessThanWellFounded
<1>2. S \subseteq Nat
  OBVIOUS
<1>3. \E i \in S : \A j \in S : ~ (<<j, i>> \in R)
  <2>1. IsWellFoundedOn(R, Nat)
    BY <1>1
  <2> QED  BY <2>1, <1>2, WFMin, Zenon
<1>4. PICK i \in S : \A j \in S : ~ (<<j, i>> \in R)
  BY <1>3
<1>5. ASSUME NEW j \in S PROVE i <= j
  <2>1. i \in Nat /\ j \in Nat
    BY <1>2
  <2>2. ~ (<<j, i>> \in R)
    BY <1>4
  <2>3. ~(j < i)
    BY <1>1, <2>1, <2>2
  <2> QED  BY <2>1, <2>3
<1> QED  BY <1>4, <1>5 DEF First

(* A request leaves a row of its kind waiting, or gives up; it moves no    *)
(* row but a new one. *)
LEMMA RequestMoves ==
  ASSUME TypeOK, NEW k \in Kinds, NEW when \in [Rows -> Nat], Request(k, when)
  PROVE  /\ status' \in [Rows -> Statuses] /\ due' \in [Rows -> Nat]
         /\ age' \in [Rows -> 0..MaxWait] /\ givenUp' \in [Kinds -> BOOLEAN]
         /\ \A r \in Rows : \/ status'[r] = status[r]
                            \/ status[r] = "none" /\ status'[r] = "queued"
         /\ givenUp'[k] \/ \E r \in Rows : r[1] = k /\ Waiting(r)'
         /\ \A j \in Kinds \ {k} : givenUp'[j] = givenUp[j]
<1>1. CASE Open(k) = {}
  <2>1. givenUp' = [givenUp EXCEPT ![k] = TRUE] /\ givenUp \in [Kinds -> BOOLEAN]
    BY <1>1 DEF Request, TypeOK
  <2>2. status' = status /\ due' = due /\ age' = age
    BY <1>1 DEF Request
  <2>3. /\ givenUp' \in [Kinds -> BOOLEAN] /\ givenUp'[k]
        /\ \A j \in Kinds \ {k} : givenUp'[j] = givenUp[j]
    BY <2>1, Zenon
  <2>4. /\ status' \in [Rows -> Statuses] /\ due' \in [Rows -> Nat]
        /\ age' \in [Rows -> 0..MaxWait]
    BY <2>2 DEF TypeOK, Statuses
  <2>5. \A r \in Rows : status'[r] = status[r]
    BY <2>2
  <2> QED  BY <2>3, <2>4, <2>5
<1>2. CASE Open(k) # {}
  <2>1. Open(k) \in SUBSET Nat
    BY VaultConstants DEF Open
  <2>2. First(Open(k)) \in Open(k)
    BY <1>2, <2>1, FirstIn
  <2>3. PICK i \in 1..MaxChain : /\ i = First(Open(k))
                                /\ status[<<k, i>>] \in {"none", "queued", "failed"}
    BY <2>2 DEF Open
  <2>4. PICK r \in Rows : r = <<k, i>> /\ r[1] = k
    BY <2>3, RowShape
  <2>5. /\ status' = [status EXCEPT ![r] = IF @ = "none" THEN "queued" ELSE @]
        /\ due' = [due EXCEPT ![r] = when[r]]
        /\ age' = [age EXCEPT ![r] = IF status[r] = "none" THEN 0 ELSE @]
        /\ givenUp' = [givenUp EXCEPT ![k] = FALSE]
    BY <1>2, <2>3, <2>4 DEF Request
  <2>6. status' \in [Rows -> Statuses] /\ due' \in [Rows -> Nat]
    BY <2>4, <2>5 DEF TypeOK, Statuses
  <2>7. age' \in [Rows -> 0..MaxWait] /\ givenUp' \in [Kinds -> BOOLEAN]
    BY <2>4, <2>5, VaultConstants DEF TypeOK
  <2>8. status'[r] \in {"queued", "failed"}
    BY <2>3, <2>4, <2>5 DEF TypeOK
  <2>9. \A q \in Rows : \/ status'[q] = status[q]
                        \/ status[q] = "none" /\ status'[q] = "queued"
    <3>1. status' = [status EXCEPT ![r] = IF status[r] = "none" THEN "queued" ELSE status[r]]
      BY <2>5
    <3>2. status \in [Rows -> Statuses]
      BY DEF TypeOK, Statuses
    <3> QED  BY <3>1, <3>2, <2>4
  <2>10. ASSUME NEW j \in Kinds \ {k} PROVE givenUp'[j] = givenUp[j]
    <3>1. givenUp' = [givenUp EXCEPT ![k] = FALSE] /\ givenUp \in [Kinds -> BOOLEAN]
      BY <2>5 DEF TypeOK
    <3> QED  BY <3>1, Zenon
  <2>11. Waiting(r)'
    BY <2>8 DEF Waiting
  <2> QED  BY <2>4, <2>6, <2>7, <2>9, <2>10, <2>11
<1> QED  BY <1>1, <1>2

(* Two workers do not run jobs of one kind. *)
LEMMA NotOfItsKind ==
  ASSUME Alone, Owned, NEW v \in Workers, NEW w \in Workers, v # w,
         job[v] # NoRow, NEW k \in handles[w]
  PROVE  job[v][1] # k
  BY DEF Alone, Owned

LEMMA OutdatedType ==
  ASSUME TypeOK, NEW k \in Kinds, NEW S \in SUBSET Pages
  PROVE  /\ Outdated(k, S) \in [Workers -> [Pages -> {"none", "current", "stale"}]]
         /\ \A w \in Workers : ~Handling(w, k) => Outdated(k, S)[w] = snap[w]
<1>1. \A w \in Workers : snap[w] \in [Pages -> {"none", "current", "stale"}]
  BY DEF TypeOK
<1>2. Outdated(k, S) \in [Workers -> [Pages -> {"none", "current", "stale"}]]
  BY <1>1 DEF Outdated
<1>3. ASSUME NEW w \in Workers, ~Handling(w, k)
      PROVE  Outdated(k, S)[w] = snap[w]
  <2>1. Outdated(k, S)[w] = [p \in Pages |-> snap[w][p]]
    BY <1>3 DEF Outdated
  <2> QED  BY <1>1, <2>1
<1> QED  BY <1>2, <1>3

-----------------------------------------------------------------------------
(* Types.                                                                  *)

LEMMA RunAtType == TypeOK => \A r \in Rows : RunAt(r) \in Nat
  BY VaultConstants DEF TypeOK, RunAt

LEMMA InitType == Init => TypeOK
  BY VaultConstants DEF Init, TypeOK, NoSnap

LEMMA InitCounted == Init => Counted
  BY VaultConstants DEF Init, Counted

LEMMA WriteType ==
  ASSUME TypeOK, Counted, NEW S \in SUBSET Pages, Write(S) PROVE TypeOK' /\ Counted'
<1>1. Request("project", [r \in Rows |-> RunAt(r)]) /\ snap' = Outdated("project", S)
  BY DEF Write
<1>2. [r \in Rows |-> RunAt(r)] \in [Rows -> Nat] /\ "project" \in Kinds
  BY RunAtType DEF Kinds
<1>3. /\ status' \in [Rows -> Statuses] /\ due' \in [Rows -> Nat]
      /\ age' \in [Rows -> 0..MaxWait] /\ givenUp' \in [Kinds -> BOOLEAN]
      /\ \A r \in Rows : \/ status'[r] = status[r]
                         \/ status[r] = "none" /\ status'[r] = "queued"
  BY <1>1, <1>2, RequestMoves
<1>4. snap' \in [Workers -> [Pages -> {"none", "current", "stale"}]]
  BY <1>1, <1>2, OutdatedType
<1>5. page' \in [Pages -> BOOLEAN]
  BY DEF Write, TypeOK
<1>6. TypeOK'
  BY <1>3, <1>4, <1>5 DEF Write, TypeOK, Statuses
<1>7. Counted'
  BY <1>3 DEF Write, Counted
<1> QED  BY <1>6, <1>7

LEMMA PutDownType ==
  ASSUME TypeOK, NEW w \in Workers, PutDown(w)
  PROVE  /\ job' \in [Workers -> Rows \cup {NoRow}]
         /\ pos' \in [Workers -> 1..(NPages + 2)]
         /\ snap' \in [Workers -> [Pages -> {"none", "current", "stale"}]]
  BY VaultConstants DEF TypeOK, PutDown, NoSnap

LEMMA ClaimType ==
  ASSUME TypeOK, Counted, NEW w \in Workers, NEW r \in Rows, Claim(w, r)
  PROVE  TypeOK' /\ Counted'
<1>1. PICK spent \in SUBSET {q \in Ready(w) : Exhausted(q)} :
         /\ status' = [q \in Rows |-> CASE q = r     -> "running"
                                        [] q \in spent -> "dead"
                                        [] OTHER     -> status[q]]
         /\ holder' = [q \in Rows |-> IF q = r THEN w ELSE IF q \in spent THEN Nobody ELSE holder[q]]
         /\ givenUp' = [k \in Kinds |-> givenUp[k] \/ \E q \in spent : q[1] = k]
         /\ late' = [q \in Rows |-> late[q] /\ q # r /\ q \notin spent]
  BY DEF Claim
<1>2. status' \in [Rows -> Statuses] /\ holder' \in [Rows -> Workers \cup {Nobody}]
  BY <1>1 DEF TypeOK, Statuses
<1>3. late' \in [Rows -> BOOLEAN] /\ givenUp' \in [Kinds -> BOOLEAN]
  <2>1. late' \in [Rows -> BOOLEAN]
    BY <1>1
  <2>2. givenUp' \in [Kinds -> BOOLEAN]
    BY <1>1
  <2> QED  BY <2>1, <2>2
<1>4. attempts[r] \in 0..MaxAttempts /\ attempts[r] < MaxAttempts
  BY VaultConstants DEF Claim, Exhausted, TypeOK, Ready, Waiting, Counted
<1>5. attempts' \in [Rows -> 0..MaxAttempts] /\ attempts'[r] # 0
  BY <1>4, VaultConstants DEF Claim, TypeOK
<1>6. /\ job' \in [Workers -> Rows \cup {NoRow}] /\ pos' \in [Workers -> 1..(NPages + 2)]
      /\ age' \in [Rows -> 0..MaxWait]
  BY VaultConstants DEF Claim, TypeOK
<1>7. TypeOK'
  BY <1>2, <1>3, <1>5, <1>6 DEF Claim, TypeOK, Statuses, files
<1>8. \A q \in Rows \ {r} : attempts'[q] = attempts[q]
  BY DEF Claim, TypeOK
<1>9. \A q \in Rows \ {r} : status'[q] = "dead" \/ status'[q] = status[q]
  BY <1>1
<1>10. status'[r] = "running"
  <2>1. status' = [q \in Rows |-> CASE q = r     -> "running"
                                    [] q \in spent -> "dead"
                                    [] OTHER     -> status[q]]
    BY <1>1, Zenon
  <2>2. r \notin spent
    BY DEF Claim
  <2> QED  BY <2>1, <2>2
<1>11. Counted'
  BY <1>5, <1>8, <1>9, <1>10 DEF Counted
<1> QED  BY <1>7, <1>11

LEMMA ClaimNothingType ==
  ASSUME TypeOK, Counted, NEW w \in Workers, ClaimNothing(w) PROVE TypeOK' /\ Counted'
<1>1. status' \in [Rows -> Statuses] /\ holder' \in [Rows -> Workers \cup {Nobody}]
  BY DEF ClaimNothing, TypeOK, Statuses
<1>2. late' \in [Rows -> BOOLEAN] /\ givenUp' \in [Kinds -> BOOLEAN]
  BY DEF ClaimNothing
<1>3. TypeOK'
  BY <1>1, <1>2 DEF ClaimNothing, TypeOK, Statuses, files, work
<1>4. Counted'
  BY DEF ClaimNothing, Counted
<1> QED  BY <1>3, <1>4

LEMMA CompleteType ==
  ASSUME TypeOK, Counted, NEW w \in Workers, Complete(w) PROVE TypeOK' /\ Counted'
<1>1. PICK r \in Rows : r = job[w]
  BY DEF Complete, TypeOK
<1>2. /\ status' = [status EXCEPT ![r] = "done"]
      /\ holder' = [holder EXCEPT ![r] = Nobody]
      /\ late' = [late EXCEPT ![r] = FALSE]
      /\ PutDown(w)
      /\ UNCHANGED <<handles, due, age, attempts, files, givenUp>>
  BY <1>1 DEF Complete
<1>3. TypeOK'
  BY <1>2, PutDownType DEF TypeOK, files
<1>4. Counted'
  BY <1>2 DEF TypeOK, Counted
<1> QED  BY <1>3, <1>4

LEMMA FailType ==
  ASSUME TypeOK, Counted, NEW w \in Workers, NEW permanent \in BOOLEAN, Fail(w, permanent)
  PROVE  TypeOK' /\ Counted'
<1>1. PICK r \in Rows : r = job[w]
  BY DEF Fail, TypeOK
<1> DEFINE dead == permanent \/ attempts[r] >= MaxAttempts
<1>2. /\ status[r] = "running"
      /\ status' = [status EXCEPT ![r] = IF dead THEN "dead" ELSE "failed"]
      /\ due' = [due EXCEPT ![r] = IF dead THEN @ ELSE Backoff[attempts[r]]]
      /\ holder' = [holder EXCEPT ![r] = Nobody]
      /\ late' = [late EXCEPT ![r] = FALSE]
      /\ givenUp' = [givenUp EXCEPT ![r[1]] = @ \/ dead]
      /\ PutDown(w)
      /\ UNCHANGED <<handles, age, attempts, files>>
  BY <1>1 DEF Fail, Holds
<1>3. attempts[r] \in 1..MaxAttempts
  BY <1>2, VaultConstants DEF Counted, TypeOK
<1>4. Backoff[attempts[r]] \in Nat
  BY <1>3, VaultConstants
<1>5. status' \in [Rows -> Statuses] /\ due' \in [Rows -> Nat]
  BY <1>2, <1>4 DEF TypeOK, Statuses
<1>6. givenUp' \in [Kinds -> BOOLEAN]
  BY <1>2 DEF TypeOK
<1>7. TypeOK'
  BY <1>2, <1>5, <1>6, PutDownType DEF TypeOK, files, Statuses
<1>8. \A q \in Rows \ {r} : status'[q] = status[q]
  BY <1>2 DEF TypeOK
<1>9. status'[r] = "dead" \/ (status'[r] = "failed" /\ attempts[r] < MaxAttempts)
  BY <1>2, <1>3, VaultConstants DEF TypeOK
<1>10. Counted'
  BY <1>2, <1>8, <1>9 DEF Counted
<1> QED  BY <1>7, <1>10

LEMMA CrashType ==
  ASSUME TypeOK, Counted, NEW w \in Workers, Crash(w) \/ Lost(w) PROVE TypeOK' /\ Counted'
<1>1. PutDown(w) /\ UNCHANGED <<handles, chain, files, givenUp>>
  BY DEF Crash, Lost
<1> QED  BY <1>1, PutDownType DEF TypeOK, Counted, chain, files

LEMMA TimeType ==
  ASSUME TypeOK, Counted, Tick \/ \E r \in Rows : LeaseRunsOut(r) PROVE TypeOK' /\ Counted'
<1>1. CASE Tick
  <2>1. due' \in [Rows -> Nat]
    BY <1>1 DEF Tick, TypeOK
  <2>2. age' \in [Rows -> 0..MaxWait]
    BY <1>1, VaultConstants DEF Tick, TypeOK
  <2> QED  BY <1>1, <2>1, <2>2 DEF Tick, TypeOK, Counted, files, work
<1>2. ASSUME NEW r \in Rows, LeaseRunsOut(r) PROVE TypeOK' /\ Counted'
  BY <1>2 DEF LeaseRunsOut, TypeOK, Counted, files, work
<1> QED  BY <1>1, <1>2

LEMMA RenderType ==
  ASSUME TypeOK, Counted, NEW w \in Workers,
         Replace(w) \/ \E last \in Pages : QueryRows(w, last)
  PROVE  TypeOK' /\ Counted'
<1> DEFINE Snaps == [Pages -> {"none", "current", "stale"}]
<1>1. ASSUME NEW last \in Pages, QueryRows(w, last) PROVE TypeOK' /\ Counted'
  <2>1. snap' \in [Workers -> Snaps]
    BY <1>1 DEF QueryRows, TypeOK
  <2> QED  BY <1>1, <2>1 DEF QueryRows, TypeOK, Counted, chain, files
<1>2. CASE Replace(w)
  <2>1. PICK p \in Pages : p = pos[w]
    BY <1>2, VaultConstants DEF Replace, Rendering, Pages, TypeOK
  <2>2. PICK base : /\ base \in {snap, Outdated("reindex", {p})}
                    /\ snap' = [base EXCEPT ![w][p] = "none"]
    BY <1>2, <2>1 DEF Replace
  <2>3. base \in [Workers -> Snaps]
    <3>1. "reindex" \in Kinds /\ {p} \in SUBSET Pages
      BY DEF Kinds
    <3> QED  BY <2>2, <3>1, OutdatedType DEF TypeOK
  <2>4. snap' \in [Workers -> Snaps]
    BY <2>2, <2>3
  <2>5. page' \in [Pages -> BOOLEAN] /\ index' \in [Pages -> BOOLEAN]
    BY <1>2, <2>1 DEF Replace, TypeOK
  <2>6. pos' \in [Workers -> 1..(NPages + 2)]
    BY <1>2, VaultConstants DEF Replace, Rendering, TypeOK
  <2> QED  BY <1>2, <2>4, <2>5, <2>6 DEF Replace, TypeOK, Counted, chain
<1> QED  BY <1>1, <1>2

LEMMA RefreshType ==
  ASSUME TypeOK, Counted, NEW w \in Workers,
         RequestRefresh(w) \/ ReadNote(w) \/ CommitIndex(w)
  PROVE  TypeOK' /\ Counted'
<1>1. CASE RequestRefresh(w)
  <2>1. [r \in Rows |-> 0] \in [Rows -> Nat] /\ "reindex" \in Kinds
    BY DEF Kinds
  <2>2. /\ status' \in [Rows -> Statuses] /\ due' \in [Rows -> Nat]
        /\ age' \in [Rows -> 0..MaxWait] /\ givenUp' \in [Kinds -> BOOLEAN]
        /\ \A r \in Rows : \/ status'[r] = status[r]
                           \/ status[r] = "none" /\ status'[r] = "queued"
    <3>1. CASE Request("reindex", [r \in Rows |-> 0])
      BY <2>1, <3>1, RequestMoves
    <3>2. CASE /\ givenUp' = [givenUp EXCEPT !["reindex"] = TRUE]
               /\ UNCHANGED <<status, due, age>>
      <4>1. givenUp' \in [Kinds -> BOOLEAN]
        BY <3>2 DEF TypeOK
      <4>2. status' = status /\ due' = due /\ age' = age
        BY <3>2
      <4>3. /\ status' \in [Rows -> Statuses] /\ due' \in [Rows -> Nat]
            /\ age' \in [Rows -> 0..MaxWait]
        BY <4>2 DEF TypeOK, Statuses
      <4>4. \A r \in Rows : status'[r] = status[r]
        BY <4>2
      <4> QED  BY <4>1, <4>3, <4>4
    <3> QED  BY <1>1, <3>1, <3>2 DEF RequestRefresh
  <2>3. pos' \in [Workers -> 1..(NPages + 2)]
    BY <1>1, VaultConstants DEF RequestRefresh, TypeOK
  <2>4. TypeOK'
    BY <1>1, <2>2, <2>3 DEF RequestRefresh, TypeOK, Statuses, files
  <2>5. Counted'
    BY <1>1, <2>2 DEF RequestRefresh, Counted
  <2> QED  BY <2>4, <2>5
<1>2. CASE ReadNote(w)
  <2>1. pos[w] \in Pages
    BY <1>2, VaultConstants DEF ReadNote, TypeOK, Pages
  <2>2. snap' \in [Workers -> [Pages -> {"none", "current", "stale"}]]
    BY <1>2, <2>1 DEF ReadNote, TypeOK
  <2>3. pos' \in [Workers -> 1..(NPages + 2)]
    BY <1>2, VaultConstants DEF ReadNote, TypeOK
  <2> QED  BY <1>2, <2>2, <2>3 DEF ReadNote, TypeOK, Counted, chain, files
<1>3. CASE CommitIndex(w)
  <2>1. pos' \in [Workers -> 1..(NPages + 2)] /\ index' \in [Pages -> BOOLEAN]
    BY <1>3, VaultConstants DEF CommitIndex, TypeOK
  <2> QED  BY <1>3, <2>1 DEF CommitIndex, TypeOK, Counted, chain
<1> QED  BY <1>1, <1>2, <1>3

LEMMA TypeStep ==
  ASSUME TypeOK, Counted, [Next]_vars PROVE TypeOK' /\ Counted'
<1>1. CASE UNCHANGED vars
  BY <1>1 DEF vars, TypeOK, Counted
<1>2. CASE Next
  BY <1>2, WriteType, ClaimType, ClaimNothingType, CompleteType, FailType, CrashType,
     TimeType, RenderType, RefreshType
     DEF Next, HandlerStep
<1> QED  BY <1>1, <1>2

-----------------------------------------------------------------------------
(* What is ahead stays ahead of a step that concerns other rows.           *)

(* A handler runs a row, of the kind it handles. *)
LEMMA HandlerRow ==
  ASSUME TypeOK, NEW w \in Workers, NEW k \in Kinds, Handling(w, k)
  PROVE  \E r \in Rows : job[w] = r /\ r[1] = k /\ r # NoRow
  BY RowShape DEF Handling, TypeOK

(* Two workers do not run jobs of one kind. *)
LEMMA OneRunner ==
  ASSUME TypeOK, Alone, Owned, NEW v \in Workers, NEW w \in Workers,
         NEW q \in Rows, NEW r \in Rows, job[v] = q, job[w] = r, q[1] = r[1]
  PROVE  v = w
<1>1. q # NoRow /\ r # NoRow
  BY RowShape
<1>2. q[1] \in handles[v] /\ r[1] \in handles[w]
  BY <1>1 DEF Owned
<1> QED  BY <1>2 DEF Alone

(* The row q did not move, and its worker, if any, was there before. *)
Untouched(q) ==
    /\ Waiting(q) => Waiting(q)'
    /\ status[q] = "running" => status'[q] = "running"
    /\ \A v \in Workers : job'[v] = q =>
         job[v] = q /\ pos'[v] = pos[v] /\ snap'[v] = snap[v]

LEMMA AheadStays ==
  ASSUME NEW q \in Rows, Untouched(q), NEW p \in Pages
  PROVE  /\ RenderAhead(q, p) => RenderAhead(q, p)'
         /\ RefreshAhead(q, p) => RefreshAhead(q, p)'
         /\ RequestAhead(q) => RequestAhead(q)'
  BY DEF Untouched, RenderAhead, RefreshAhead, RequestAhead

(* The handlers of kind k are where they were, but for those gone. *)
Quiet(k) ==
    \A v \in Workers : Handling(v, k)' =>
        Handling(v, k) /\ pos'[v] = pos[v] /\ snap'[v] = snap[v]

LEMMA BehindBefore ==
  ASSUME NEW p \in Pages
  PROVE  /\ page'[p] = page[p] /\ Quiet("project") /\ PageBehind(p)' => PageBehind(p)
         /\ index'[p] = index[p] /\ Quiet("reindex") /\ IndexBehind(p)' => IndexBehind(p)
  BY DEF Quiet, PageBehind, IndexBehind

(* A step that leaves no page and no note further behind, and of every row *)
(* that was ahead either leaves it so or gives up its kind. *)
Keeps ==
    /\ \A k \in Kinds : givenUp[k] => givenUp'[k]
    /\ \A p \in Pages :
         /\ PageBehind(p)' => PageBehind(p)
         /\ IndexBehind(p)' => IndexBehind(p)
         /\ \A q \in Rows :
              /\ q[1] = "project" =>
                   /\ RenderAhead(q, p) => givenUp'[q[1]] \/ RenderAhead(q, p)'
                   /\ RequestAhead(q) => givenUp'[q[1]] \/ RequestAhead(q)'
              /\ q[1] = "reindex" =>
                   (RefreshAhead(q, p) => givenUp'[q[1]] \/ RefreshAhead(q, p)')

LEMMA KeepsCovered ==
  ASSUME PagesCovered, NotesCovered, Keeps PROVE PagesCovered' /\ NotesCovered'
<1>1. "project" \in Kinds /\ "reindex" \in Kinds
  BY DEF Kinds
<1>2. ASSUME NEW p \in Pages, PageBehind(p)' PROVE PageSeenTo(p)'
  <2>1. PageSeenTo(p)
    BY <1>2 DEF Keeps, PagesCovered
  <2> QED  BY <2>1, <1>1 DEF Keeps, PageSeenTo
<1>3. ASSUME NEW p \in Pages, IndexBehind(p)' PROVE IndexSeenTo(p)'
  <2>1. IndexSeenTo(p)
    BY <1>3 DEF Keeps, NotesCovered
  <2> QED  BY <2>1, <1>1 DEF Keeps, IndexSeenTo
<1> QED  BY <1>2, <1>3 DEF PagesCovered, NotesCovered

-----------------------------------------------------------------------------
(* The steps of the queue: who owns a row, and what is still ahead.        *)

(* Every worker that runs a job after the step ran it before. *)
LEMMA OwnedStays ==
  ASSUME Owned, handles' = handles,
         \A v \in Workers :
           /\ job'[v] = NoRow => snap'[v] = NoSnap
           /\ job'[v] # NoRow =>
                /\ job'[v] = job[v]
                /\ status'[job[v]] = status[job[v]]
                /\ holder'[job[v]] = holder[job[v]]
  PROVE  Owned'
  BY DEF Owned, Holds

LEMMA WriteCovers ==
  ASSUME TypeOK, Alone, Owned, NEW S \in SUBSET Pages, Write(S)
  PROVE  Owned' /\ PagesCovered' /\ NotesCovered'
<1>1. [r \in Rows |-> RunAt(r)] \in [Rows -> Nat] /\ "project" \in Kinds
  BY RunAtType DEF Kinds
<1>2. /\ \A r \in Rows : \/ status'[r] = status[r]
                         \/ status[r] = "none" /\ status'[r] = "queued"
      /\ givenUp'["project"] \/ \E r \in Rows : r[1] = "project" /\ Waiting(r)'
  BY <1>1, RequestMoves DEF Write
<1>3. \A v \in Workers : ~Handling(v, "project") => snap'[v] = snap[v]
  BY <1>1, OutdatedType DEF Write
<1>4. Owned'
  <2>1. ASSUME NEW v \in Workers, job[v] = NoRow PROVE snap'[v] = NoSnap
    BY <2>1, <1>1, <1>3, RowShape DEF Owned, Handling
  <2>2. ASSUME NEW v \in Workers, job[v] # NoRow
        PROVE  status'[job[v]] = "running" /\ holder'[job[v]] = v /\ job[v][1] \in handles'[v]
    BY <2>2, <1>2 DEF Owned, Holds, Write, TypeOK
  <2> QED  BY <2>1, <2>2 DEF Owned, Holds, Write
<1>5. ASSUME NEW p \in Pages PROVE PageSeenTo(p)' /\ IndexSeenTo(p)'
  BY <1>2 DEF PageSeenTo, IndexSeenTo, RenderAhead, RequestAhead
<1> QED  BY <1>4, <1>5 DEF PagesCovered, NotesCovered

(* The worker w takes up the row r, and the rows spent are dead. *)
LEMMA ClaimCovers ==
  ASSUME TypeOK, Alone, Owned, NEW w \in Workers, NEW r \in Rows, Claim(w, r)
  PROVE  Owned' /\ Keeps
<1>1. PICK spent \in SUBSET {q \in Ready(w) : Exhausted(q)} :
         /\ status' = [q \in Rows |-> CASE q = r     -> "running"
                                        [] q \in spent -> "dead"
                                        [] OTHER     -> status[q]]
         /\ holder' = [q \in Rows |-> IF q = r THEN w ELSE IF q \in spent THEN Nobody ELSE holder[q]]
         /\ givenUp' = [k \in Kinds |-> givenUp[k] \/ \E q \in spent : q[1] = k]
  BY DEF Claim
<1>2. /\ r[1] \in handles[w] /\ r \notin spent /\ r # NoRow
      /\ \A q \in spent : q[1] \in handles[w] /\ q \in Rows
  BY RowShape DEF Claim, Ready
<1>3. status'[r] = "running" /\ holder'[r] = w
  <2>1. status' = [q \in Rows |-> CASE q = r     -> "running"
                                    [] q \in spent -> "dead"
                                    [] OTHER     -> status[q]]
    BY <1>1, Zenon
  <2>2. holder' = [q \in Rows |-> IF q = r THEN w ELSE IF q \in spent THEN Nobody ELSE holder[q]]
    BY <1>1, Zenon
  <2> QED  BY <2>1, <2>2, <1>2
<1>4. \A q \in Rows : q # r /\ q \notin spent => status'[q] = status[q] /\ holder'[q] = holder[q]
  BY <1>1
<1>5. /\ job[w] = NoRow /\ job'[w] = r /\ pos'[w] = 1
      /\ \A v \in Workers \ {w} : job'[v] = job[v] /\ pos'[v] = pos[v]
      /\ snap' = snap /\ page' = page /\ index' = index /\ handles' = handles
  BY DEF Claim, TypeOK, files
<1>6. snap[w] = NoSnap
  BY <1>5 DEF Owned
<1>7. ASSUME NEW v \in Workers \ {w}, job[v] # NoRow
      PROVE  job[v] \in Rows /\ job[v] # r /\ job[v] \notin spent
  <2>1. job[v][1] \notin handles[w]
    BY <1>7, NotOfItsKind
  <2> QED  BY <2>1, <1>2, <1>7 DEF TypeOK
<1>8. Owned'
  <2>1. ASSUME NEW v \in Workers, job'[v] = NoRow PROVE snap'[v] = NoSnap
    BY <2>1, <1>2, <1>5 DEF Owned
  <2>2. ASSUME NEW v \in Workers, job'[v] # NoRow
        PROVE  status'[job'[v]] = "running" /\ holder'[job'[v]] = v /\ job'[v][1] \in handles'[v]
    <3>1. CASE v = w
      BY <3>1, <1>2, <1>3, <1>5
    <3>2. CASE v # w
      BY <3>2, <2>2, <1>4, <1>5, <1>7 DEF Owned, Holds
    <3> QED  BY <3>1, <3>2
  <2> QED  BY <2>1, <2>2 DEF Owned, Holds
<1>9. ASSUME NEW k \in Kinds, givenUp[k] PROVE givenUp'[k]
  BY <1>1, <1>9
<1>10. ASSUME NEW p \in Pages
       PROVE  /\ PageBehind(p)' => PageBehind(p)
              /\ IndexBehind(p)' => IndexBehind(p)
  <2>1. ~ (snap'[w][p] = "stale") /\ ~ (pos'[w] > p)
    BY <1>5, <1>6 DEF NoSnap, Pages
  <2>2. \A v \in Workers \ {w} : \A k \in Kinds : Handling(v, k)' => Handling(v, k)
    BY <1>5 DEF Handling
  <2>3. "project" \in Kinds /\ "reindex" \in Kinds
    BY DEF Kinds
  <2>4. PageBehind(p)' => PageBehind(p)
    BY <1>5, <2>1, <2>2, <2>3 DEF PageBehind
  <2>5. IndexBehind(p)' => IndexBehind(p)
    BY <1>5, <2>1, <2>2, <2>3 DEF IndexBehind
  <2> QED  BY <2>4, <2>5
<1>11. ASSUME NEW q \in Rows, NEW p \in Pages
       PROVE  /\ RenderAhead(q, p) => givenUp'[q[1]] \/ RenderAhead(q, p)'
              /\ RefreshAhead(q, p) => givenUp'[q[1]] \/ RefreshAhead(q, p)'
              /\ RequestAhead(q) => givenUp'[q[1]] \/ RequestAhead(q)'
  <2>1. CASE q \in spent
    <3>1. q[1] \in Kinds
      BY RowShape
    <3>2. givenUp'[q[1]]
      BY <2>1, <3>1, <1>1
    <3> QED  BY <3>2
  <2>2. CASE q = r
    <3>1. \A v \in Workers : job'[v] = r => v = w
      BY <1>2, <1>5, <1>7
    <3>2. pos'[w] <= p /\ pos'[w] <= NPages + 1 /\ snap'[w][p] # "stale"
      BY <1>5, <1>6, VaultConstants DEF Pages, NoSnap
    <3> QED  BY <2>2, <3>1, <3>2, <1>3 DEF RenderAhead, RefreshAhead, RequestAhead
  <2>3. CASE q # r /\ q \notin spent
    <3>1. Untouched(q)
      BY <2>3, <1>4, <1>5 DEF Untouched, Waiting
    <3> QED  BY <3>1, AheadStays
  <2> QED  BY <2>1, <2>2, <2>3
<1> QED  BY <1>8, <1>9, <1>10, <1>11 DEF Keeps

LEMMA ClaimNothingCovers ==
  ASSUME TypeOK, Alone, Owned, NEW w \in Workers, ClaimNothing(w)
  PROVE  Owned' /\ Keeps
<1>1. /\ status' = [r \in Rows |-> IF r \in Ready(w) THEN "dead" ELSE status[r]]
      /\ holder' = [r \in Rows |-> IF r \in Ready(w) THEN Nobody ELSE holder[r]]
      /\ givenUp' = [k \in Kinds |-> givenUp[k] \/ \E r \in Ready(w) : r[1] = k]
      /\ job[w] = NoRow /\ handles' = handles /\ page' = page /\ index' = index
      /\ job' = job /\ pos' = pos /\ snap' = snap
  BY DEF ClaimNothing, files, work
<1>2. \A q \in Rows \ Ready(w) : status'[q] = status[q] /\ holder'[q] = holder[q]
  BY <1>1
<1>3. ASSUME NEW v \in Workers, job[v] # NoRow PROVE job[v] \in Rows \ Ready(w)
  <2>1. job[v][1] \notin handles[w]
    BY <1>1, <1>3, NotOfItsKind
  <2> QED  BY <2>1, <1>3 DEF Ready, TypeOK
<1>4. Owned'
  BY <1>1, <1>2, <1>3, OwnedStays DEF Owned, Holds
<1>5. ASSUME NEW k \in Kinds PROVE Quiet(k) /\ (givenUp[k] => givenUp'[k])
  BY <1>1 DEF Quiet, Handling
<1>6. ASSUME NEW q \in Rows, NEW p \in Pages
      PROVE  /\ RenderAhead(q, p) => givenUp'[q[1]] \/ RenderAhead(q, p)'
             /\ RefreshAhead(q, p) => givenUp'[q[1]] \/ RefreshAhead(q, p)'
             /\ RequestAhead(q) => givenUp'[q[1]] \/ RequestAhead(q)'
  <2>1. CASE q \in Ready(w)
    <3>1. q[1] \in Kinds
      BY RowShape
    <3>2. givenUp'[q[1]]
      BY <2>1, <3>1, <1>1
    <3> QED  BY <3>2
  <2>2. CASE q \notin Ready(w)
    <3>1. Untouched(q)
      BY <2>2, <1>1, <1>2 DEF Untouched, Waiting
    <3> QED  BY <3>1, AheadStays
  <2> QED  BY <2>1, <2>2
<1>7. "project" \in Kinds /\ "reindex" \in Kinds
  BY DEF Kinds
<1>8. ASSUME NEW p \in Pages
      PROVE  (PageBehind(p)' => PageBehind(p)) /\ (IndexBehind(p)' => IndexBehind(p))
  BY <1>1, <1>5, <1>7, BehindBefore
<1> QED  BY <1>4, <1>5, <1>6, <1>8 DEF Keeps

(* The worker w puts its row down; the other workers are where they were. *)
LEMMA PutDownMoves ==
  ASSUME TypeOK, NEW w \in Workers, PutDown(w)
  PROVE  /\ job'[w] = NoRow /\ snap'[w] = NoSnap
         /\ \A v \in Workers \ {w} :
              job'[v] = job[v] /\ pos'[v] = pos[v] /\ snap'[v] = snap[v]
         /\ \A k \in Kinds : Quiet(k)
<1>1. /\ job'[w] = NoRow /\ snap'[w] = NoSnap
      /\ \A v \in Workers \ {w} :
           job'[v] = job[v] /\ pos'[v] = pos[v] /\ snap'[v] = snap[v]
  BY DEF PutDown, TypeOK
<1>2. \A k \in Kinds : ~Handling(w, k)'
  BY <1>1, RowShape DEF Handling
<1> QED  BY <1>1, <1>2 DEF Quiet, Handling

(* A row that w does not run is not touched when w puts down its own. *)
LEMMA OthersUntouched ==
  ASSUME TypeOK, NEW w \in Workers, PutDown(w), NEW q \in Rows,
         Waiting(q) => Waiting(q)', status[q] = "running" => status'[q] = "running"
  PROVE  Untouched(q)
<1>1. q # NoRow
  BY RowShape
<1> QED  BY <1>1, PutDownMoves DEF Untouched

LEMMA CompleteCovers ==
  ASSUME TypeOK, Alone, Owned, NEW w \in Workers, Complete(w)
  PROVE  Owned' /\ Keeps
<1>1. PICK r \in Rows : r = job[w]
  BY DEF Complete, TypeOK
<1>2. /\ status[r] = "running" /\ holder[r] = w /\ pos[w] = NPages + 2
      /\ status' = [status EXCEPT ![r] = "done"]
      /\ holder' = [holder EXCEPT ![r] = Nobody]
      /\ PutDown(w) /\ handles' = handles /\ givenUp' = givenUp
      /\ page' = page /\ index' = index
  BY <1>1 DEF Complete, Holds, files
<1>3. \A q \in Rows \ {r} : status'[q] = status[q] /\ holder'[q] = holder[q]
  BY <1>2 DEF TypeOK
<1>4. ASSUME NEW v \in Workers \ {w}, job[v] # NoRow PROVE job[v] \in Rows \ {r}
  BY <1>2, <1>4 DEF Owned, Holds, TypeOK
<1>5. Owned'
  <2>1. ASSUME NEW v \in Workers
        PROVE  /\ job'[v] = NoRow => snap'[v] = NoSnap
               /\ job'[v] # NoRow =>
                    /\ job'[v] = job[v]
                    /\ status'[job[v]] = status[job[v]]
                    /\ holder'[job[v]] = holder[job[v]]
    BY <1>2, <1>3, <1>4, PutDownMoves DEF Owned
  <2> QED  BY <1>2, <2>1, OwnedStays
<1>6. ASSUME NEW q \in Rows, NEW p \in Pages
      PROVE  /\ RenderAhead(q, p) => RenderAhead(q, p)'
             /\ RefreshAhead(q, p) => RefreshAhead(q, p)'
             /\ RequestAhead(q) => RequestAhead(q)'
  <2>1. CASE q = r
    <3>1. ~ (pos[w] <= p) /\ ~ (pos[w] <= NPages + 1)
      BY <1>2, VaultConstants DEF Pages
    <3>2. ~Waiting(q)
      BY <2>1, <1>2 DEF Waiting
    <3> QED  BY <2>1, <3>1, <3>2, <1>1 DEF RenderAhead, RefreshAhead, RequestAhead
  <2>2. CASE q # r
    <3>1. (Waiting(q) => Waiting(q)') /\ (status[q] = "running" => status'[q] = "running")
      BY <2>2, <1>3 DEF Waiting
    <3>2. Untouched(q)
      BY <3>1, <1>2, OthersUntouched
    <3> QED  BY <3>2, AheadStays
  <2> QED  BY <2>1, <2>2
<1>7. \A k \in Kinds : Quiet(k)
  BY <1>2, PutDownMoves
<1>8. "project" \in Kinds /\ "reindex" \in Kinds
  BY DEF Kinds
<1>9. ASSUME NEW p \in Pages
      PROVE  (PageBehind(p)' => PageBehind(p)) /\ (IndexBehind(p)' => IndexBehind(p))
  BY <1>2, <1>7, <1>8, BehindBefore
<1> QED  BY <1>2, <1>5, <1>6, <1>9 DEF Keeps

LEMMA FailCovers ==
  ASSUME TypeOK, Alone, Owned, NEW w \in Workers, NEW permanent \in BOOLEAN,
         Fail(w, permanent)
  PROVE  Owned' /\ Keeps
<1>1. PICK r \in Rows : r = job[w]
  BY DEF Fail, TypeOK
<1> DEFINE dead == permanent \/ attempts[r] >= MaxAttempts
<1>2. /\ status[r] = "running" /\ holder[r] = w
      /\ status' = [status EXCEPT ![r] = IF dead THEN "dead" ELSE "failed"]
      /\ holder' = [holder EXCEPT ![r] = Nobody]
      /\ givenUp' = [givenUp EXCEPT ![r[1]] = @ \/ dead]
      /\ PutDown(w) /\ handles' = handles
      /\ page' = page /\ index' = index
  BY <1>1 DEF Fail, Holds, files
<1>3. r[1] \in Kinds
  BY RowShape
<1> HIDE DEF dead
<1>4. \A q \in Rows \ {r} : status'[q] = status[q] /\ holder'[q] = holder[q]
  BY <1>2 DEF TypeOK
<1>5. givenUp'[r[1]] \/ Waiting(r)'
  <2>1. CASE dead
    <3>1. givenUp' = [givenUp EXCEPT ![r[1]] = TRUE]
      BY <1>2, <2>1
    <3> QED  BY <3>1, <1>3 DEF TypeOK
  <2>2. CASE ~dead
    <3>1. status'[r] = "failed"
      BY <1>2, <2>2 DEF TypeOK
    <3> QED  BY <3>1 DEF Waiting
  <2> QED  BY <2>1, <2>2
<1>6. ASSUME NEW k \in Kinds, givenUp[k] PROVE givenUp'[k]
  BY <1>2, <1>6, Zenon DEF TypeOK
<1>7. ASSUME NEW v \in Workers \ {w}, job[v] # NoRow PROVE job[v] \in Rows \ {r}
  BY <1>2, <1>7 DEF Owned, Holds, TypeOK
<1>8. Owned'
  <2>1. ASSUME NEW v \in Workers
        PROVE  /\ job'[v] = NoRow => snap'[v] = NoSnap
               /\ job'[v] # NoRow =>
                    /\ job'[v] = job[v]
                    /\ status'[job[v]] = status[job[v]]
                    /\ holder'[job[v]] = holder[job[v]]
    BY <1>2, <1>4, <1>7, PutDownMoves DEF Owned
  <2> QED  BY <1>2, <2>1, OwnedStays
<1>9. ASSUME NEW q \in Rows, NEW p \in Pages
      PROVE  /\ RenderAhead(q, p) => givenUp'[q[1]] \/ RenderAhead(q, p)'
             /\ RefreshAhead(q, p) => givenUp'[q[1]] \/ RefreshAhead(q, p)'
             /\ RequestAhead(q) => givenUp'[q[1]] \/ RequestAhead(q)'
  <2>1. CASE q = r
    BY <2>1, <1>5 DEF RenderAhead, RefreshAhead, RequestAhead
  <2>2. CASE q # r
    <3>1. (Waiting(q) => Waiting(q)') /\ (status[q] = "running" => status'[q] = "running")
      BY <2>2, <1>4 DEF Waiting
    <3>2. Untouched(q)
      BY <3>1, <1>2, OthersUntouched
    <3> QED  BY <3>2, AheadStays
  <2> QED  BY <2>1, <2>2
<1>10. \A k \in Kinds : Quiet(k)
  BY <1>2, PutDownMoves
<1>11. "project" \in Kinds /\ "reindex" \in Kinds
  BY DEF Kinds
<1>12. ASSUME NEW p \in Pages
       PROVE  (PageBehind(p)' => PageBehind(p)) /\ (IndexBehind(p)' => IndexBehind(p))
  BY <1>2, <1>10, <1>11, BehindBefore
<1> QED  BY <1>6, <1>8, <1>9, <1>12 DEF Keeps

LEMMA CrashCovers ==
  ASSUME TypeOK, Alone, Owned, NEW w \in Workers, Crash(w) \/ Lost(w)
  PROVE  Owned' /\ Keeps
<1>1. /\ PutDown(w) /\ handles' = handles /\ status' = status /\ holder' = holder
      /\ page' = page /\ index' = index /\ givenUp' = givenUp
  BY DEF Crash, Lost, chain, files
<1>2. Owned'
  <2>1. ASSUME NEW v \in Workers
        PROVE  /\ job'[v] = NoRow => snap'[v] = NoSnap
               /\ job'[v] # NoRow => job'[v] = job[v]
    BY <1>1, PutDownMoves DEF Owned
  <2> QED  BY <1>1, <2>1, OwnedStays
<1>3. ASSUME NEW q \in Rows PROVE Untouched(q)
  <2>1. (Waiting(q) => Waiting(q)') /\ (status[q] = "running" => status'[q] = "running")
    BY <1>1 DEF Waiting
  <2> QED  BY <2>1, <1>1, OthersUntouched
<1>4. "project" \in Kinds /\ "reindex" \in Kinds
  BY DEF Kinds
<1>5. ASSUME NEW p \in Pages
      PROVE  (PageBehind(p)' => PageBehind(p)) /\ (IndexBehind(p)' => IndexBehind(p))
  BY <1>1, <1>4, PutDownMoves, BehindBefore
<1> QED  BY <1>1, <1>2, <1>3, <1>5, AheadStays DEF Keeps

(* Time passes, or nothing happens. *)
LEMMA TimeCovers ==
  ASSUME TypeOK, Owned,
         (\E r \in Rows : LeaseRunsOut(r)) \/ Tick \/ UNCHANGED vars
  PROVE  Owned' /\ Keeps
<1>1. /\ handles' = handles /\ status' = status /\ holder' = holder
      /\ page' = page /\ index' = index /\ givenUp' = givenUp
      /\ job' = job /\ pos' = pos /\ snap' = snap
  BY DEF LeaseRunsOut, Tick, vars, files, work
<1>2. Owned'
  BY <1>1, OwnedStays DEF Owned
<1>3. ASSUME NEW q \in Rows PROVE Untouched(q)
  BY <1>1 DEF Untouched, Waiting
<1>4. Quiet("project") /\ Quiet("reindex")
  BY <1>1 DEF Quiet, Handling
<1>5. ASSUME NEW p \in Pages
      PROVE  (PageBehind(p)' => PageBehind(p)) /\ (IndexBehind(p)' => IndexBehind(p))
  BY <1>1, <1>4, BehindBefore
<1> QED  BY <1>1, <1>2, <1>3, <1>5, AheadStays DEF Keeps

-----------------------------------------------------------------------------
(* The steps of the two handlers.                                          *)

(* A row that the worker w does not run is not touched by a step of w.     *)
LEMMA HandlerTouchesItsRow ==
  ASSUME NEW w \in Workers, NEW q \in Rows, job' = job,
         \A v \in Workers \ {w} : pos'[v] = pos[v] /\ (job[v] = q => snap'[v] = snap[v]),
         Waiting(q) => Waiting(q)', status[q] = "running" => status'[q] = "running",
         job[w] # q
  PROVE  Untouched(q)
  BY DEF Untouched

LEMMA QueryCovers ==
  ASSUME TypeOK, Alone, Owned, NEW w \in Workers, NEW last \in Pages, QueryRows(w, last)
  PROVE  Owned' /\ Keeps
<1>1. PICK r \in Rows : job[w] = r /\ r[1] = "project" /\ r # NoRow
  BY HandlerRow DEF QueryRows, Rendering, Kinds
<1>2. /\ handles' = handles /\ status' = status /\ holder' = holder
      /\ page' = page /\ index' = index /\ givenUp' = givenUp
      /\ job' = job /\ pos' = pos
      /\ \A v \in Workers \ {w} : snap'[v] = snap[v]
      /\ \A p \in Pages : snap'[w][p] \in {snap[w][p], "current"}
  BY DEF QueryRows, chain, files, TypeOK
<1>3. Owned'
  BY <1>1, <1>2, OwnedStays DEF Owned
<1>4. ASSUME NEW q \in Rows, NEW p \in Pages
      PROVE  /\ RenderAhead(q, p) => RenderAhead(q, p)'
             /\ RefreshAhead(q, p) => RefreshAhead(q, p)'
             /\ RequestAhead(q) => RequestAhead(q)'
  BY <1>2 DEF RenderAhead, RefreshAhead, RequestAhead, Waiting
<1>5. ASSUME NEW p \in Pages
      PROVE  (PageBehind(p)' => PageBehind(p)) /\ (IndexBehind(p)' => IndexBehind(p))
  BY <1>1, <1>2 DEF PageBehind, IndexBehind, Handling
<1> QED  BY <1>2, <1>3, <1>4, <1>5 DEF Keeps

(* A page written from older rows was covered by another projection, which *)
(* is ahead still; the refresh will be requested. *)
LEMMA ReplaceCovers ==
  ASSUME TypeOK, Alone, Owned, PagesCovered, NEW w \in Workers, Replace(w)
  PROVE  Owned' /\ PagesCovered' /\ NotesCovered'
<1>1. PICK r \in Rows : job[w] = r /\ r[1] = "project" /\ r # NoRow
  BY HandlerRow DEF Replace, Rendering, Kinds
<1>2. PICK p0 \in Pages : p0 = pos[w]
  BY VaultConstants DEF Replace, Rendering, Pages, TypeOK
<1>3. /\ handles' = handles /\ status' = status /\ holder' = holder
      /\ givenUp' = givenUp /\ job' = job
      /\ snap[w][p0] # "none"
      /\ page' = [page EXCEPT ![p0] = snap[w][p0] = "current"]
      /\ pos' = [pos EXCEPT ![w] = p0 + 1]
  BY <1>2 DEF Replace, chain
<1>4. PICK base : /\ base \in {snap, Outdated("reindex", {p0})}
                  /\ snap' = [base EXCEPT ![w][p0] = "none"]
  BY <1>2 DEF Replace
<1>5. /\ base \in [Workers -> [Pages -> {"none", "current", "stale"}]]
      /\ \A v \in Workers : ~Handling(v, "reindex") => base[v] = snap[v]
  <2>1. "reindex" \in Kinds /\ {p0} \in SUBSET Pages
    BY DEF Kinds
  <2> QED  BY <1>4, <2>1, OutdatedType DEF TypeOK
<1>6. ~Handling(w, "reindex") /\ Handling(w, "project")
  BY <1>1 DEF Handling
<1>7. /\ \A v \in Workers \ {w} : ~Handling(v, "reindex") => snap'[v] = snap[v]
      /\ snap'[w][p0] = "none"
      /\ \A p \in Pages \ {p0} : snap'[w][p] = snap[w][p]
  BY <1>4, <1>5, <1>6
<1>8. pos'[w] = p0 + 1 /\ \A v \in Workers \ {w} : pos'[v] = pos[v]
  BY <1>3 DEF TypeOK
<1>9. ASSUME NEW v \in Workers, NEW q \in Rows, job[v] = q, q[1] = "project" PROVE v = w
  BY <1>1, <1>9, OneRunner
<1>10. ASSUME NEW v \in Workers, Handling(v, "project") PROVE v = w
  BY <1>9, <1>10, HandlerRow DEF Kinds
<1>11. Owned'
  <2>1. ASSUME NEW v \in Workers, job[v] = NoRow PROVE snap'[v] = NoSnap
    <3>1. v # w /\ ~Handling(v, "reindex")
      BY <1>1, <2>1, RowShape DEF Handling, Kinds
    <3> QED  BY <2>1, <3>1, <1>7 DEF Owned
  <2> QED  BY <2>1, <1>3, OwnedStays DEF Owned
<1>12. ASSUME NEW p \in Pages, PageBehind(p)' PROVE PageSeenTo(p)'
  <2>1. CASE p = p0
    <3>1. ~page'[p0]
      BY <2>1, <1>3, <1>7, <1>10, <1>12 DEF PageBehind, Handling
    <3>2. snap[w][p0] = "stale"
      <4>1. snap[w][p0] # "current"
        BY <3>1, <1>3 DEF TypeOK
      <4>2. snap[w][p0] \in {"none", "current", "stale"}
        BY DEF TypeOK
      <4> QED  BY <4>1, <4>2, <1>3
    <3>3. PageSeenTo(p0)
      BY <3>2, <1>6 DEF PagesCovered, PageBehind
    <3>4. CASE givenUp["project"]
      BY <3>4, <1>3 DEF PageSeenTo
    <3>5. ASSUME NEW q \in Rows, q[1] = "project", RenderAhead(q, p0)
          PROVE  PageSeenTo(p)'
      <4>1. Waiting(q) \/ (status[q] = "running" /\ \A v \in Workers : job[v] # q)
        BY <3>2, <3>5, <1>1, <1>9 DEF RenderAhead
      <4>2. RenderAhead(q, p)'
        BY <4>1, <1>3 DEF RenderAhead, Waiting
      <4> QED  BY <3>5, <4>2 DEF PageSeenTo
    <3> QED  BY <3>3, <3>4, <3>5 DEF PageSeenTo
  <2>2. CASE p # p0
    <3>1. PageBehind(p)
      <4>1. page'[p] = page[p]
        BY <2>2, <1>3 DEF TypeOK
      <4>2. ASSUME NEW v \in Workers, Handling(v, "project")', snap'[v][p] = "stale"
            PROVE  v = w /\ snap[w][p] = "stale"
        BY <4>2, <2>2, <1>3, <1>7, <1>10 DEF Handling
      <4> QED  BY <4>1, <4>2, <1>6, <1>12 DEF PageBehind
    <3>2. PageSeenTo(p)
      BY <3>1 DEF PagesCovered
    <3>3. ASSUME NEW q \in Rows, q[1] = "project", RenderAhead(q, p)
          PROVE  RenderAhead(q, p)'
      <4>1. ASSUME NEW v \in Workers, job[v] = q, status[q] = "running"
            PROVE  pos'[v] <= p /\ snap'[v][p] # "stale"
        <5>1. v = w
          BY <4>1, <3>3, <1>9
        <5>2. pos[w] <= p /\ snap[w][p] # "stale"
          BY <4>1, <5>1, <3>3 DEF RenderAhead, Waiting
        <5> QED  BY <5>1, <5>2, <2>2, <1>2, <1>7, <1>8 DEF Pages
      <4> QED  BY <4>1, <3>3, <1>3 DEF RenderAhead, Waiting
    <3> QED  BY <3>2, <3>3, <1>3 DEF PageSeenTo
  <2> QED  BY <2>1, <2>2
<1>13. RequestAhead(r)'
  <2>1. status[r] = "running"
    BY <1>1 DEF Owned, Holds
  <2>2. pos'[w] <= NPages + 1
    BY <1>2, <1>8, VaultConstants DEF Pages
  <2> QED  BY <2>1, <2>2, <1>1, <1>3, <1>9 DEF RequestAhead
<1>14. \A p \in Pages : IndexSeenTo(p)'
  BY <1>1, <1>13 DEF IndexSeenTo
<1> QED  BY <1>11, <1>12, <1>14 DEF PagesCovered, NotesCovered

(* The projection ends by handing over to a refresh.  *)
LEMMA RequestRefreshCovers ==
  ASSUME TypeOK, Alone, Owned, PagesCovered, NEW w \in Workers, RequestRefresh(w)
  PROVE  Owned' /\ PagesCovered' /\ NotesCovered'
<1>1. PICK r \in Rows : job[w] = r /\ r[1] = "project" /\ r # NoRow
  BY HandlerRow DEF RequestRefresh, Kinds
<1>2. "project" \in Kinds \ {"reindex"} /\ "reindex" \in Kinds
  BY DEF Kinds
<1>3. /\ \A q \in Rows : \/ status'[q] = status[q]
                         \/ status[q] = "none" /\ status'[q] = "queued"
      /\ givenUp'["reindex"] \/ \E q \in Rows : q[1] = "reindex" /\ Waiting(q)'
      /\ givenUp'["project"] = givenUp["project"]
  <2>1. CASE Request("reindex", [q \in Rows |-> 0])
    <3>1. [q \in Rows |-> 0] \in [Rows -> Nat]
      OBVIOUS
    <3> QED  BY <1>2, <2>1, <3>1, RequestMoves
  <2>2. CASE /\ givenUp' = [givenUp EXCEPT !["reindex"] = TRUE]
             /\ UNCHANGED <<status, due, age>>
    <3>1. givenUp'["reindex"] /\ givenUp'["project"] = givenUp["project"]
      <4>1. givenUp \in [Kinds -> BOOLEAN]
        BY DEF TypeOK
      <4> QED  BY <1>2, <2>2, <4>1, Zenon
    <3>2. \A q \in Rows : status'[q] = status[q]
      BY <2>2
    <3> QED  BY <3>1, <3>2
  <2> QED  BY <2>1, <2>2 DEF RequestRefresh
<1>4. /\ handles' = handles /\ holder' = holder /\ page' = page /\ index' = index
      /\ job' = job /\ snap' = snap /\ pos[w] = NPages + 1
      /\ \A v \in Workers \ {w} : pos'[v] = pos[v]
  BY DEF RequestRefresh, files, TypeOK
<1>5. Owned'
  <2>1. ASSUME NEW v \in Workers, job[v] # NoRow
        PROVE  status'[job[v]] = "running" /\ holder'[job[v]] = v /\ job[v][1] \in handles'[v]
    BY <2>1, <1>3, <1>4 DEF Owned, Holds, TypeOK
  <2> QED  BY <2>1, <1>4 DEF Owned, Holds
<1>6. ASSUME NEW p \in Pages, PageBehind(p)' PROVE PageSeenTo(p)'
  <2>1. PageSeenTo(p)
    BY <1>4, <1>6 DEF PagesCovered, PageBehind, Handling
  <2>2. ASSUME NEW q \in Rows, q[1] = "project", RenderAhead(q, p)
        PROVE  RenderAhead(q, p)'
    <3>1. (Waiting(q) => Waiting(q)') /\ (status[q] = "running" => status'[q] = "running")
      BY <1>3 DEF Waiting
    <3>2. CASE q = r
      <4>1. ~ (pos[w] <= p)
        BY <1>4, VaultConstants DEF Pages
      <4>2. Waiting(q)
        BY <1>1, <2>2, <3>2, <4>1 DEF RenderAhead
      <4> QED  BY <3>1, <4>2 DEF RenderAhead
    <3>3. CASE q # r
      <4>1. Untouched(q)
        BY <1>1, <1>4, <3>1, <3>3, HandlerTouchesItsRow
      <4> QED  BY <2>2, <4>1, AheadStays
    <3> QED  BY <3>2, <3>3
  <2> QED  BY <2>1, <2>2, <1>3 DEF PageSeenTo
<1>7. \A p \in Pages : IndexSeenTo(p)'
  BY <1>3 DEF IndexSeenTo, RefreshAhead
<1> QED  BY <1>5, <1>6, <1>7 DEF PagesCovered, NotesCovered

(* What a step of the refresh leaves alone. *)
LEMMA RefreshFrame ==
  ASSUME TypeOK, Alone, Owned, NEW w \in Workers, NEW r \in Rows,
         job[w] = r, r[1] = "reindex", r # NoRow,
         handles' = handles, status' = status, holder' = holder, job' = job,
         page' = page, givenUp' = givenUp,
         \A v \in Workers \ {w} : pos'[v] = pos[v] /\ snap'[v] = snap[v]
  PROVE  /\ Owned'
         /\ \A q \in Rows \ {r} : Untouched(q)
         /\ \A v \in Workers : Handling(v, "reindex") => v = w
         /\ \A p \in Pages : PageBehind(p)' => PageBehind(p)
<1>1. Owned'
  BY OwnedStays DEF Owned
<1>2. \A q \in Rows \ {r} : Untouched(q)
  BY HandlerTouchesItsRow DEF Waiting
<1>3. ASSUME NEW v \in Workers, Handling(v, "reindex") PROVE v = w
  <2>1. PICK q \in Rows : job[v] = q /\ q[1] = "reindex"
    BY <1>3, HandlerRow DEF Kinds
  <2> QED  BY <2>1, OneRunner
<1>4. ~Handling(w, "project")
  BY DEF Handling
<1>5. \A p \in Pages : PageBehind(p)' => PageBehind(p)
  BY <1>4 DEF PageBehind, Handling
<1> QED  BY <1>1, <1>2, <1>3, <1>5

LEMMA ReadNoteCovers ==
  ASSUME TypeOK, Alone, Owned, NEW w \in Workers, ReadNote(w)
  PROVE  Owned' /\ Keeps
<1>1. PICK r \in Rows : job[w] = r /\ r[1] = "reindex" /\ r # NoRow
  BY HandlerRow DEF ReadNote, Kinds
<1>2. PICK p0 \in Pages : p0 = pos[w]
  BY VaultConstants DEF ReadNote, Pages, TypeOK
<1>3. /\ handles' = handles /\ status' = status /\ holder' = holder
      /\ page' = page /\ index' = index /\ givenUp' = givenUp /\ job' = job
  BY DEF ReadNote, chain, files
<1>4. /\ \A v \in Workers \ {w} : pos'[v] = pos[v] /\ snap'[v] = snap[v]
      /\ pos'[w] = p0 + 1 /\ snap'[w][p0] = "current"
      /\ \A p \in Pages \ {p0} : snap'[w][p] = snap[w][p]
  BY <1>2 DEF ReadNote, TypeOK
<1>5. /\ Owned'
      /\ \A q \in Rows \ {r} : Untouched(q)
      /\ \A v \in Workers : Handling(v, "reindex") => v = w
      /\ \A p \in Pages : PageBehind(p)' => PageBehind(p)
  BY <1>1, <1>3, <1>4, RefreshFrame
<1>6. status[r] = "running"
  BY <1>1 DEF Owned, Holds
<1>7. \A v \in Workers : job[v] = r => v = w
  BY <1>1, <1>5 DEF Handling
<1>8. ASSUME NEW p \in Pages
      PROVE  RefreshAhead(r, p) => RefreshAhead(r, p)'
  <2>1. p0 + 1 <= NPages + 1 /\ (p0 <= p => p0 = p \/ p0 + 1 <= p)
    BY VaultConstants DEF Pages
  <2>2. ASSUME RefreshAhead(r, p) PROVE RefreshAhead(r, p)'
    <3>1. pos[w] <= p \/ snap[w][p] = "current"
      BY <1>1, <1>6, <2>2 DEF RefreshAhead, Waiting
    <3>2. pos'[w] <= p \/ snap'[w][p] = "current"
      BY <1>2, <1>4, <2>1, <3>1
    <3> QED  BY <1>1, <1>3, <1>4, <1>6, <1>7, <2>1, <3>2 DEF RefreshAhead
  <2> QED  BY <2>2
<1>9. ASSUME NEW p \in Pages, IndexBehind(p)' PROVE IndexBehind(p)
  <2>1. CASE ~index[p]
    BY <2>1 DEF IndexBehind
  <2>2. CASE index[p]
    <3>1. pos'[w] > p /\ snap'[w][p] # "current"
      BY <1>3, <1>5, <1>9, <2>2 DEF IndexBehind, Handling
    <3>2. p # p0 /\ p0 + 1 > p
      BY <1>4, <3>1
    <3>3. pos[w] > p /\ snap[w][p] # "current"
      BY <1>2, <1>4, <3>1, <3>2, VaultConstants DEF Pages
    <3> QED  BY <1>1, <3>3 DEF IndexBehind, Handling
  <2> QED  BY <2>1, <2>2
<1>10. ASSUME NEW q \in Rows, NEW p \in Pages
       PROVE  /\ q[1] = "project" =>
                   /\ RenderAhead(q, p) => RenderAhead(q, p)'
                   /\ RequestAhead(q) => RequestAhead(q)'
              /\ q[1] = "reindex" => (RefreshAhead(q, p) => RefreshAhead(q, p)')
  <2>1. CASE q = r
    BY <2>1, <1>1, <1>8
  <2>2. CASE q # r
    BY <2>2, <1>5, AheadStays
  <2> QED  BY <2>1, <2>2
<1> QED  BY <1>3, <1>5, <1>9, <1>10 DEF Keeps

LEMMA CommitIndexCovers ==
  ASSUME TypeOK, Alone, Owned, NotesCovered, PagesCovered, NEW w \in Workers, CommitIndex(w)
  PROVE  Owned' /\ PagesCovered' /\ NotesCovered'
<1>1. PICK r \in Rows : job[w] = r /\ r[1] = "reindex" /\ r # NoRow
  BY HandlerRow DEF CommitIndex, Kinds
<1>2. /\ handles' = handles /\ status' = status /\ holder' = holder
      /\ page' = page /\ givenUp' = givenUp /\ job' = job /\ snap' = snap
      /\ pos[w] = NPages + 1
      /\ \A v \in Workers \ {w} : pos'[v] = pos[v]
      /\ \A p \in Pages : index'[p] <=> snap[w][p] = "current"
  BY DEF CommitIndex, chain, TypeOK
<1>3. /\ Owned'
      /\ \A q \in Rows \ {r} : Untouched(q)
      /\ \A v \in Workers : Handling(v, "reindex") => v = w
      /\ \A p \in Pages : PageBehind(p)' => PageBehind(p)
  BY <1>1, <1>2, RefreshFrame
<1>4. status[r] = "running"
  BY <1>1 DEF Owned, Holds
<1>5. ASSUME NEW p \in Pages, IndexBehind(p)' PROVE IndexSeenTo(p)'
  <2>1. snap[w][p] # "current"
    BY <1>2, <1>3, <1>5 DEF IndexBehind, Handling
  <2>2. pos[w] > p /\ ~ (pos[w] <= p)
    BY <1>2, VaultConstants DEF Pages
  <2>3. IndexBehind(p)
    BY <1>1, <2>1, <2>2 DEF IndexBehind, Handling
  <2>4. IndexSeenTo(p)
    BY <2>3 DEF NotesCovered
  <2>5. ~RefreshAhead(r, p)
    BY <1>1, <1>4, <2>1, <2>2 DEF RefreshAhead, Waiting
  <2>6. ASSUME NEW q \in Rows, q # r
        PROVE  /\ RefreshAhead(q, p) => RefreshAhead(q, p)'
               /\ RequestAhead(q) => RequestAhead(q)'
    BY <1>3, <2>6, AheadStays
  <2> QED  BY <1>1, <1>2, <2>4, <2>5, <2>6 DEF IndexSeenTo
<1>6. ASSUME NEW p \in Pages, PageBehind(p)' PROVE PageSeenTo(p)'
  <2>1. PageSeenTo(p)
    BY <1>3, <1>6 DEF PagesCovered
  <2>2. ASSUME NEW q \in Rows, q[1] = "project", RenderAhead(q, p)
        PROVE  RenderAhead(q, p)'
    <3>1. Untouched(q)
      BY <1>1, <1>3, <2>2
    <3> QED  BY <2>2, <3>1, AheadStays
  <2> QED  BY <1>2, <2>1, <2>2 DEF PageSeenTo
<1> QED  BY <1>3, <1>5, <1>6 DEF PagesCovered, NotesCovered

-----------------------------------------------------------------------------
(* The theorems.                                                           *)

LEMMA InitCovered == Init => Owned /\ PagesCovered /\ NotesCovered
  BY RowShape DEF Init, Owned, PagesCovered, NotesCovered, PageBehind, IndexBehind, Handling,
                  Kinds

LEMMA CoveredStep ==
  ASSUME TypeOK, Alone, Owned, PagesCovered, NotesCovered, [Next]_vars
  PROVE  Owned' /\ PagesCovered' /\ NotesCovered'
<1>1. CASE \E S \in SUBSET Pages \ {{}} : Write(S)
  BY <1>1, WriteCovers
<1>2. CASE (\E r \in Rows : LeaseRunsOut(r)) \/ Tick \/ UNCHANGED vars
  BY <1>2, TimeCovers, KeepsCovered
<1>3. ASSUME NEW w \in Workers, \E r \in Rows : Claim(w, r)
      PROVE  Owned' /\ PagesCovered' /\ NotesCovered'
  BY <1>3, ClaimCovers, KeepsCovered
<1>4. ASSUME NEW w \in Workers,
             ClaimNothing(w) \/ Complete(w) \/ Lost(w) \/ Crash(w)
               \/ \E permanent \in BOOLEAN : Fail(w, permanent)
      PROVE  Owned' /\ PagesCovered' /\ NotesCovered'
  BY <1>4, ClaimNothingCovers, CompleteCovers, CrashCovers, FailCovers, KeepsCovered
<1>5. ASSUME NEW w \in Workers,
             \/ \E last \in Pages : QueryRows(w, last)
             \/ ReadNote(w)
      PROVE  Owned' /\ PagesCovered' /\ NotesCovered'
  BY <1>5, QueryCovers, ReadNoteCovers, KeepsCovered
<1>6. ASSUME NEW w \in Workers, Replace(w) \/ RequestRefresh(w) \/ CommitIndex(w)
      PROVE  Owned' /\ PagesCovered' /\ NotesCovered'
  BY <1>6, ReplaceCovers, RequestRefreshCovers, CommitIndexCovers
<1> QED  BY <1>1, <1>2, <1>3, <1>4, <1>5, <1>6 DEF Next, HandlerStep

LEMMA HandlesKept == [Next]_vars => handles' = handles
  BY DEF Next, HandlerStep, vars, Write, Tick, LeaseRunsOut, Claim, ClaimNothing, QueryRows,
         Replace, RequestRefresh, ReadNote, CommitIndex, Complete, Lost, Fail, Crash

LEMMA Invariant == Spec => []IInv
<1>1. Init => IInv
  BY InitType, InitCounted, InitCovered DEF IInv
<1>2. IInv /\ [Next]_vars => IInv'
  <2> SUFFICES ASSUME IInv, [Next]_vars PROVE IInv'
    OBVIOUS
  <2>1. TypeOK' /\ Counted'
    BY TypeStep DEF IInv
  <2>2. ASSUME Alone' PROVE Owned' /\ PagesCovered' /\ NotesCovered'
    <3>1. Alone
      BY <2>2, HandlesKept DEF Alone
    <3> QED  BY <3>1, CoveredStep DEF IInv
  <2> QED  BY <2>1, <2>2 DEF IInv
<1> QED  BY <1>1, <1>2, PTL DEF Spec

(* Every variable keeps its type, and no row of the chain is attempted     *)
(* more often than its max_attempts (JobQueue.claim, schedule.py). *)
THEOREM TypeCorrect == Spec => []TypeOK
<1>1. IInv => TypeOK
  BY DEF IInv
<1> QED  BY <1>1, Invariant, PTL

LEMMA IInvCovers == IInv => AloneCovered
<1> SUFFICES ASSUME IInv, Alone PROVE WriteCovered /\ IndexCovered
  BY DEF AloneCovered
<1>1. TypeOK /\ PagesCovered /\ NotesCovered
  BY DEF IInv
<1>2. ASSUME NEW r \in Rows, NEW k \in Kinds, r[1] = k
      PROVE  \E i \in 1..MaxChain : r = <<k, i>>
  BY <1>2, RowShape
<1>3. WriteCovered
  <2> SUFFICES ASSUME NEW p \in Pages, ~page[p], ~givenUp["project"]
               PROVE  \E i \in 1..MaxChain :
                        StillAhead(<<"project", i>>,
                                   LAMBDA w : pos[w] <= p /\ snap[w][p] # "stale")
    BY DEF WriteCovered
  <2>1. PICK r \in Rows : r[1] = "project" /\ RenderAhead(r, p)
    BY <1>1 DEF PagesCovered, PageBehind, PageSeenTo
  <2>2. PICK i \in 1..MaxChain : r = <<"project", i>>
    BY <1>2, <2>1 DEF Kinds
  <2>3. StillAhead(<<"project", i>>, LAMBDA w : pos[w] <= p /\ snap[w][p] # "stale")
    BY <2>1, <2>2 DEF RenderAhead, StillAhead
  <2> QED  BY <2>3
<1>4. IndexCovered
  <2> SUFFICES ASSUME NEW p \in Pages, ~index[p], ~givenUp["reindex"], ~givenUp["project"]
               PROVE  \E i \in 1..MaxChain :
                        \/ StillAhead(<<"reindex", i>>,
                                      LAMBDA w : pos[w] <= NPages + 1
                                                 /\ (pos[w] <= p \/ snap[w][p] = "current"))
                        \/ StillAhead(<<"project", i>>, LAMBDA w : pos[w] <= NPages + 1)
    BY DEF IndexCovered
  <2>1. \/ \E r \in Rows : r[1] = "reindex" /\ RefreshAhead(r, p)
        \/ \E r \in Rows : r[1] = "project" /\ RequestAhead(r)
    BY <1>1 DEF NotesCovered, IndexBehind, IndexSeenTo
  <2>2. ASSUME NEW r \in Rows, r[1] = "reindex", RefreshAhead(r, p)
        PROVE  \E i \in 1..MaxChain :
                 StillAhead(<<"reindex", i>>,
                            LAMBDA w : pos[w] <= NPages + 1
                                       /\ (pos[w] <= p \/ snap[w][p] = "current"))
    <3>1. PICK i \in 1..MaxChain : r = <<"reindex", i>>
      BY <1>2, <2>2 DEF Kinds
    <3> QED  BY <2>2, <3>1 DEF RefreshAhead, StillAhead
  <2>3. ASSUME NEW r \in Rows, r[1] = "project", RequestAhead(r)
        PROVE  \E i \in 1..MaxChain :
                 StillAhead(<<"project", i>>, LAMBDA w : pos[w] <= NPages + 1)
    <3>1. PICK i \in 1..MaxChain : r = <<"project", i>>
      BY <1>2, <2>3 DEF Kinds
    <3> QED  BY <2>3, <3>1 DEF RequestAhead, StillAhead
  <2> QED  BY <2>1, <2>2, <2>3
<1> QED  BY <1>3, <1>4

(* No write is lost on its way to the pages and to the index: as long as   *)
(* each kind of job has one worker at most, a page that does not show the  *)
(* store, or an index that does not show a page, has a job ahead that will *)
(* see to it, or the module gave it up (vault/schedule.py, projection.py). *)
THEOREM WritesAreCovered == Spec => []AloneCovered
  BY Invariant, IInvCovers, PTL

-----------------------------------------------------------------------------
(* VaultPages: the inductive invariant.                                    *)

(* What a pass holds of what it read. *)
GotTyped == got \in [page : Page, facts : SUBSET Memories, past : SUBSET Memories]

(* A line of the last pass, a removal hint and a line that stands on the   *)
(* page have all been shown. *)
LinesWereShown == hints \subseteq shown /\ seen \subseteq shown /\ entityPage.facts \subseteq shown

(* What the page shows, or is about to show, is linked to the entity as    *)
(* long as its row is there. *)
ShownIsLinked ==
    \A m \in entityPage.facts \cup entityPage.past \cup got.facts \cup got.past :
        m \in linked \/ standing[m] = "purged"

(* The erasure of a row is asked for by what makes it unreadable, and a    *)
(* pass that began afterwards has read nothing of it. *)
ErasedIsUnread ==
    \A m \in Memories :
        /\ leaving[m] # "here" => standing[m] \in {"retracted", "forgotten"}
        /\ leaving[m] \in {"passing", "left"} => m \notin got.facts \cup got.past
        /\ leaving[m] = "passing" => pass \notin {"idle", "crashed"}

(* Once such a pass has ended, the row is not on the page. *)
ErasedIsGone ==
    \A m \in Memories : leaving[m] = "left" => (OnPage(m) => ~entityPage.intact)

(* The user makes no page and mends none, so that a rendering that is not  *)
(* written down leaves nothing to erase. *)
NoPageComesBack ==
    pass \in {"rows", "write"} =>
        /\ ~got.page.there => ~entityPage.there
        /\ got.page.there /\ ~got.page.intact => (entityPage.there => ~entityPage.intact)

PageIsTrue == entityPage.there /\ entityPage.intact /\ linked # {} =>
                  /\ entityPage.facts = (linked \cap Active) \ Withheld
                  /\ entityPage.past \in Latest(Past)

(* How far the page shows the store, when nothing has moved beside the pass. *)
QuietSoFar ==
    quiet =>
        /\ pass = "rows" => got.page = entityPage
        /\ pass = "write" => /\ got.page = entityPage /\ got.facts = (linked \cap Active) \ Withheld
                             /\ got.past \in Latest(Past)
        /\ pass = "idle" => PageIsTrue

PagesInv == PagesTypeOK /\ GotTyped /\ LinesWereShown /\ ShownIsLinked /\ ErasedIsUnread
            /\ ErasedIsGone /\ NoPageComesBack /\ QuietSoFar

LEMMA PagesStart == PagesInit => PagesInv
<1> SUFFICES ASSUME PagesInit PROVE PagesInv
  OBVIOUS
<1> USE DEF PagesInit, NoPage, Nothing
<1>1. PagesTypeOK
  BY DEF PagesTypeOK, Page, Stages
<1>2. GotTyped
  BY DEF GotTyped, Page
<1>3. LinesWereShown /\ ShownIsLinked
  BY DEF LinesWereShown, ShownIsLinked
<1>4. ErasedIsUnread
  BY DEF ErasedIsUnread
<1>5. ErasedIsGone
  BY DEF ErasedIsGone
<1>6. NoPageComesBack
  BY DEF NoPageComesBack
<1>7. QuietSoFar
  BY DEF QuietSoFar, PageIsTrue
<1> QED BY <1>1, <1>2, <1>3, <1>4, <1>5, <1>6, <1>7 DEF PagesInv

-----------------------------------------------------------------------------
(* The store. *)

States == {"new", "pending", "active", "superseded", "retracted", "forgotten", "purged"}

(* What a change of a row does to the erasures that are under way. *)
StoreMoved ==
    /\ PagesTypeOK'
    /\ \A m \in Memories :
         /\ leaving'[m] # "here" => standing'[m] \in {"retracted", "forgotten"}
         /\ leaving'[m] \in {"passing", "left"} => leaving'[m] = leaving[m]
         /\ m \in linked \/ standing[m] = "purged" => m \in linked' \/ standing'[m] = "purged"

LEMMA RowMoves ==
    ASSUME PagesInv, NEW m \in Memories, NEW st \in States, Becomes(m, st),
           standing[m] # "purged",
           linked' = IF st = "purged" THEN linked \ {m} ELSE linked,
           UNCHANGED <<entityPage, notes, pass, shown>>, quiet' = FALSE
    PROVE  StoreMoved
<1> USE DEF Becomes, PagesInv
<1>1. PagesTypeOK'
  BY DEF PagesTypeOK, States, notes
<1>2. \A n \in Memories : leaving'[n] # "here" => standing'[n] \in {"retracted", "forgotten"}
  BY DEF PagesTypeOK, ErasedIsUnread, States
<1>3. \A n \in Memories : leaving'[n] \in {"passing", "left"} => leaving'[n] = leaving[n]
  BY DEF PagesTypeOK, States
<1>4. \A n \in Memories : n \in linked \/ standing[n] = "purged"
                            => n \in linked' \/ standing'[n] = "purged"
  BY DEF PagesTypeOK, States
<1> QED BY <1>1, <1>2, <1>3, <1>4 DEF StoreMoved

LEMMA StoreStepMoves ==
    ASSUME PagesInv, StoreStep
    PROVE  StoreMoved
<1> USE DEF StoreStep
<1>0. UNCHANGED <<entityPage, notes, pass, shown>> /\ quiet' = FALSE
  OBVIOUS
<1>1. ASSUME NEW m \in Memories,
             \/ Remember(m) \/ Promote(m) \/ Discard(m) \/ Supersede(m)
             \/ Retract(m) \/ Forget(m) \/ Restore(m)
      PROVE  StoreMoved
  <2>1. PICK st \in States \ {"purged"} : Becomes(m, st)
    BY <1>1 DEF Remember, Promote, Discard, Supersede, Retract, Forget, Restore, States
  <2>2. standing[m] # "purged" /\ linked' = linked
    BY <1>1 DEF Remember, Promote, Discard, Supersede, Retract, Forget, Restore, Live, Active
  <2> QED BY <1>0, <2>1, <2>2, RowMoves
<1>2. ASSUME NEW m \in Memories, Purge(m)
      PROVE  StoreMoved
  <2>1. "purged" \in States
    BY DEF States
  <2> QED BY <1>0, <1>2, <2>1, RowMoves DEF Purge
<1>3. ASSUME NEW m \in Memories, Link(m)
      PROVE  StoreMoved
  BY <1>0, <1>3 DEF Link, StoreMoved, PagesInv, PagesTypeOK, notes, Active, ErasedIsUnread
<1> QED BY <1>1, <1>2, <1>3

LEMMA StoreKeeps ==
    ASSUME PagesInv, StoreStep
    PROVE  PagesInv'
<1>1. StoreMoved
  BY StoreStepMoves
<1>2. UNCHANGED <<entityPage, seen, hints, pass, got, shown>> /\ quiet' = FALSE
  BY DEF StoreStep, notes
<1>3. GotTyped' /\ LinesWereShown'
  BY <1>2 DEF PagesInv, GotTyped, LinesWereShown
<1>4. ShownIsLinked'
  BY <1>1, <1>2 DEF PagesInv, ShownIsLinked, StoreMoved, PagesTypeOK, Page, GotTyped
<1>5. ErasedIsUnread'
  BY <1>1, <1>2 DEF PagesInv, ErasedIsUnread, StoreMoved
<1>6. ErasedIsGone'
  BY <1>1, <1>2 DEF PagesInv, ErasedIsGone, StoreMoved, OnPage
<1>7. NoPageComesBack' /\ QuietSoFar'
  BY <1>2 DEF PagesInv, NoPageComesBack, QuietSoFar
<1> QED BY <1>1, <1>3, <1>4, <1>5, <1>6, <1>7 DEF PagesInv, StoreMoved

-----------------------------------------------------------------------------
(* The user. *)

(* The user adds no memory to the page, and mends no page. *)
LEMMA UserStepMoves ==
    ASSUME PagesInv, UserStep
    PROVE  /\ entityPage' \in Page
           /\ entityPage'.facts \subseteq entityPage.facts
           /\ entityPage'.past \subseteq entityPage.past
           /\ entityPage'.there => entityPage.there
           /\ entityPage'.intact => entityPage.intact
           /\ quiet' = FALSE
           /\ UNCHANGED <<store, notes, pass, got, leaving, shown>>
<1>0. entityPage \in Page
  BY DEF PagesInv, PagesTypeOK
<1> DEFINE Lessened(p) ==
             /\ p \in Page
             /\ p.facts \subseteq entityPage.facts /\ p.past \subseteq entityPage.past
             /\ p.there => entityPage.there
             /\ p.intact => entityPage.intact
<1>1. ASSUME NEW s \in Statements, WriteLine(s)
      PROVE  Lessened(entityPage') /\ Edit(entityPage')
  BY <1>0, <1>1 DEF WriteLine, Edit, Page
<1>2. ASSUME NEW s \in Statements, Erase(s)
      PROVE  Lessened(entityPage') /\ Edit(entityPage')
  BY <1>0, <1>2 DEF Erase, Edit, Page
<1>3. ASSUME NEW m \in Memories, Strike(m)
      PROVE  Lessened(entityPage') /\ Edit(entityPage')
  BY <1>0, <1>3 DEF Strike, Edit, Page
<1>4. ASSUME Gut
      PROVE  Lessened(entityPage') /\ Edit(entityPage')
  BY <1>0, <1>4 DEF Gut, Edit, Page
<1>5. ASSUME Remove
      PROVE  Lessened(entityPage') /\ Edit(entityPage')
  BY <1>0, <1>5 DEF Remove, Edit, Page, NoPage
<1>6. Lessened(entityPage') /\ Edit(entityPage')
  BY <1>1, <1>2, <1>3, <1>4, <1>5 DEF UserStep
<1> QED BY <1>6 DEF Edit

LEMMA UserKeeps ==
    ASSUME PagesInv, UserStep
    PROVE  PagesInv'
<1>1. /\ entityPage' \in Page
      /\ entityPage'.facts \subseteq entityPage.facts
      /\ entityPage'.past \subseteq entityPage.past
      /\ entityPage'.there => entityPage.there
      /\ entityPage'.intact => entityPage.intact
      /\ quiet' = FALSE
      /\ UNCHANGED <<store, notes, pass, got, leaving, shown>>
  BY UserStepMoves
<1>2. PagesTypeOK' /\ GotTyped'
  BY <1>1 DEF PagesInv, PagesTypeOK, GotTyped, store, notes
<1>3. LinesWereShown' /\ ShownIsLinked'
  BY <1>1 DEF PagesInv, LinesWereShown, ShownIsLinked, store, notes
<1>4. ErasedIsUnread'
  BY <1>1 DEF PagesInv, ErasedIsUnread, store
<1>5. ErasedIsGone'
  BY <1>1 DEF PagesInv, ErasedIsGone, OnPage
<1>6. NoPageComesBack'
  BY <1>1 DEF PagesInv, NoPageComesBack
<1>7. QuietSoFar'
  BY <1>1 DEF QuietSoFar
<1> QED BY <1>2, <1>3, <1>4, <1>5, <1>6, <1>7 DEF PagesInv

-----------------------------------------------------------------------------
(* The pass. *)

LEMMA StartKeeps ==
    ASSUME PagesInv, Start
    PROVE  PagesInv'
<1> USE DEF Start, PagesInv, store, notes
<1>1. PagesTypeOK' /\ GotTyped'
  BY DEF PagesTypeOK, GotTyped, Stages, Nothing, NoPage, Page
<1>2. LinesWereShown'
  BY DEF LinesWereShown
<1>3. ShownIsLinked'
  BY DEF ShownIsLinked, Nothing
<1>4. ErasedIsUnread'
  <2>1. got'.facts = {} /\ got'.past = {}
    BY DEF Nothing
  <2> QED BY <2>1 DEF ErasedIsUnread, PagesTypeOK
<1>5. ErasedIsGone'
  BY DEF ErasedIsGone, ErasedIsUnread, PagesTypeOK, OnPage
<1>6. NoPageComesBack' /\ QuietSoFar'
  BY DEF NoPageComesBack, QuietSoFar
<1> QED BY <1>1, <1>2, <1>3, <1>4, <1>5, <1>6

LEMMA IngestKeeps ==
    ASSUME PagesInv, Ingest
    PROVE  PagesInv'
<1> USE DEF PagesInv
<1>0. /\ pass = "ingest" /\ pass' = "read"
      /\ UNCHANGED <<entityPage, got, quiet, leaving, shown>>
  BY DEF Ingest, store
<1>1. /\ PagesTypeOK'
      /\ hints' \subseteq shown /\ seen' \subseteq shown
      /\ \A m \in Memories : standing[m] # "new" => standing'[m] = standing[m]
      /\ linked \subseteq linked'
  <2>1. CASE ~entityPage.there \/ ~entityPage.intact
    <3>1. hints' = hints \cap Active /\ UNCHANGED <<standing, linked, seen>>
      BY <2>1 DEF Ingest, store
    <3> QED BY <1>0, <3>1 DEF PagesTypeOK, Stages, LinesWereShown
  <2>2. CASE ~(~entityPage.there \/ ~entityPage.intact)
    <3> DEFINE fresh == Proposed(entityPage.human)
               said   == Said(entityPage.human)
    <3>1. /\ standing' = [m \in Memories |-> IF m \in fresh THEN "pending" ELSE standing[m]]
          /\ linked' = linked \cup fresh \cup said
          /\ hints' = (hints \cup Removed(linked')) \cap Active
          /\ seen' = entityPage.facts
      BY <2>2 DEF Ingest
    <3>2. /\ fresh \subseteq Memories /\ said \subseteq Memories
          /\ \A m \in fresh : standing[m] = "new"
          /\ Removed(linked') \subseteq seen
      BY DEF Proposed, Said, Live, Removed
    <3> HIDE DEF fresh, said
    <3> QED BY <1>0, <3>1, <3>2 DEF PagesTypeOK, Stages, LinesWereShown, Page
  <2> QED BY <2>1, <2>2
<1>2. GotTyped' /\ LinesWereShown'
  BY <1>0, <1>1 DEF GotTyped, LinesWereShown
<1>3. ShownIsLinked'
  BY <1>0, <1>1 DEF ShownIsLinked, PagesTypeOK, GotTyped, Page
<1>4. ErasedIsUnread'
  BY <1>0, <1>1 DEF ErasedIsUnread
<1>5. ErasedIsGone'
  BY <1>0 DEF ErasedIsGone, OnPage
<1>6. NoPageComesBack' /\ QuietSoFar'
  BY <1>0 DEF NoPageComesBack, QuietSoFar
<1> QED BY <1>1, <1>2, <1>3, <1>4, <1>5, <1>6

LEMMA ReadKeeps ==
    ASSUME PagesInv, Read
    PROVE  PagesInv'
<1> USE DEF PagesInv
<1>0. /\ pass = "read"
      /\ \/ /\ linked # {} /\ pass' = "rows" /\ got' = [got EXCEPT !.page = entityPage]
            /\ leaving' = leaving
         \/ /\ linked = {} /\ pass' = "idle" /\ got' = Nothing
            /\ leaving' = [m \in Memories |-> IF leaving[m] = "passing" THEN "left" ELSE leaving[m]]
      /\ UNCHANGED <<standing, linked, entityPage, seen, hints,
                     quiet, shown>>
  BY DEF Read, Visited, EndPass, store, notes
<1>1. /\ got' \in [page : Page, facts : SUBSET Memories, past : SUBSET Memories]
      /\ got'.facts \subseteq got.facts /\ got'.past \subseteq got.past
  <2>1. Nothing \in [page : Page, facts : SUBSET Memories, past : SUBSET Memories]
    BY DEF Nothing, NoPage, Page
  <2>2. CASE got' = Nothing
    BY <2>1, <2>2 DEF Nothing
  <2>3. CASE got' = [got EXCEPT !.page = entityPage]
    BY <2>3 DEF GotTyped, PagesTypeOK
  <2> QED BY <1>0, <2>2, <2>3
<1>2. PagesTypeOK' /\ GotTyped' /\ LinesWereShown' /\ ShownIsLinked'
  BY <1>0, <1>1 DEF PagesTypeOK, Stages, GotTyped, LinesWereShown, ShownIsLinked
<1>3. ErasedIsUnread'
  BY <1>0, <1>1 DEF ErasedIsUnread, PagesTypeOK
<1>4. ErasedIsGone'
  <2>1. ASSUME NEW m \in Memories, leaving[m] = "passing", linked = {}
        PROVE  ~OnPage(m)
    BY <2>1 DEF ErasedIsUnread, ShownIsLinked, OnPage
  <2> QED BY <1>0, <2>1 DEF ErasedIsGone, OnPage, PagesTypeOK
<1>5. NoPageComesBack'
  BY <1>0 DEF NoPageComesBack, GotTyped
<1>6. QuietSoFar'
  BY <1>0 DEF QuietSoFar, PageIsTrue, GotTyped
<1> QED BY <1>2, <1>3, <1>4, <1>5, <1>6

LEMMA ReadRowsKeeps ==
    ASSUME PagesInv, ReadRows
    PROVE  PagesInv'
<1> USE DEF PagesInv
<1> DEFINE facts == {m \in linked \cap Active : Shows(m)}
<1>0. /\ pass = "rows" /\ pass' = "write"
      /\ UNCHANGED <<standing, linked, entityPage, seen, hints,
                     quiet, leaving, shown>>
  BY DEF ReadRows, store, notes
<1>1. PICK past \in Latest(Past) : got' = [got EXCEPT !.facts = facts, !.past = past]
  BY Zenon DEF ReadRows
<1>2. /\ facts \subseteq linked /\ past \subseteq linked
      /\ facts = (linked \cap Active) \ Withheld
      /\ \A m \in facts \cup past : standing[m] \in {"active", "superseded"}
  BY DEF Active, Shows, PagesTypeOK, Latest, Past
<1> HIDE DEF facts
<1>3. /\ got' \in [page : Page, facts : SUBSET Memories, past : SUBSET Memories]
      /\ got'.facts = facts /\ got'.past = past /\ got'.page = got.page
  BY <1>1, <1>2 DEF GotTyped, PagesTypeOK
<1>4. PagesTypeOK' /\ GotTyped' /\ LinesWereShown'
  BY <1>0, <1>3 DEF PagesTypeOK, Stages, GotTyped, LinesWereShown
<1>5. ShownIsLinked'
  BY <1>0, <1>2, <1>3 DEF ShownIsLinked
<1>6. ErasedIsUnread'
  BY <1>0, <1>2, <1>3 DEF ErasedIsUnread
<1>7. ErasedIsGone'
  BY <1>0 DEF ErasedIsGone, OnPage
<1>8. NoPageComesBack'
  BY <1>0, <1>3 DEF NoPageComesBack
<1>9. QuietSoFar'
  <2>1. Latest(Past)' = Latest(Past) /\ Active' = Active
    BY <1>0 DEF Latest, Past, Active, Shows
  <2> QED BY <1>0, <1>1, <1>2, <1>3, <2>1 DEF QuietSoFar
<1> QED BY <1>4, <1>5, <1>6, <1>7, <1>8, <1>9

LEMMA ReplacePageKeeps ==
    ASSUME PagesInv, ReplacePage
    PROVE  PagesInv'
<1> USE DEF PagesInv
<1>0. /\ pass = "write" /\ pass' = "idle" /\ got' = Nothing
      /\ leaving' = [m \in Memories |-> IF leaving[m] = "passing" THEN "left" ELSE leaving[m]]
      /\ UNCHANGED <<standing, linked, seen, hints, quiet>>
  BY DEF ReplacePage, EndPass, store, notes
<1>1. got'.facts = {} /\ got'.past = {}
  BY <1>0 DEF Nothing
<1>2. /\ entityPage' \in Page
      /\ \/ /\ UNCHANGED <<entityPage, shown>>
            /\ ~entityPage.there \/ ~entityPage.intact
         \/ /\ entityPage'.facts = got.facts /\ entityPage'.past = got.past
            /\ shown' = shown \cup got.facts
  <2>1. CASE \/ ~got.page.there /\ got.facts = {} /\ got.past = {}
             \/ ~Merged.intact
    <3>1. UNCHANGED <<entityPage, shown>>
      BY <2>1 DEF ReplacePage
    <3>2. ~Merged.intact => got.page.there /\ ~got.page.intact
      BY DEF Merged, NoPage, GotTyped, Page
    <3> QED BY <1>0, <2>1, <3>1, <3>2 DEF NoPageComesBack, PagesTypeOK
  <2>2. CASE ~(\/ ~got.page.there /\ got.facts = {} /\ got.past = {}
               \/ ~Merged.intact)
    <3>1. entityPage' = Merged /\ shown' = shown \cup got.facts
      BY <2>2 DEF ReplacePage
    <3>2. Merged \in Page /\ Merged.facts = got.facts /\ Merged.past = got.past
      BY DEF Merged, NoPage, GotTyped, Page
    <3> QED BY <3>1, <3>2
  <2> QED BY <2>1, <2>2
<1>3. PagesTypeOK' /\ GotTyped'
  BY <1>0, <1>2 DEF PagesTypeOK, Stages, GotTyped, Nothing, NoPage, Page
<1>4. LinesWereShown' /\ ShownIsLinked'
  BY <1>0, <1>1, <1>2 DEF LinesWereShown, ShownIsLinked
<1>5. ErasedIsUnread'
  BY <1>0, <1>1 DEF ErasedIsUnread, PagesTypeOK
<1>6. ErasedIsGone'
  BY <1>0, <1>2 DEF ErasedIsGone, ErasedIsUnread, OnPage, PagesTypeOK
<1>7. NoPageComesBack'
  BY <1>0 DEF NoPageComesBack
<1>8. QuietSoFar'
  BY <1>0, <1>2 DEF QuietSoFar, PageIsTrue, Active, Latest, Past, Shows
<1> QED BY <1>3, <1>4, <1>5, <1>6, <1>7, <1>8

LEMMA CrashPassKeeps ==
    ASSUME PagesInv, CrashPass
    PROVE  PagesInv'
<1> USE DEF PagesInv
<1>0. /\ pass' = "crashed" /\ got' = Nothing
      /\ leaving' = [m \in Memories |-> IF leaving[m] = "passing" THEN "asked" ELSE leaving[m]]
      /\ UNCHANGED <<standing, linked, entityPage, seen, hints, quiet, shown>>
  BY DEF CrashPass, store, notes
<1>1. got'.facts = {} /\ got'.past = {}
  BY <1>0 DEF Nothing
<1>2. PagesTypeOK' /\ GotTyped'
  BY <1>0 DEF PagesTypeOK, Stages, GotTyped, Nothing, NoPage, Page
<1>3. LinesWereShown' /\ ShownIsLinked'
  BY <1>0, <1>1 DEF LinesWereShown, ShownIsLinked
<1>4. ErasedIsUnread'
  BY <1>0, <1>1 DEF ErasedIsUnread, PagesTypeOK
<1>5. ErasedIsGone'
  BY <1>0 DEF ErasedIsGone, OnPage, PagesTypeOK
<1>6. NoPageComesBack' /\ QuietSoFar'
  BY <1>0 DEF NoPageComesBack, QuietSoFar
<1> QED BY <1>2, <1>3, <1>4, <1>5, <1>6

LEMMA PagesStandStill ==
    ASSUME PagesInv, UNCHANGED pageVars
    PROVE  PagesInv'
<1>0. UNCHANGED <<standing, linked, entityPage, seen, hints, pass, got,
                  quiet, leaving, shown>>
  BY DEF pageVars, store, notes
<1>1. PagesTypeOK' /\ GotTyped' /\ LinesWereShown' /\ ShownIsLinked' /\ ErasedIsUnread'
  BY <1>0 DEF PagesInv, PagesTypeOK, GotTyped, LinesWereShown, ShownIsLinked, ErasedIsUnread
<1>2. ErasedIsGone' /\ NoPageComesBack'
  BY <1>0 DEF PagesInv, ErasedIsGone, OnPage, NoPageComesBack
<1>3. QuietSoFar'
  BY <1>0 DEF PagesInv, QuietSoFar, PageIsTrue, Active, Latest, Past, Shows
<1> QED BY <1>1, <1>2, <1>3 DEF PagesInv

LEMMA PagesStep == PagesInv /\ [PagesNext]_pageVars => PagesInv'
BY StoreKeeps, UserKeeps, StartKeeps, IngestKeeps, ReadKeeps, ReadRowsKeeps, ReplacePageKeeps,
   CrashPassKeeps, PagesStandStill DEF PagesNext

LEMMA PagesInvariant == PagesSpec => []PagesInv
BY PagesStart, PagesStep, PTL DEF PagesSpec

-----------------------------------------------------------------------------
(* The theorems. *)

(* Type correctness of the store, the pages and the pass. *)
THEOREM PagesTypes == PagesSpec => []PagesTypeOK
<1>1. PagesInv => PagesTypeOK
  BY DEF PagesInv
<1> QED BY <1>1, PagesInvariant, PTL

(* What was forgotten or retracted is not on the entity's page once a pass *)
(* that began afterwards has ended (projection.py, "Forgetting erases, not *)
(* just hides"), and a pass beside which nothing moved leaves the page     *)
(* showing the store: the entity's live rows and the latest of its         *)
(* superseded ones (_linked_body), for any number of memories and any      *)
(* limit of the section. *)
THEOREM PagesStayTrue == PagesSpec => []PagesAreTrue
<1>1. ASSUME PagesInv PROVE PagesAreTrue
  <2>1. ForgottenLeavesPages
    BY <1>1 DEF PagesInv, ErasedIsGone, ForgottenLeavesPages
  <2>2. QuietPassIsTrue
    BY <1>1 DEF PagesInv, QuietSoFar, PageIsTrue, QuietPassIsTrue
  <2> QED BY <2>1, <2>2 DEF PagesAreTrue
<1> QED BY <1>1, PagesInvariant, PTL

(* A memory whose line never stood on the page is not hinted at as removed *)
(* (ingest.py: a freshly written fact can never read as removed). *)
THEOREM HintsAreEarned == PagesSpec => []HintsEarned
<1>1. PagesInv => HintsEarned
  BY DEF PagesInv, LinesWereShown, HintsEarned
<1> QED BY <1>1, PagesInvariant, PTL

-----------------------------------------------------------------------------
(* The note index.  The invariant says, stage by stage, how far the rows   *)
(* have come towards the files (RowsOK, StillOK) and which of them have    *)
(* links that are still to be read (LinksOK).                              *)

(* No note, or a title, its links and a stamp. *)
Note == {None} \cup [title : Titles, links : SUBSET Titles, stamp : Nat]

Agree(r, q) == r.title = q.title /\ r.links = q.links

(* A note with a file's stamp says what the file says. *)
Stamped(r, f) == r.stamp <= saves /\ (r.stamp # 0 /\ r.stamp = f.stamp => Agree(r, f))

NotesOK ==
    /\ saves \in Nat
    /\ file \in [Notes -> Note] /\ rows \in [Notes -> Note]
    /\ known \in [Notes -> Note] /\ batch \in [Notes -> Note]
    /\ edges \subseteq Notes \X Notes
    /\ stage \in {"idle", "walk", "store", "link", "rescan", "relink"}
    /\ walk \subseteq Notes /\ met \subseteq Notes /\ noted \subseteq walk \X (0..saves)
    /\ still \in BOOLEAN /\ tainted \in BOOLEAN /\ widowed \in BOOLEAN

(* The vault: a note has a stamp, and no two have one title. *)
FilesOK ==
    /\ \A n \in Notes : /\ file[n].stamp <= saves
                        /\ IsNote(file[n]) => file[n].stamp # 0
    /\ \A n, o \in Notes : IsNote(file[n]) /\ IsNote(file[o]) /\ file[n].title = file[o].title => n = o

(* What a refresh has read. *)
ReadingOK ==
    /\ stage \in {"idle", "relink"} => known = Empty /\ batch = Empty
    /\ stage # "walk" => walk = {} /\ noted = {}
    /\ \A n \in Notes : Stamped(batch[n], file[n])
    /\ \A p \in noted : p[1] \in met
    /\ \A n \in Notes : IsNote(batch[n]) => n \in met /\ n \notin walk

Gone == {n \in Notes \ met : IsNote(known[n])}

(* The rows, unless something has tainted them. *)
RowsOK ==
    /\ (~tainted \/ stage = "relink") =>
          \A n \in Notes : Stamped(rows[n], file[n]) /\ Stamped(known[n], file[n])
    /\ ~tainted /\ stage = "walk" => rows = known
    /\ ~tainted /\ stage = "store" =>
          \A n \in Notes : rows[n] = IF n \in Gone THEN None ELSE known[n]
    /\ ~tainted /\ stage \in {"link", "rescan"} => \A n \in Written : rows[n] = batch[n]

(* Of a vault nobody has moved, a refresh has seen what it has walked, and *)
(* afterwards the rows show it. *)
StillOK ==
    /\ still /\ ~tainted /\ stage = "walk" =>
          \A n \in Notes : IF ~IsNote(file[n]) THEN n \notin met /\ n \notin walk
                           ELSE \/ n \in walk
                                \/ (n \in met /\ Agree(IF IsNote(batch[n]) THEN batch[n] ELSE known[n], file[n]))
    /\ still /\ ~tainted /\ stage = "store" =>
          \A n \in Notes : IF ~IsNote(file[n]) THEN ~IsNote(rows[n]) /\ ~IsNote(batch[n])
                           ELSE Agree(IF IsNote(batch[n]) THEN batch[n] ELSE rows[n], file[n])
    /\ still /\ ((~tainted /\ stage \in {"idle", "link", "rescan"}) \/ stage = "relink") =>
          \A n \in Notes : ShowsFile(n)

(* The links of one row: every edge is a link, and every link that a title *)
(* answers has an edge, or leads to the row itself. *)
EdgesAreLinks(rs, es, a) ==
    \A b \in Notes : <<a, b>> \in es =>
        a # b /\ IsNote(rs[a]) /\ IsNote(rs[b]) /\ rs[b].title \in rs[a].links

LinksHaveEdges(rs, es, a) ==
    IsNote(rs[a]) => \A c \in Notes : IsNote(rs[c]) /\ rs[c].title \in rs[a].links =>
        \/ rs[a].title = rs[c].title
        \/ \E b \in Notes : <<a, b>> \in es /\ rs[b].title = rs[c].title

Linked(rs, es, a) == EdgesAreLinks(rs, es, a) /\ LinksHaveEdges(rs, es, a)

(* The rows whose links are still to be read. *)
Unlinked == (IF stage = "link" THEN Written ELSE {})
                \cup (IF stage \in {"link", "rescan"} THEN Concerned ELSE {})

LinksOK ==
    /\ ~tainted /\ ~widowed => \A a \in Notes \ Unlinked : Linked(rows, edges, a)
    /\ (~tainted \/ stage = "relink") => \A e \in edges : IsNote(rows[e[1]])

IndexInv == NotesOK /\ FilesOK /\ ReadingOK /\ RowsOK /\ StillOK /\ LinksOK

-----------------------------------------------------------------------------
(* Notes. *)

LEMMA NoneIs == None \in Note /\ None.links = {} /\ None.stamp = 0 /\ ~IsNote(None)
  BY DEF Note, None, IsNote

LEMMA NoteShape ==
    \A r \in Note : /\ r.links \subseteq Titles /\ r.stamp \in Nat
                    /\ IsNote(r) => r.title \in Titles
                    /\ ~IsNote(r) => r = None
<1> SUFFICES ASSUME NEW r \in Note
             PROVE  /\ r.links \subseteq Titles /\ r.stamp \in Nat
                    /\ IsNote(r) => r.title \in Titles
                    /\ ~IsNote(r) => r = None
  OBVIOUS
<1>1. CASE r = None
  <2>1. r.links = {} /\ r.stamp = 0 /\ ~IsNote(r)
    BY <1>1, NoneIs
  <2>2. 0 \in Nat /\ {} \subseteq Titles
    OBVIOUS
  <2> QED
    BY <1>1, <2>1, <2>2
<1>2. CASE r # None
  <2>1. r \in [title : Titles, links : SUBSET Titles, stamp : Nat]
    BY <1>2 DEF Note
  <2>2. r.title \in Titles /\ r.links \subseteq Titles /\ r.stamp \in Nat
    BY <2>1
  <2> QED
    BY <2>2, IndexConstants DEF IsNote, IndexConstants
<1> QED
  BY <1>1, <1>2

LEMMA EmptyIs == Empty \in [Notes -> Note] /\ \A n \in Notes : Empty[n] = None
  BY NoneIs DEF Empty

(* A note that is written, one read under an earlier stamp, and a row that *)
(* gets a stamp. *)
LEMMA NoteMade ==
    ASSUME NEW c \in Contents, NEW s \in Nat
    PROVE  LET r == [title |-> c.title, links |-> c.links, stamp |-> s]
           IN r \in Note /\ IsNote(r) /\ r.title = c.title /\ r.links = c.links /\ r.stamp = s
  BY IndexConstants DEF Note, Contents, IsNote, IndexConstants

LEMMA NoteStamped ==
    ASSUME NEW r \in Note, IsNote(r), NEW s \in Nat
    PROVE  LET q == [r EXCEPT !.stamp = s]
           IN q \in Note /\ IsNote(q) /\ Agree(q, r) /\ q.stamp = s
<1>1. r \in [title : Titles, links : SUBSET Titles, stamp : Nat]
  BY NoneIs DEF Note
<1> QED
  BY <1>1 DEF Note, IsNote, Agree

LEMMA SameWords == \A r, q \in Note : Agree(r, q) => (IsNote(r) <=> IsNote(q))
  BY DEF Agree, IsNote

LEMMA InitIndex == IndexInit => IndexInv
<1> SUFFICES ASSUME IndexInit PROVE IndexInv
  OBVIOUS
<1>1. NotesOK
  BY EmptyIs, IndexConstants DEF IndexInit, NotesOK, IndexConstants
<1>2. FilesOK
  <2>1. saves = 0 /\ \A n \in Notes : file[n].stamp = 0 /\ ~IsNote(file[n])
    BY EmptyIs, NoneIs DEF IndexInit
  <2>2. 0 <= saves
    BY <2>1
  <2> QED
    BY <2>1, <2>2 DEF FilesOK
<1>2a. \A n \in Notes : Stamped(Empty[n], Empty[n])
  <2>1. saves = 0 /\ None.stamp = 0
    BY NoneIs DEF IndexInit
  <2>2. Stamped(None, None)
    BY <2>1 DEF Stamped
  <2> QED
    BY <2>2, EmptyIs
<1>3. ReadingOK
  BY <1>2a, EmptyIs, NoneIs DEF IndexInit, ReadingOK, IsNote
<1>4. RowsOK
  BY <1>2a DEF IndexInit, RowsOK
<1>5. StillOK
  BY EmptyIs, NoneIs DEF IndexInit, StillOK, ShowsFile
<1>6. LinksOK
  BY EmptyIs, NoneIs DEF IndexInit, LinksOK, Linked, EdgesAreLinks, LinksHaveEdges
<1> QED
  BY <1>1, <1>2, <1>3, <1>4, <1>5, <1>6 DEF IndexInv

-----------------------------------------------------------------------------
(* The vault moves. *)

(* What is written has a stamp of its own. *)
LEMMA SavedFiles ==
    ASSUME NotesOK, FilesOK, NEW n \in Notes, NEW c \in Contents, Save(n, c)
    PROVE  /\ saves' = saves + 1 /\ still' = FALSE
           /\ file' \in [Notes -> Note] /\ FilesOK'
           /\ \A o \in Notes \ {n} : file'[o] = file[o]
           /\ file'[n].stamp = saves + 1
<1> DEFINE r == [title |-> c.title, links |-> c.links, stamp |-> saves + 1]
<1>1. saves \in Nat /\ saves + 1 \in Nat /\ file \in [Notes -> Note]
  BY DEF NotesOK
<1>2. r \in Note /\ IsNote(r) /\ r.title = c.title /\ r.stamp = saves + 1
  BY <1>1, NoteMade
<1>3. saves' = saves + 1 /\ still' = FALSE /\ file' = [file EXCEPT ![n] = r]
  BY DEF Save
<1> HIDE DEF r
<1>4. file' \in [Notes -> Note] /\ file'[n] = r /\ \A o \in Notes \ {n} : file'[o] = file[o]
  BY <1>1, <1>2, <1>3
<1>5. \A o \in Notes : file'[o].stamp <= saves' /\ (IsNote(file'[o]) => file'[o].stamp # 0)
  <2> SUFFICES ASSUME NEW o \in Notes
               PROVE  file'[o].stamp <= saves' /\ (IsNote(file'[o]) => file'[o].stamp # 0)
    OBVIOUS
  <2>1. CASE o = n
    BY <2>1, <1>1, <1>2, <1>3, <1>4
  <2>2. CASE o # n
    <3>1. file[o].stamp <= saves /\ (IsNote(file[o]) => file[o].stamp # 0) /\ file[o].stamp \in Nat
      BY <1>1, NoteShape DEF FilesOK
    <3> QED
      BY <3>1, <2>2, <1>1, <1>3, <1>4
  <2> QED
    BY <2>1, <2>2
<1>6. \A o, p \in Notes : IsNote(file'[o]) /\ IsNote(file'[p]) /\ file'[o].title = file'[p].title => o = p
  <2>1. \A o \in Notes \ {n} : file[o].title # r.title
    BY <1>2 DEF Save, Titled
  <2> QED
    BY <2>1, <1>4 DEF FilesOK
<1> QED
  BY <1>2, <1>3, <1>4, <1>5, <1>6 DEF FilesOK

(* A stamp given out earlier is not the new file's. *)
LEMMA OldStamps ==
    ASSUME NotesOK, NEW r \in Note, NEW f \in Note, NEW g \in Note, NEW n \in Nat,
           Stamped(r, f), n = saves + 1, saves' = n, g = f \/ g.stamp = n
    PROVE  Stamped(r, g)'
<1>1. r.stamp <= saves /\ (r.stamp # 0 /\ r.stamp = f.stamp => Agree(r, f)) /\ saves \in Nat
  BY DEF Stamped, NotesOK
<1>2. r.stamp \in Nat
  BY NoteShape
<1>3. r.stamp <= n /\ r.stamp # n
  BY <1>1, <1>2
<1> QED
  BY <1>1, <1>3 DEF Stamped

LEMMA EditKeeps ==
    ASSUME IndexInv, NEW n \in Notes, NEW c \in Contents, EditNote(n, c)
    PROVE  IndexInv'
<1> USE DEF IndexInv
<1>0. /\ UNCHANGED <<rows, edges, stage, walk, met, known, noted, batch, tainted, widowed>>
      /\ Save(n, c)
  BY DEF EditNote, stored, reading
<1>1. /\ saves' = saves + 1 /\ still' = FALSE
      /\ file' \in [Notes -> Note] /\ FilesOK'
      /\ \A o \in Notes \ {n} : file'[o] = file[o]
      /\ file'[n].stamp = saves + 1
  BY <1>0, SavedFiles
<1>2. saves \in Nat /\ saves + 1 \in Nat /\ file \in [Notes -> Note]
  BY DEF NotesOK
<1>3. \A o \in Notes : file'[o] = file[o] \/ file'[o].stamp = saves + 1
  BY <1>1
<1>4. \A o \in Notes, r \in Note : Stamped(r, file[o]) => Stamped(r, file[o])'
  <2> SUFFICES ASSUME NEW o \in Notes, NEW r \in Note, Stamped(r, file[o]) PROVE Stamped(r, file[o])'
    OBVIOUS
  <2>1. file[o] \in Note /\ file'[o] \in Note
    BY <1>1, <1>2
  <2> QED
    BY <2>1, <1>1, <1>2, <1>3, OldStamps DEF Stamped
<1>5. NotesOK'
  <2>1. noted' \subseteq walk' \X (0..saves')
    <3>1. 0..saves \subseteq 0..(saves + 1)
      BY <1>2
    <3>2. noted \subseteq walk \X (0..saves)
      BY DEF NotesOK
    <3> QED
      BY <3>1, <3>2, <1>0, <1>1
  <2> QED
    BY <2>1, <1>0, <1>1, <1>2 DEF NotesOK
<1>6. ReadingOK'
  <2>1. \A o \in Notes : batch[o] \in Note
    BY DEF NotesOK
  <2> QED
    BY <2>1, <1>0, <1>4 DEF ReadingOK
<1>7. RowsOK'
  <2>1. \A o \in Notes : rows[o] \in Note /\ known[o] \in Note
    BY DEF NotesOK
  <2> QED
    BY <2>1, <1>0, <1>4 DEF RowsOK, Gone, Written, Opened, Same
<1>8. StillOK'
  BY <1>1 DEF StillOK
<1>9. LinksOK'
  BY <1>0 DEF LinksOK, Unlinked, Concerned, Mentions, Added, Renamed, Written, Opened, Same, Stored
<1> QED
  BY <1>1, <1>5, <1>6, <1>7, <1>8, <1>9

LEMMA TouchKeeps ==
    ASSUME IndexInv, NEW n \in Notes, TouchNote(n)
    PROVE  IndexInv'
<1>1. file[n] \in Note /\ IsNote(file[n])
  BY DEF IndexInv, NotesOK, TouchNote
<1>2. file[n] \in [title : Titles, links : SUBSET Titles, stamp : Nat]
  BY <1>1, NoneIs DEF Note
<1> DEFINE c == [title |-> file[n].title, links |-> file[n].links]
<1>3. c \in Contents /\ EditNote(n, c)
  BY <1>2 DEF Contents, TouchNote, EditNote, Save, Titled
<1> QED
  BY <1>3, EditKeeps

LEMMA RemoveKeeps ==
    ASSUME IndexInv, NEW n \in Notes, RemoveNote(n)
    PROVE  IndexInv'
<1> USE DEF IndexInv
<1>0. /\ UNCHANGED <<saves, rows, edges, stage, walk, met, known, noted, batch, tainted, widowed>>
      /\ file' = [file EXCEPT ![n] = None] /\ still' = FALSE
  BY DEF RemoveNote, stored, reading
<1>1. saves \in Nat /\ file \in [Notes -> Note]
  BY DEF NotesOK
<1>2. file' \in [Notes -> Note] /\ file'[n] = None /\ \A o \in Notes \ {n} : file'[o] = file[o]
  BY <1>0, <1>1, NoneIs
<1>3. FilesOK'
  <2>1. \A o \in Notes : file'[o] = file[o] \/ file'[o] = None
    BY <1>2
  <2>2. None.stamp = 0 /\ ~IsNote(None) /\ 0 <= saves
    BY <1>1, NoneIs
  <2> QED
    BY <2>1, <2>2, <1>0 DEF FilesOK
<1>4. \A o \in Notes, r \in Note : Stamped(r, file[o]) => Stamped(r, file[o])'
  <2>1. \A o \in Notes : file'[o] = file[o] \/ file'[o] = None
    BY <1>2
  <2> QED
    BY <2>1, <1>0, NoneIs DEF Stamped
<1>5. NotesOK'
  BY <1>0, <1>2 DEF NotesOK
<1>6. ReadingOK'
  <2>1. \A o \in Notes : batch[o] \in Note
    BY DEF NotesOK
  <2> QED
    BY <2>1, <1>0, <1>4 DEF ReadingOK
<1>7. RowsOK'
  <2>1. \A o \in Notes : rows[o] \in Note /\ known[o] \in Note
    BY DEF NotesOK
  <2> QED
    BY <2>1, <1>0, <1>4 DEF RowsOK, Gone, Written, Opened, Same
<1>8. StillOK'
  BY <1>0 DEF StillOK
<1>9. LinksOK'
  BY <1>0 DEF LinksOK, Unlinked, Concerned, Mentions, Added, Renamed, Written, Opened, Same, Stored
<1> QED
  BY <1>3, <1>5, <1>6, <1>7, <1>8, <1>9

-----------------------------------------------------------------------------
(* Links. *)

(* A map of titles leads to rows that have them, and knows every title. *)
LEMMA MapsLead ==
    ASSUME NEW rs \in [Notes -> Note], NEW map \in Maps(rs)
    PROVE  /\ \A t \in DOMAIN map : map[t] \in Notes /\ IsNote(rs[map[t]]) /\ rs[map[t]].title = t
           /\ \A n \in Notes : IsNote(rs[n]) => rs[n].title \in DOMAIN map
<1> DEFINE titled(t) == {n \in Notes : IsNote(rs[n]) /\ rs[n].title = t}
           D == {t \in Titles : titled(t) # {}}
<1>1. map \in [D -> Notes] /\ \A t \in DOMAIN map : map[t] \in titled(t)
  BY DEF Maps
<1>2. DOMAIN map = D
  BY <1>1
<1>3. \A n \in Notes : IsNote(rs[n]) => rs[n].title \in D
  <2> SUFFICES ASSUME NEW n \in Notes, IsNote(rs[n]) PROVE rs[n].title \in D
    OBVIOUS
  <2>1. rs[n].title \in Titles
    BY NoteShape
  <2>2. n \in titled(rs[n].title)
    OBVIOUS
  <2> QED
    BY <2>1, <2>2
<1> QED
  BY <1>1, <1>2, <1>3

LEMMA RelinkedEdges ==
    ASSUME NEW S \in SUBSET Notes, NEW T, NEW map, NEW a \in Notes, NEW b \in Notes
    PROVE  <<a, b>> \in Relinked(S, T, map) <=>
               IF a \in S THEN a # b /\ \E t \in T[a].links \cap DOMAIN map : map[t] = b
               ELSE <<a, b>> \in edges
  BY DEF Relinked

LEMMA RelinkedType ==
    ASSUME NEW S \in SUBSET Notes, NEW T, NEW map, edges \subseteq Notes \X Notes
    PROVE  /\ Relinked(S, T, map) \subseteq Notes \X Notes
           /\ \A e \in Relinked(S, T, map) : e[1] \in S \/ e \in edges
  BY DEF Relinked

(* A row is linked by a map of the rows and its own words. *)
LEMMA RelinkedLinks ==
    ASSUME NEW rs \in [Notes -> Note], NEW map \in Maps(rs), NEW S \in SUBSET Notes, NEW T,
           NEW a \in S, IsNote(rs[a]), T[a].links = rs[a].links
    PROVE  Linked(rs, Relinked(S, T, map), a)
<1> DEFINE es == Relinked(S, T, map)
<1>1. \A b \in Notes : <<a, b>> \in es <=>
          a # b /\ \E t \in rs[a].links \cap DOMAIN map : map[t] = b
  <2> SUFFICES ASSUME NEW b \in Notes
               PROVE  <<a, b>> \in es <=> a # b /\ \E t \in rs[a].links \cap DOMAIN map : map[t] = b
    OBVIOUS
  <2>1. <<a, b>> \in es <=> IF a \in S THEN a # b /\ \E t \in T[a].links \cap DOMAIN map : map[t] = b
                            ELSE <<a, b>> \in edges
    BY RelinkedEdges
  <2> QED
    BY <2>1
<1> HIDE DEF es
<1>2. /\ \A t \in DOMAIN map : map[t] \in Notes /\ IsNote(rs[map[t]]) /\ rs[map[t]].title = t
      /\ \A n \in Notes : IsNote(rs[n]) => rs[n].title \in DOMAIN map
  BY MapsLead
<1>3. EdgesAreLinks(rs, es, a)
  BY <1>1, <1>2 DEF EdgesAreLinks
<1>4. LinksHaveEdges(rs, es, a)
  <2> SUFFICES ASSUME NEW c \in Notes, IsNote(rs[c]), rs[c].title \in rs[a].links,
                      rs[a].title # rs[c].title
               PROVE  \E b \in Notes : <<a, b>> \in es /\ rs[b].title = rs[c].title
    BY DEF LinksHaveEdges
  <2> DEFINE b == map[rs[c].title]
  <2>1. b \in Notes /\ rs[b].title = rs[c].title /\ rs[c].title \in rs[a].links \cap DOMAIN map
    BY <1>2
  <2>2. a # b
    BY <2>1
  <2>3. <<a, b>> \in es
    BY <1>1, <2>1, <2>2
  <2> QED
    BY <2>1, <2>3
<1> QED
  BY <1>3, <1>4 DEF Linked, es

(* The links of a row that was not looked at. *)
LEMMA NotRelinked ==
    ASSUME NEW rs, NEW S \in SUBSET Notes, NEW T, NEW map, NEW a \in Notes \ S,
           Linked(rs, edges, a)
    PROVE  Linked(rs, Relinked(S, T, map), a)
<1>1. \A b \in Notes : <<a, b>> \in Relinked(S, T, map) <=> <<a, b>> \in edges
  BY RelinkedEdges
<1> QED
  BY <1>1 DEF Linked, EdgesAreLinks, LinksHaveEdges

-----------------------------------------------------------------------------
(* The refresh reads. *)

LEMMA BeginKeeps == ASSUME IndexInv, Begin PROVE IndexInv'
<1> USE DEF IndexInv
<1>0. /\ stage = "idle" /\ stage' = "walk" /\ walk' = {n \in Notes : IsNote(file[n])}
      /\ met' = {} /\ known' = rows /\ noted' = {} /\ batch' = Empty /\ still' = TRUE
      /\ UNCHANGED <<file, saves, rows, edges, tainted, widowed>>
  BY DEF Begin, stored
<1>1. NotesOK'
  BY <1>0, EmptyIs DEF NotesOK
<1>2. FilesOK'
  BY <1>0 DEF FilesOK
<1>3. ReadingOK'
  <2>1. \A n \in Notes : ~IsNote(batch'[n])
    BY <1>0, EmptyIs, NoneIs
  <2>2. \A n \in Notes : Stamped(batch[n], file[n])'
    BY <1>0, EmptyIs DEF ReadingOK, Stamped
  <2> QED
    BY <2>1, <2>2, <1>0 DEF ReadingOK
<1>4. RowsOK'
  BY <1>0 DEF RowsOK, Stamped
<1>5. StillOK'
  <2>1. \A n \in Notes : ~IsNote(file[n]) => n \notin met' /\ n \notin walk'
    BY <1>0
  <2>2. \A n \in Notes : IsNote(file[n]) => n \in walk'
    BY <1>0
  <2> QED
    BY <2>1, <2>2, <1>0 DEF StillOK
<1>6. LinksOK'
  BY <1>0 DEF LinksOK, Unlinked
<1> QED
  BY <1>1, <1>2, <1>3, <1>4, <1>5, <1>6

LEMMA StatKeeps == ASSUME IndexInv, NEW n \in Notes, Stat(n) PROVE IndexInv'
<1> USE DEF IndexInv
<1>0. /\ stage = "walk" /\ n \in walk /\ noted = {}
      /\ met' = IF IsNote(file[n]) THEN met \cup {n} ELSE met
      /\ UNCHANGED <<file, saves, rows, edges, stage, known, batch, still, tainted, widowed>>
  BY DEF Stat, stored
<1>1. \/ /\ IsNote(file[n]) /\ file[n].stamp # known[n].stamp
         /\ noted' = {<<n, file[n].stamp>>} /\ walk' = walk
      \/ /\ IsNote(file[n]) => file[n].stamp = known[n].stamp
         /\ noted' = {} /\ walk' = walk \ {n}
  BY DEF Stat
<1>2. NotesOK'
  <2>1. noted' \subseteq walk' \X (0..saves')
    <3>1. file[n] \in Note /\ saves \in Nat
      BY DEF NotesOK
    <3>2. file[n].stamp \in Nat /\ file[n].stamp <= saves
      BY <3>1, NoteShape DEF FilesOK
    <3>3. file[n].stamp \in 0..saves
      BY <3>1, <3>2
    <3> QED
      BY <3>3, <1>0, <1>1
  <2> QED
    BY <2>1, <1>0, <1>1 DEF NotesOK
<1>3. FilesOK'
  BY <1>0 DEF FilesOK
<1>4. ReadingOK'
  <2>1. \A p \in noted' : p[1] \in met'
    BY <1>0, <1>1
  <2>2. \A o \in Notes : Stamped(batch[o], file[o])'
    BY <1>0 DEF ReadingOK, Stamped
  <2> QED
    BY <2>1, <2>2, <1>0, <1>1 DEF ReadingOK
<1>5. RowsOK'
  BY <1>0 DEF RowsOK, Stamped
<1>6. StillOK'
  <2> SUFFICES ASSUME still, ~tainted, NEW o \in Notes
               PROVE  IF ~IsNote(file[o]) THEN o \notin met' /\ o \notin walk'
                      ELSE \/ o \in walk'
                           \/ (o \in met' /\ Agree(IF IsNote(batch[o]) THEN batch[o] ELSE known[o], file[o]))
    BY <1>0 DEF StillOK
  <2>1. IF ~IsNote(file[o]) THEN o \notin met /\ o \notin walk
        ELSE \/ o \in walk
             \/ (o \in met /\ Agree(IF IsNote(batch[o]) THEN batch[o] ELSE known[o], file[o]))
    BY <1>0 DEF StillOK
  <2>2. CASE o # n
    BY <2>1, <2>2, <1>0, <1>1
  <2>3. CASE o = n /\ walk' = walk
    BY <2>1, <2>3, <1>0, <1>1
  <2>4. CASE o = n /\ walk' = walk \ {n} /\ (IsNote(file[n]) => file[n].stamp = known[n].stamp)
    <3>1. IsNote(file[n]) /\ ~IsNote(batch[n])
      BY <2>1, <2>4, <1>0 DEF ReadingOK
    <3>2. file[n].stamp # 0 /\ file[n].stamp = known[n].stamp
      BY <3>1, <2>4 DEF FilesOK
    <3>3. Stamped(known[n], file[n])
      BY DEF RowsOK
    <3>4. Agree(known[n], file[n])
      BY <3>2, <3>3 DEF Stamped
    <3> QED
      BY <3>1, <3>4, <2>4, <1>0
  <2> QED
    BY <2>2, <2>3, <2>4, <1>1
<1>7. LinksOK'
  BY <1>0 DEF LinksOK, Unlinked
<1> QED
  BY <1>2, <1>3, <1>4, <1>5, <1>6, <1>7

LEMMA OpenKeeps == ASSUME IndexInv, NEW n \in Notes, OpenNote(n) PROVE IndexInv'
<1> USE DEF IndexInv
<1>0. PICK stamp \in 1..MaxSaves :
          /\ stage = "walk" /\ <<n, stamp>> \in noted
          /\ walk' = walk \ {n} /\ noted' = {}
          /\ batch' = IF IsNote(file[n]) THEN [batch EXCEPT ![n] = [file[n] EXCEPT !.stamp = stamp]] ELSE batch
          /\ UNCHANGED <<file, saves, rows, edges, stage, met, known, still, tainted, widowed>>
  BY DEF OpenNote, stored
<1>1. n \in walk /\ n \in met /\ stamp \in 0..saves
  BY <1>0 DEF NotesOK, ReadingOK
<1>2. file \in [Notes -> Note] /\ batch \in [Notes -> Note] /\ saves \in Nat
  BY DEF NotesOK
<1> DEFINE q == [file[n] EXCEPT !.stamp = stamp]
<1>3. IsNote(file[n]) => q \in Note /\ IsNote(q) /\ Agree(q, file[n]) /\ q.stamp = stamp
  BY <1>1, <1>2, NoteStamped
<1>4. batch' = IF IsNote(file[n]) THEN [batch EXCEPT ![n] = q] ELSE batch
  BY <1>0
<1> HIDE DEF q
<1>5. batch' \in [Notes -> Note]
  BY <1>2, <1>3, <1>4
<1>6. \A o \in Notes : batch'[o] = IF o = n /\ IsNote(file[n]) THEN q ELSE batch[o]
  BY <1>2, <1>4
<1>7. NotesOK'
  BY <1>0, <1>5 DEF NotesOK
<1>8. FilesOK'
  BY <1>0 DEF FilesOK
<1>9. ReadingOK'
  <2>1. ASSUME NEW o \in Notes PROVE Stamped(batch[o], file[o])'
    <3>1. Stamped(batch[o], file[o])
      BY DEF ReadingOK
    <3>2. IsNote(file[n]) => q.stamp <= saves
      BY <1>1, <1>2, <1>3
    <3> QED
      BY <3>1, <3>2, <1>0, <1>3, <1>6 DEF Stamped
  <2>2. \A o \in Notes : IsNote(batch'[o]) => o \in met' /\ o \notin walk'
    BY <1>0, <1>1, <1>6 DEF ReadingOK
  <2> QED
    BY <2>1, <2>2, <1>0 DEF ReadingOK
<1>10. RowsOK'
  BY <1>0 DEF RowsOK, Stamped
<1>11. StillOK'
  <2> SUFFICES ASSUME still, ~tainted, NEW o \in Notes
               PROVE  IF ~IsNote(file[o]) THEN o \notin met /\ o \notin walk'
                      ELSE \/ o \in walk'
                           \/ (o \in met /\ Agree(IF IsNote(batch'[o]) THEN batch'[o] ELSE known[o], file[o]))
    BY <1>0 DEF StillOK
  <2>1. IF ~IsNote(file[o]) THEN o \notin met /\ o \notin walk
        ELSE \/ o \in walk
             \/ (o \in met /\ Agree(IF IsNote(batch[o]) THEN batch[o] ELSE known[o], file[o]))
    BY <1>0 DEF StillOK
  <2>2. CASE o # n
    BY <2>1, <2>2, <1>0, <1>6
  <2>3. CASE o = n
    <3>1. IsNote(file[n])
      BY <2>1, <2>3, <1>1
    <3> QED
      BY <3>1, <2>3, <1>1, <1>3, <1>6
  <2> QED
    BY <2>2, <2>3
<1>12. LinksOK'
  BY <1>0 DEF LinksOK, Unlinked
<1> QED
  BY <1>7, <1>8, <1>9, <1>10, <1>11, <1>12

-----------------------------------------------------------------------------
(* The refresh writes. *)

LEMMA DeleteKeeps == ASSUME IndexInv, Delete(Gone) PROVE IndexInv'
<1> USE DEF IndexInv
<1>0. /\ stage = "walk" /\ walk = {} /\ stage' = "store"
      /\ edges' = {e \in edges : e[1] \notin Gone /\ e[2] \notin Gone}
      /\ widowed' = (widowed \/ \E n \in Gone, o \in Stored \ Gone : rows[n].title = rows[o].title)
      /\ UNCHANGED <<file, saves, walk, met, known, noted, batch, still, tainted>>
  BY DEF Delete, reading
<1>1. rows' = [n \in Notes |-> IF n \in Gone THEN None ELSE rows[n]]
  BY DEF Delete
<1>2. rows \in [Notes -> Note] /\ rows' \in [Notes -> Note]
      /\ \A n \in Notes : rows'[n] = IF n \in Gone THEN None ELSE rows[n]
  BY <1>1, NoneIs DEF NotesOK
<1>3. Gone' = Gone
  BY <1>0 DEF Gone
<1>4. NotesOK'
  <2>1. noted' \subseteq walk' \X (0..saves') /\ edges' \subseteq Notes \X Notes
    BY <1>0 DEF NotesOK
  <2>2. widowed' \in BOOLEAN
    BY <1>0 DEF NotesOK
  <2> QED
    BY <2>1, <2>2, <1>0, <1>2 DEF NotesOK
<1>5. FilesOK'
  BY <1>0 DEF FilesOK
<1>6. ReadingOK'
  <2>1. \A o \in Notes : Stamped(batch[o], file[o])'
    BY <1>0 DEF ReadingOK, Stamped
  <2>2. noted = {}
    BY <1>0 DEF NotesOK
  <2> QED
    BY <2>1, <2>2, <1>0 DEF ReadingOK
<1>7. ~tainted => rows = known
  BY <1>0 DEF RowsOK
<1>8. RowsOK'
  <2> SUFFICES ASSUME ~tainted PROVE RowsOK'
    BY <1>0 DEF RowsOK
  <2>1. ASSUME NEW n \in Notes PROVE Stamped(rows[n], file[n])' /\ Stamped(known[n], file[n])'
    <3>1. Stamped(rows[n], file[n]) /\ Stamped(known[n], file[n])
      BY DEF RowsOK
    <3>2. Stamped(None, file[n])
      BY NoneIs DEF Stamped, NotesOK
    <3> QED
      BY <3>1, <3>2, <1>0, <1>2 DEF Stamped
  <2> QED
    BY <2>1, <1>0, <1>2, <1>3, <1>7 DEF RowsOK
<1>9. StillOK'
  <2> SUFFICES ASSUME still, ~tainted, NEW n \in Notes
               PROVE  IF ~IsNote(file[n]) THEN ~IsNote(rows'[n]) /\ ~IsNote(batch[n])
                      ELSE Agree(IF IsNote(batch[n]) THEN batch[n] ELSE rows'[n], file[n])
    BY <1>0 DEF StillOK
  <2>1. IF ~IsNote(file[n]) THEN n \notin met
        ELSE n \in met /\ Agree(IF IsNote(batch[n]) THEN batch[n] ELSE known[n], file[n])
    BY <1>0 DEF StillOK
  <2>2. n \in Gone <=> n \notin met /\ IsNote(known[n])
    BY DEF Gone
  <2>3. rows'[n] = IF n \in Gone THEN None ELSE known[n]
    BY <1>2, <1>7
  <2>4. ~IsNote(None)
    BY NoneIs
  <2>5. IsNote(batch[n]) => n \in met
    BY DEF ReadingOK
  <2> QED
    BY <2>1, <2>2, <2>3, <2>4, <2>5
<1>10. LinksOK'
  <2>1. ASSUME ~tainted, ~widowed', NEW a \in Notes PROVE Linked(rows', edges', a)
    <3>1. Linked(rows, edges, a)
      BY <2>1, <1>0 DEF LinksOK, Unlinked
    <3>2. ~IsNote(None)
      BY NoneIs
    <3>3. EdgesAreLinks(rows', edges', a)
      <4> SUFFICES ASSUME NEW b \in Notes, <<a, b>> \in edges'
                   PROVE  a # b /\ IsNote(rows'[a]) /\ IsNote(rows'[b]) /\ rows'[b].title \in rows'[a].links
        BY DEF EdgesAreLinks
      <4>1. <<a, b>> \in edges /\ a \notin Gone /\ b \notin Gone
        BY <1>0
      <4> QED
        BY <4>1, <3>1, <1>2 DEF Linked, EdgesAreLinks
    <3>4. LinksHaveEdges(rows', edges', a)
      <4> SUFFICES ASSUME IsNote(rows'[a]), NEW c \in Notes, IsNote(rows'[c]),
                          rows'[c].title \in rows'[a].links, rows'[a].title # rows'[c].title
                   PROVE  \E b \in Notes : <<a, b>> \in edges' /\ rows'[b].title = rows'[c].title
        BY DEF LinksHaveEdges
      <4>1. a \notin Gone /\ c \notin Gone /\ rows'[a] = rows[a] /\ rows'[c] = rows[c]
        BY <3>2, <1>2
      <4>2. PICK b \in Notes : <<a, b>> \in edges /\ rows[b].title = rows[c].title
        BY <4>1, <3>1 DEF Linked, LinksHaveEdges
      <4>3. c \in Stored \ Gone
        BY <4>1 DEF Stored
      <4>4. b \notin Gone
        BY <4>2, <4>3, <2>1, <1>0
      <4>5. <<a, b>> \in edges' /\ rows'[b] = rows[b]
        BY <4>1, <4>2, <4>4, <1>0, <1>2
      <4> QED
        BY <4>1, <4>2, <4>5
    <3> QED
      BY <3>3, <3>4 DEF Linked
  <2>2. ~tainted => \A e \in edges' : IsNote(rows'[e[1]])
    <3>1. ASSUME ~tainted, NEW e \in edges' PROVE IsNote(rows'[e[1]])
      <4>1. e \in edges /\ e[1] \notin Gone /\ e[1] \in Notes
        BY <1>0 DEF NotesOK
      <4> QED
        BY <4>1, <3>1, <1>2 DEF LinksOK
    <3> QED
      BY <3>1
  <2> QED
    BY <2>1, <2>2, <1>0 DEF LinksOK
<1> QED
  BY <1>4, <1>5, <1>6, <1>8, <1>9, <1>10

(* What a refresh that nothing has tainted stores: rows keep their words,  *)
(* but for those that are written. *)
LEMMA StoreRows ==
    ASSUME IndexInv, Store
    PROVE  /\ rows' \in [Notes -> Note]
           /\ \A n \in Written : rows'[n] = batch[n] /\ IsNote(batch[n])
           /\ \A n \in Notes \ Written : n \notin Opened => rows'[n] = rows[n]
           /\ ~tainted => \A n \in Opened \ Written :
                 /\ IsNote(rows[n]) /\ Agree(rows'[n], rows[n]) /\ Agree(rows[n], batch[n])
                 /\ rows'[n].stamp = batch[n].stamp /\ IsNote(rows'[n])
<1> USE DEF IndexInv
<1>1. rows \in [Notes -> Note] /\ batch \in [Notes -> Note] /\ stage = "store"
  BY DEF NotesOK, Store
<1>2. \A n \in Notes : batch[n].stamp \in Nat
  BY <1>1, NoteShape
<1> DEFINE q(n) == [rows[n] EXCEPT !.stamp = batch[n].stamp]
<1>3. \A n \in Notes : IsNote(rows[n]) =>
          q(n) \in Note /\ IsNote(q(n)) /\ Agree(q(n), rows[n]) /\ q(n).stamp = batch[n].stamp
  BY <1>1, <1>2, NoteStamped
<1>4. rows' = [n \in Notes |-> CASE n \in Written -> batch[n]
                                [] n \in Opened \ Written -> IF IsNote(rows[n]) THEN q(n) ELSE None
                                [] OTHER -> rows[n]]
  BY DEF Store
<1> HIDE DEF q
<1>5. \A n \in Written : IsNote(batch[n])
  BY DEF Written, Opened
<1>6. Written \subseteq Opened /\ Opened \subseteq Notes
  BY DEF Written, Opened
<1>7. ASSUME NEW n \in Notes PROVE rows'[n] \in Note
  BY <1>1, <1>3, <1>4, NoneIs
<1>8. ~tainted => \A n \in Opened \ Written : IsNote(rows[n]) /\ Agree(rows[n], batch[n])
  <2> SUFFICES ASSUME ~tainted, NEW n \in Opened \ Written PROVE IsNote(rows[n]) /\ Agree(rows[n], batch[n])
    OBVIOUS
  <2>1. n \in Notes /\ IsNote(batch[n]) /\ Same(n)
    BY DEF Written, Opened
  <2>2. n \in met
    BY <2>1 DEF ReadingOK
  <2>3. rows[n] = known[n]
    BY <2>1, <2>2, <1>1 DEF RowsOK, Gone
  <2> QED
    BY <2>1, <2>3 DEF Same, Agree, IsNote
<1>9. DOMAIN rows' = Notes /\ rows' = [n \in Notes |-> rows'[n]]
  BY <1>4
<1> QED
  BY <1>3, <1>4, <1>5, <1>6, <1>7, <1>8, <1>9

(* A row that is neither written nor concerned is linked as before.        *)
LEMMA StoreLinks ==
    ASSUME IndexInv, Store, ~tainted, ~widowed, NEW a \in Notes, a \notin Written, a \notin Concerned'
    PROVE  Linked(rows, edges, a)'
<1> USE DEF IndexInv
<1>0. /\ stage = "store" /\ stage' = "link"
      /\ UNCHANGED <<file, saves, edges, walk, met, known, noted, batch, still, tainted, widowed>>
  BY DEF Store, reading
<1>1. /\ \A n \in Written : rows'[n] = batch[n] /\ IsNote(batch[n])
      /\ \A n \in Notes \ Written : n \notin Opened => rows'[n] = rows[n]
      /\ \A n \in Opened \ Written :
             IsNote(rows[n]) /\ Agree(rows'[n], rows[n]) /\ Agree(rows[n], batch[n])
  BY StoreRows
<1>2. \A n \in Notes \ Written :
         rows'[n].title = rows[n].title /\ rows'[n].links = rows[n].links
  BY <1>1 DEF Agree
<1>3. \A n \in Notes \ Written : IsNote(rows'[n]) <=> IsNote(rows[n])
  BY <1>2 DEF IsNote
<1>4. /\ Written' = Written /\ Added' = Added /\ Renamed' = Renamed
  BY <1>0 DEF Added, Renamed, Written, Opened, Same
<1>5. Linked(rows, edges, a)
  BY <1>0 DEF LinksOK, Unlinked
(* What a moved title concerns has been counted. *)
<1>6. \A b \in Renamed : <<a, b>> \notin edges
  <2> SUFFICES ASSUME NEW b \in Renamed, <<a, b>> \in edges PROVE FALSE
    OBVIOUS
  <2>1. <<a, b>>[1] = a /\ <<a, b>>[2] = b
    OBVIOUS
  <2>2. a \in {e[1] : e \in {d \in edges' : d[2] \in Renamed'}}
    BY <2>1, <1>0, <1>4
  <2> QED
    BY <2>2, <1>4 DEF Concerned
<1>7. IsNote(rows'[a]) => \A n \in Added \cup Renamed : batch[n].title \notin rows'[a].links
  <2> SUFFICES ASSUME IsNote(rows'[a]), NEW n \in Added \cup Renamed, batch[n].title \in rows'[a].links
               PROVE  FALSE
    OBVIOUS
  <2> DEFINE ts == {batch[m].title : m \in Added \cup Renamed} \cup {known[m].title : m \in Renamed}
  <2>1. batch[n].title \in ts /\ ts' = ts
    BY <1>0, <1>4
  <2>2. a \in Stored'
    BY DEF Stored
  <2>3. rows'[a].links \cap ts # {}
    BY <2>1
  <2>4. Concerned' = ({e[1] : e \in {d \in edges' : d[2] \in Renamed'}} \cup Mentions(ts)') \ Written'
    BY DEF Concerned
  <2> HIDE DEF ts
  <2>5. a \in Mentions(ts)'
    BY <2>1, <2>2, <2>3 DEF Mentions
  <2> QED
    BY <2>4, <2>5, <1>4
(* A row that is written and neither added nor renamed keeps its title.    *)
<1>8. \A n \in Notes : n \notin Added \cup Renamed /\ (IsNote(rows'[n]) \/ IsNote(rows[n])) =>
          rows'[n].title = rows[n].title /\ IsNote(rows[n]) /\ IsNote(rows'[n])
  <2> SUFFICES ASSUME NEW n \in Notes, n \notin Added \cup Renamed, IsNote(rows'[n]) \/ IsNote(rows[n])
               PROVE  rows'[n].title = rows[n].title /\ IsNote(rows[n]) /\ IsNote(rows'[n])
    OBVIOUS
  <2>1. CASE n \notin Written
    BY <2>1, <1>2, <1>3
  <2>2. CASE n \in Written
    <3>1. IsNote(known[n]) /\ batch[n].title = known[n].title
      BY <2>2 DEF Added, Renamed
    <3>2. n \in met
      BY <2>2, <1>1 DEF ReadingOK
    <3>3. rows[n] = known[n]
      BY <3>2, <1>0 DEF RowsOK, Gone
    <3> QED
      BY <3>1, <3>3, <2>2, <1>1
  <2> QED
    BY <2>1, <2>2
<1>9. \A n \in Notes : IsNote(rows[n]) => n \notin Added
  <2> SUFFICES ASSUME NEW n \in Notes, IsNote(rows[n]), n \in Added PROVE FALSE
    OBVIOUS
  <2>1. ~IsNote(known[n]) /\ n \in Written
    BY DEF Added
  <2>2. n \in met
    BY <2>1, <1>1 DEF ReadingOK
  <2>3. rows[n] = known[n]
    BY <2>2, <1>0 DEF RowsOK, Gone
  <2> QED
    BY <2>1, <2>3
<1>10. EdgesAreLinks(rows', edges', a)
  <2> SUFFICES ASSUME NEW b \in Notes, <<a, b>> \in edges
               PROVE  a # b /\ IsNote(rows'[a]) /\ IsNote(rows'[b]) /\ rows'[b].title \in rows'[a].links
    BY <1>0 DEF EdgesAreLinks
  <2>1. a # b /\ IsNote(rows[a]) /\ IsNote(rows[b]) /\ rows[b].title \in rows[a].links
    BY <1>5 DEF Linked, EdgesAreLinks
  <2>2. b \notin Added \cup Renamed
    BY <2>1, <1>6, <1>9
  <2> QED
    BY <2>1, <2>2, <1>2, <1>3, <1>8
<1>11. LinksHaveEdges(rows', edges', a)
  <2> SUFFICES ASSUME IsNote(rows'[a]), NEW c \in Notes, IsNote(rows'[c]),
                      rows'[c].title \in rows'[a].links, rows'[a].title # rows'[c].title
               PROVE  \E b \in Notes : <<a, b>> \in edges /\ rows'[b].title = rows'[c].title
    BY <1>0 DEF LinksHaveEdges
  <2>1. c \notin Added \cup Renamed
    <3> SUFFICES ASSUME c \in Added \cup Renamed PROVE FALSE
      OBVIOUS
    <3>1. c \in Written
      BY DEF Added, Renamed
    <3> QED
      BY <3>1, <1>1, <1>7
  <2>2. rows'[c].title = rows[c].title /\ IsNote(rows[c])
    BY <2>1, <1>8
  <2>3. IsNote(rows[a]) /\ rows[c].title \in rows[a].links /\ rows[a].title # rows[c].title
    BY <2>2, <1>2, <1>3
  <2>4. PICK b \in Notes : <<a, b>> \in edges /\ rows[b].title = rows[c].title
    BY <2>2, <2>3, <1>5 DEF Linked, LinksHaveEdges
  <2>5. IsNote(rows[b]) /\ b \notin Added \cup Renamed
    BY <2>4, <1>5, <1>6, <1>9 DEF Linked, EdgesAreLinks
  <2> QED
    BY <2>2, <2>4, <2>5, <1>8
<1> QED
  BY <1>10, <1>11 DEF Linked

LEMMA StoreKeepsIndex == ASSUME IndexInv, Store PROVE IndexInv'
<1> USE DEF IndexInv
<1>0. /\ stage = "store" /\ stage' = "link"
      /\ UNCHANGED <<file, saves, edges, walk, met, known, noted, batch, still, tainted, widowed>>
  BY DEF Store, reading
<1>1. /\ rows' \in [Notes -> Note]
      /\ \A n \in Written : rows'[n] = batch[n] /\ IsNote(batch[n])
      /\ \A n \in Notes \ Written : n \notin Opened => rows'[n] = rows[n]
      /\ ~tainted => \A n \in Opened \ Written :
             /\ IsNote(rows[n]) /\ Agree(rows'[n], rows[n]) /\ Agree(rows[n], batch[n])
             /\ rows'[n].stamp = batch[n].stamp /\ IsNote(rows'[n])
  BY StoreRows
<1>2. Written \subseteq Opened /\ Opened \subseteq Notes /\ \A n \in Notes : n \in Opened <=> IsNote(batch[n])
  BY DEF Written, Opened
<1>3. Written' = Written
  BY <1>0 DEF Written, Opened, Same
<1>4. NotesOK'
  BY <1>0, <1>1 DEF NotesOK
<1>5. FilesOK'
  BY <1>0 DEF FilesOK
<1>6. ReadingOK'
  <2>1. \A o \in Notes : Stamped(batch[o], file[o])'
    BY <1>0 DEF ReadingOK, Stamped
  <2> QED
    BY <2>1, <1>0 DEF ReadingOK
<1>7. RowsOK'
  <2> SUFFICES ASSUME ~tainted PROVE RowsOK'
    BY <1>0 DEF RowsOK
  <2>1. ASSUME NEW n \in Notes PROVE Stamped(rows[n], file[n])' /\ Stamped(known[n], file[n])'
    <3>1. Stamped(rows[n], file[n]) /\ Stamped(known[n], file[n]) /\ Stamped(batch[n], file[n])
      BY DEF RowsOK, ReadingOK
    <3>2. rows'[n] = rows[n] \/ (rows'[n].stamp = batch[n].stamp /\ Agree(rows'[n], batch[n]))
      BY <1>1, <1>2 DEF Agree
    <3> QED
      BY <3>1, <3>2, <1>0 DEF Stamped, Agree
  <2> QED
    BY <2>1, <1>0, <1>1, <1>3 DEF RowsOK
<1>8. StillOK'
  <2> SUFFICES ASSUME still, ~tainted, NEW n \in Notes PROVE ShowsFile(n)'
    BY <1>0 DEF StillOK
  <2>1. IF ~IsNote(file[n]) THEN ~IsNote(rows[n]) /\ ~IsNote(batch[n])
        ELSE Agree(IF IsNote(batch[n]) THEN batch[n] ELSE rows[n], file[n])
    BY <1>0 DEF StillOK
  <2>2. Agree(rows'[n], IF IsNote(batch[n]) THEN batch[n] ELSE rows[n])
    BY <1>1, <1>2 DEF Agree
  <2>3. ~IsNote(rows[n]) /\ ~IsNote(file[n]) => rows[n] = None /\ file[n] = None
    BY NoteShape DEF NotesOK
  <2> QED
    BY <2>1, <2>2, <2>3, <1>0 DEF Agree, ShowsFile
<1>9. LinksOK'
  <2>1. ASSUME ~tainted, ~widowed, NEW a \in (Notes \ Unlinked)' PROVE Linked(rows, edges, a)'
    <3>1. a \in Notes /\ a \notin Written /\ a \notin Concerned'
      BY <2>1, <1>0, <1>3 DEF Unlinked
    <3> QED
      BY <3>1, <2>1, StoreLinks
  <2>2. ASSUME ~tainted, NEW e \in edges PROVE IsNote(rows'[e[1]])
    <3>1. e[1] \in Notes /\ IsNote(rows[e[1]])
      BY <2>2 DEF LinksOK, NotesOK
    <3> QED
      BY <3>1, <2>2, <1>1, <1>2
  <2> QED
    BY <2>1, <2>2, <1>0 DEF LinksOK
<1> QED
  BY <1>4, <1>5, <1>6, <1>7, <1>8, <1>9

LEMMA LinkKeeps == ASSUME IndexInv, LinkWritten PROVE IndexInv'
<1> USE DEF IndexInv
<1>0. /\ stage = "link" /\ stage' = "rescan"
      /\ UNCHANGED <<file, saves, rows, walk, met, known, noted, batch, still, tainted, widowed>>
  BY DEF LinkWritten, reading
<1>1. PICK map \in Maps(rows) : edges' = Relinked(Written, batch, map)
  BY DEF LinkWritten
<1>2. Written \in SUBSET Notes /\ rows \in [Notes -> Note] /\ edges \subseteq Notes \X Notes
      /\ \A n \in Written : IsNote(batch[n])
  BY DEF Written, Opened, NotesOK
<1>3. edges' \subseteq Notes \X Notes /\ \A e \in edges' : e[1] \in Written \/ e \in edges
  BY <1>1, <1>2, RelinkedType
<1>4. \A a \in Notes \ Written, b \in Notes : <<a, b>> \in edges' <=> <<a, b>> \in edges
  <2> SUFFICES ASSUME NEW a \in Notes \ Written, NEW b \in Notes
               PROVE  <<a, b>> \in edges' <=> <<a, b>> \in edges
    OBVIOUS
  <2>1. <<a, b>> \in Relinked(Written, batch, map) <=>
           IF a \in Written THEN a # b /\ \E t \in batch[a].links \cap DOMAIN map : map[t] = b
           ELSE <<a, b>> \in edges
    BY <1>2, RelinkedEdges
  <2> QED
    BY <2>1, <1>1
<1>5. Written' = Written /\ Added' = Added /\ Renamed' = Renamed /\ Stored' = Stored
  BY <1>0 DEF Added, Renamed, Written, Opened, Same, Stored
<1>6. NotesOK'
  BY <1>0, <1>3 DEF NotesOK
<1>7. FilesOK'
  BY <1>0 DEF FilesOK
<1>8. ReadingOK'
  <2>1. \A o \in Notes : Stamped(batch[o], file[o])'
    BY <1>0 DEF ReadingOK, Stamped
  <2> QED
    BY <2>1, <1>0 DEF ReadingOK
<1>9. RowsOK'
  BY <1>0, <1>5 DEF RowsOK, Stamped
<1>10. StillOK'
  BY <1>0 DEF StillOK, ShowsFile
<1>11. LinksOK'
  <2>1. ASSUME ~tainted, ~widowed, NEW a \in (Notes \ Unlinked)' PROVE Linked(rows, edges, a)'
    <3>1. a \in Notes /\ a \notin Concerned'
      BY <1>0 DEF Unlinked
    <3>2. CASE a \in Written
      <4>1. rows[a] = batch[a]
        BY <3>2, <2>1, <1>0 DEF RowsOK
      <4>2. Linked(rows, Relinked(Written, batch, map), a)
        BY <4>1, <3>2, <1>2, RelinkedLinks
      <4> QED
        BY <4>2, <1>0, <1>1
    <3>3. CASE a \notin Written
      <4>1. a \notin Concerned
        <5> SUFFICES ASSUME a \in Concerned PROVE a \in Concerned'
          BY <3>1
        <5> DEFINE ts == {batch[m].title : m \in Added \cup Renamed} \cup {known[m].title : m \in Renamed}
        <5>1. ts' = ts
          BY <1>0, <1>5
        <5>2. Concerned = ({e[1] : e \in {d \in edges : d[2] \in Renamed}} \cup Mentions(ts)) \ Written
          BY DEF Concerned
        <5>3. Concerned' = ({e[1] : e \in {d \in edges' : d[2] \in Renamed'}} \cup Mentions(ts)') \ Written'
          BY DEF Concerned
        <5> HIDE DEF ts
        <5>4. Mentions(ts)' = Mentions(ts)
          BY <5>1, <1>0, <1>5 DEF Mentions
        <5>5. ASSUME NEW e \in edges, e[2] \in Renamed, e[1] = a PROVE e \in edges'
          <6>1. e = <<a, e[2]>> /\ e[2] \in Notes
            BY <5>5, <1>2
          <6> QED
            BY <6>1, <5>5, <3>1, <3>3, <1>4
        <5> QED
          BY <5>2, <5>3, <5>4, <5>5, <1>5
      <4>2. Linked(rows, edges, a)
        BY <4>1, <3>1, <3>3, <2>1, <1>0 DEF LinksOK, Unlinked
      <4>3. Linked(rows, Relinked(Written, batch, map), a)
        BY <4>2, <3>1, <3>3, <1>2, NotRelinked
      <4> QED
        BY <4>3, <1>0, <1>1
    <3> QED
      BY <3>2, <3>3
  <2>2. ASSUME ~tainted, NEW e \in edges' PROVE IsNote(rows[e[1]])
    <3>1. CASE e[1] \in Written
      <4>1. rows[e[1]] = batch[e[1]]
        BY <3>1, <2>2, <1>0 DEF RowsOK
      <4> QED
        BY <4>1, <3>1, <1>2
    <3>2. CASE e \in edges
      BY <3>2, <2>2 DEF LinksOK
    <3> QED
      BY <3>1, <3>2, <1>3
  <2> QED
    BY <2>1, <2>2, <1>0 DEF LinksOK
<1> QED
  BY <1>6, <1>7, <1>8, <1>9, <1>10, <1>11

LEMMA ConcernedAreRows ==
    ASSUME IndexInv, ~tainted
    PROVE  Concerned \subseteq Notes /\ \A n \in Concerned : IsNote(rows[n])
  BY DEF IndexInv, NotesOK, LinksOK, Concerned, Mentions, Stored

LEMMA RescanKeeps == ASSUME IndexInv, Rescan PROVE IndexInv'
<1> USE DEF IndexInv
<1> DEFINE S == {n \in Concerned : IsNote(file[n])}
<1>0. /\ stage = "rescan" /\ stage' = "idle"
      /\ tainted' = (tainted \/ \E n \in Concerned : ~ShowsFile(n))
      /\ walk' = {} /\ met' = {} /\ known' = Empty /\ noted' = {} /\ batch' = Empty
      /\ UNCHANGED <<file, saves, rows, still, widowed>>
  BY DEF Rescan, Rested
<1>1. PICK map \in Maps(rows) : edges' = Relinked(S, file, map)
  BY DEF Rescan
<1>2. S \in SUBSET Notes /\ rows \in [Notes -> Note] /\ edges \subseteq Notes \X Notes
  BY DEF Concerned, Mentions, Stored, NotesOK
<1>3. edges' \subseteq Notes \X Notes /\ \A e \in edges' : e[1] \in S \/ e \in edges
  BY <1>1, <1>2, RelinkedType
<1>4. NotesOK'
  BY <1>0, <1>3, EmptyIs DEF NotesOK
<1>5. FilesOK'
  BY <1>0 DEF FilesOK
<1>6. \A n \in Notes : Stamped(Empty[n], file[n])'
  BY <1>0, EmptyIs, NoneIs DEF Stamped, NotesOK
<1>7. ReadingOK'
  BY <1>0, <1>6, EmptyIs, NoneIs DEF ReadingOK
<1>8. RowsOK'
  <2> SUFFICES ASSUME ~tainted PROVE RowsOK'
    BY <1>0 DEF RowsOK
  <2>1. \A n \in Notes : Stamped(rows[n], file[n])'
    BY <1>0 DEF RowsOK, Stamped
  <2> QED
    BY <2>1, <1>0, <1>6 DEF RowsOK
<1>9. StillOK'
  BY <1>0 DEF StillOK, ShowsFile
<1>10. LinksOK'
  <2>1. ASSUME ~tainted', ~widowed, NEW a \in Notes PROVE Linked(rows, edges, a)'
    <3>1. ~tainted /\ (a \in Concerned => ShowsFile(a) /\ IsNote(rows[a]))
      BY <2>1, <1>0, ConcernedAreRows
    <3>2. CASE a \in Concerned
      <4>1. a \in S /\ file[a].links = rows[a].links /\ IsNote(rows[a])
        BY <3>1, <3>2 DEF ShowsFile, IsNote
      <4>2. Linked(rows, Relinked(S, file, map), a)
        BY <4>1, <1>2, RelinkedLinks
      <4> QED
        BY <4>2, <1>0, <1>1
    <3>3. CASE a \notin Concerned
      <4>1. a \notin S /\ Linked(rows, edges, a)
        BY <3>1, <3>3, <2>1, <1>0 DEF LinksOK, Unlinked
      <4>2. Linked(rows, Relinked(S, file, map), a)
        BY <4>1, <1>2, NotRelinked
      <4> QED
        BY <4>2, <1>0, <1>1
    <3> QED
      BY <3>2, <3>3
  <2>2. ASSUME ~tainted', NEW e \in edges' PROVE IsNote(rows[e[1]])
    <3>1. ~tainted
      BY <2>2, <1>0
    <3>2. e[1] \in S \/ e \in edges
      BY <1>3
    <3> HIDE DEF S
    <3>3. S \subseteq Concerned
      BY DEF S
    <3> QED
      BY <3>1, <3>2, <3>3, ConcernedAreRows DEF LinksOK
  <2> QED
    BY <2>1, <2>2, <1>0 DEF LinksOK
<1> QED
  BY <1>4, <1>5, <1>7, <1>8, <1>9, <1>10

(* What a refresh that has ended leaves of what it has read.               *)
LEMMA RestedReads ==
    ASSUME IndexInv, Rested, UNCHANGED <<file, saves>>
    PROVE  /\ known' = Empty /\ batch' = Empty /\ walk' = {} /\ met' = {} /\ noted' = {}
           /\ known' \in [Notes -> Note] /\ batch' \in [Notes -> Note]
           /\ FilesOK' /\ ReadingOK'
           /\ \A n \in Notes : Stamped(known[n], file[n])'
<1> USE DEF IndexInv
<1>1. /\ known' = Empty /\ batch' = Empty /\ walk' = {} /\ met' = {} /\ noted' = {}
  BY DEF Rested
<1>2. \A n \in Notes : Stamped(Empty[n], file[n])'
  BY EmptyIs, NoneIs DEF Stamped, NotesOK
<1>3. FilesOK'
  BY DEF FilesOK
<1>4. ReadingOK'
  BY <1>1, <1>2, EmptyIs, NoneIs DEF ReadingOK
<1> QED
  BY <1>1, <1>2, <1>3, <1>4, EmptyIs

LEMMA DiesKeeps == ASSUME IndexInv, RefreshDies PROVE IndexInv'
<1> USE DEF IndexInv
<1>0. /\ stage # "idle" /\ stage' = "idle"
      /\ tainted' = (tainted \/ stage # "walk") /\ still' = FALSE
      /\ Rested
      /\ UNCHANGED <<file, saves, rows, edges, widowed>>
  BY DEF RefreshDies, stored
<1>1. /\ known' = Empty /\ batch' = Empty /\ walk' = {} /\ met' = {} /\ noted' = {}
      /\ known' \in [Notes -> Note] /\ batch' \in [Notes -> Note]
      /\ FilesOK' /\ ReadingOK'
      /\ \A n \in Notes : Stamped(known[n], file[n])'
  BY <1>0, RestedReads
<1>2. NotesOK'
  BY <1>0, <1>1 DEF NotesOK
<1>3. RowsOK'
  <2> SUFFICES ASSUME ~tainted, stage = "walk" PROVE RowsOK'
    BY <1>0 DEF RowsOK
  <2>1. \A n \in Notes : Stamped(rows[n], file[n])'
    BY <1>0 DEF RowsOK, Stamped
  <2> QED
    BY <2>1, <1>0, <1>1 DEF RowsOK
<1>4. StillOK'
  BY <1>0 DEF StillOK
<1>5. LinksOK'
  BY <1>0 DEF LinksOK, Unlinked
<1> QED
  BY <1>1, <1>2, <1>3, <1>4, <1>5

LEMMA FallKeeps == ASSUME IndexInv, Fall PROVE IndexInv'
<1> USE DEF IndexInv
<1>0. /\ stage' = "relink" /\ rows' = file /\ edges' = {} /\ tainted' = TRUE
      /\ Rested
      /\ UNCHANGED <<file, saves, still, widowed>>
  BY DEF Fall
<1>1. /\ known' = Empty /\ batch' = Empty /\ walk' = {} /\ met' = {} /\ noted' = {}
      /\ known' \in [Notes -> Note] /\ batch' \in [Notes -> Note]
      /\ FilesOK' /\ ReadingOK'
      /\ \A n \in Notes : Stamped(known[n], file[n])'
  BY <1>0, RestedReads
<1>2. NotesOK'
  BY <1>0, <1>1 DEF NotesOK
<1>3. RowsOK'
  <2>1. \A n \in Notes : Stamped(rows[n], file[n])'
    BY <1>0 DEF Stamped, Agree, FilesOK
  <2> QED
    BY <2>1, <1>0, <1>1 DEF RowsOK
<1>4. StillOK'
  BY <1>0 DEF StillOK, ShowsFile
<1>5. LinksOK'
  BY <1>0 DEF LinksOK
<1> QED
  BY <1>1, <1>2, <1>3, <1>4, <1>5

LEMMA RelinkKeeps == ASSUME IndexInv, Relink PROVE IndexInv'
<1> USE DEF IndexInv
<1>0. /\ stage = "relink" /\ stage' = "idle"
      /\ UNCHANGED <<file, saves, rows, walk, met, known, noted, batch>>
  BY DEF Relink, reading
<1>1. FilesOK'
  BY <1>0 DEF FilesOK
<1>2. ReadingOK'
  <2>1. \A o \in Notes : Stamped(batch[o], file[o])'
    BY <1>0 DEF ReadingOK, Stamped
  <2> QED
    BY <2>1, <1>0 DEF ReadingOK
<1>3. RowsOK'
  BY <1>0 DEF RowsOK, Stamped
<1>4. CASE /\ \A n \in Stored : IsNote(file[n])
           /\ \E map \in Maps(rows) : edges' = Relinked(Stored, file, map)
           /\ tainted' = (\E n \in Stored : ~ShowsFile(n)) /\ widowed' = FALSE
           /\ still' = still
  <2>1. PICK map \in Maps(rows) : edges' = Relinked(Stored, file, map)
    BY <1>4
  <2>2. Stored \in SUBSET Notes /\ rows \in [Notes -> Note] /\ edges \subseteq Notes \X Notes
    BY DEF Stored, NotesOK
  <2>3. edges' \subseteq Notes \X Notes /\ \A e \in edges' : e[1] \in Stored \/ e \in edges
    BY <2>1, <2>2, RelinkedType
  <2>4. NotesOK'
    BY <1>0, <1>4, <2>3 DEF NotesOK
  <2>5. StillOK'
    BY <1>0, <1>4 DEF StillOK, ShowsFile
  <2>6. \A e \in edges' : e[1] \in Stored
    BY <2>2, <2>3, <1>0 DEF LinksOK, Stored
  <2>7. ASSUME ~tainted', NEW a \in Notes PROVE Linked(rows, edges, a)'
    <3>1. CASE a \in Stored
      <4>1. IsNote(rows[a]) /\ file[a].links = rows[a].links
        BY <3>1, <2>7, <1>4 DEF Stored, ShowsFile
      <4>2. Linked(rows, Relinked(Stored, file, map), a)
        BY <4>1, <3>1, <2>2, RelinkedLinks
      <4> QED
        BY <4>2, <1>0, <2>1
    <3>2. CASE a \notin Stored
      <4>1. \A b \in Notes : <<a, b>> \notin edges'
        BY <3>2, <2>6
      <4>2. ~IsNote(rows[a])
        BY <3>2 DEF Stored
      <4> QED
        BY <4>1, <4>2, <1>0 DEF Linked, EdgesAreLinks, LinksHaveEdges
    <3> QED
      BY <3>1, <3>2
  <2>8. LinksOK'
    BY <2>6, <2>7, <1>0 DEF LinksOK, Stored
  <2> QED
    BY <2>4, <2>5, <2>8, <1>1, <1>2, <1>3
<1>5. CASE still' = FALSE /\ UNCHANGED <<edges, tainted, widowed>>
  <2>1. NotesOK'
    BY <1>0, <1>5 DEF NotesOK
  <2>2. StillOK'
    BY <1>5 DEF StillOK
  <2>3. LinksOK'
    BY <1>0, <1>5 DEF LinksOK, Unlinked
  <2> QED
    BY <2>1, <2>2, <2>3, <1>1, <1>2, <1>3
<1> QED
  BY <1>4, <1>5 DEF Relink

LEMMA CommandKeeps ==
    ASSUME IndexInv, NEW n \in Notes, NEW c \in Contents, NEW links \in BOOLEAN, Command(n, c, links)
    PROVE  IndexInv'
<1> USE DEF IndexInv
<1> DEFINE r == [title |-> c.title, links |-> c.links, stamp |-> 0]
<1>0. /\ rows' = [rows EXCEPT ![n] = r] /\ tainted' = TRUE
      /\ Save(n, c)
      /\ UNCHANGED <<stage, walk, met, known, noted, batch, widowed>>
  BY DEF Command, reading
<1>1. /\ saves' = saves + 1 /\ still' = FALSE
      /\ file' \in [Notes -> Note] /\ FilesOK'
      /\ \A o \in Notes \ {n} : file'[o] = file[o]
      /\ file'[n].stamp = saves + 1
  BY <1>0, SavedFiles
<1>2. saves \in Nat /\ saves + 1 \in Nat /\ file \in [Notes -> Note] /\ rows \in [Notes -> Note]
  BY DEF NotesOK
<1>3. r \in Note /\ IsNote(r) /\ r.stamp = 0
  BY NoteMade
<1> HIDE DEF r
<1>4. rows' \in [Notes -> Note] /\ rows'[n] = r /\ \A o \in Notes \ {n} : rows'[o] = rows[o]
  BY <1>0, <1>2, <1>3
<1>5. \A o \in Notes : file'[o] = file[o] \/ file'[o].stamp = saves + 1
  BY <1>1
<1>6. \A o \in Notes, q \in Note : Stamped(q, file[o]) => Stamped(q, file[o])'
  <2> SUFFICES ASSUME NEW o \in Notes, NEW q \in Note, Stamped(q, file[o]) PROVE Stamped(q, file[o])'
    OBVIOUS
  <2>1. file[o] \in Note /\ file'[o] \in Note
    BY <1>1, <1>2
  <2> QED
    BY <2>1, <1>1, <1>2, <1>5, OldStamps DEF Stamped
<1>7. /\ edges' \subseteq Notes \X Notes
      /\ \A e \in edges' : e[1] = n \/ e \in edges
  <2>1. edges \subseteq Notes \X Notes
    BY DEF NotesOK
  <2>2. CASE edges' = edges
    BY <2>1, <2>2
  <2>3. CASE \E map \in Maps(rows') : edges' = Relinked({n}, rows', map)
    <3>1. PICK map \in Maps(rows') : edges' = Relinked({n}, rows', map)
      BY <2>3
    <3>2. {n} \in SUBSET Notes
      OBVIOUS
    <3>3. /\ Relinked({n}, rows', map) \subseteq Notes \X Notes
          /\ \A e \in Relinked({n}, rows', map) : e[1] \in {n} \/ e \in edges
      BY <2>1, <3>2, RelinkedType
    <3> QED
      BY <3>1, <3>3
  <2> QED
    BY <2>2, <2>3 DEF Command
<1>8. NotesOK'
  <2>1. noted' \subseteq walk' \X (0..saves')
    <3>1. 0..saves \subseteq 0..(saves + 1)
      BY <1>2
    <3>2. noted \subseteq walk \X (0..saves)
      BY DEF NotesOK
    <3> QED
      BY <3>1, <3>2, <1>0, <1>1
  <2> QED
    BY <2>1, <1>0, <1>1, <1>2, <1>4, <1>7 DEF NotesOK
<1>9. ReadingOK'
  <2>1. \A o \in Notes : batch[o] \in Note
    BY DEF NotesOK
  <2> QED
    BY <2>1, <1>0, <1>6 DEF ReadingOK
<1>10. RowsOK'
  <2> SUFFICES ASSUME stage = "relink", NEW o \in Notes
               PROVE  Stamped(rows[o], file[o])' /\ Stamped(known[o], file[o])'
    BY <1>0 DEF RowsOK
  <2>1. Stamped(rows[o], file[o])' \/ o = n
    BY <1>2, <1>4, <1>6 DEF RowsOK
  <2>2. Stamped(r, file[n])'
    BY <1>1, <1>2, <1>3 DEF Stamped
  <2>3. known[o] \in Note /\ Stamped(known[o], file[o])
    BY DEF NotesOK, RowsOK
  <2> QED
    BY <2>1, <2>2, <2>3, <1>0, <1>4, <1>6
<1>11. StillOK'
  BY <1>1 DEF StillOK
<1>12. LinksOK'
  <2> SUFFICES ASSUME stage = "relink", NEW e \in edges' PROVE IsNote(rows'[e[1]])
    BY <1>0 DEF LinksOK
  <2>1. e[1] \in Notes /\ (e[1] = n \/ IsNote(rows[e[1]]))
    BY <1>7 DEF LinksOK
  <2> QED
    BY <2>1, <1>3, <1>4
<1> QED
  BY <1>1, <1>8, <1>9, <1>10, <1>11, <1>12

LEMMA IndexStep == IndexInv /\ [IndexNext]_indexVars => IndexInv'
<1> SUFFICES ASSUME IndexInv, [IndexNext]_indexVars PROVE IndexInv'
  OBVIOUS
<1>1. CASE \E n \in Notes, c \in Contents : EditNote(n, c)
  BY <1>1, EditKeeps
<1>2. CASE \E n \in Notes, c \in Contents, links \in BOOLEAN : Command(n, c, links)
  BY <1>2, CommandKeeps
<1>3. CASE \E n \in Notes : TouchNote(n)
  BY <1>3, TouchKeeps
<1>4. CASE \E n \in Notes : RemoveNote(n)
  BY <1>4, RemoveKeeps
<1>5. CASE \E n \in Notes : Stat(n)
  BY <1>5, StatKeeps
<1>6. CASE \E n \in Notes : OpenNote(n)
  BY <1>6, OpenKeeps
<1>7. CASE Begin
  BY <1>7, BeginKeeps
<1>8. CASE Delete({n \in Notes \ met : IsNote(known[n])})
  BY <1>8, DeleteKeeps DEF Gone
<1>9. CASE Store \/ LinkWritten \/ Rescan
  BY <1>9, StoreKeepsIndex, LinkKeeps, RescanKeeps
<1>10. CASE RefreshDies \/ Fall \/ Relink
  BY <1>10, DiesKeeps, FallKeeps, RelinkKeeps
<1>11. CASE UNCHANGED indexVars
  <2> USE <1>11 DEF indexVars, stored, reading
  <2>1. NotesOK' /\ FilesOK'
    BY DEF IndexInv, NotesOK, FilesOK
  <2>2. ReadingOK'
    BY DEF IndexInv, ReadingOK, Stamped
  <2>3. RowsOK'
    BY DEF IndexInv, RowsOK, Stamped, Gone, Written, Opened, Same
  <2>4. StillOK'
    BY DEF IndexInv, StillOK, ShowsFile
  <2>5. LinksOK'
    BY DEF IndexInv, LinksOK, Unlinked, Concerned, Mentions, Added, Renamed, Written, Opened, Same, Stored
  <2> QED
    BY <2>1, <2>2, <2>3, <2>4, <2>5 DEF IndexInv
<1> QED
  BY <1>1, <1>2, <1>3, <1>4, <1>5, <1>6, <1>7, <1>8, <1>9, <1>10, <1>11 DEF IndexNext

LEMMA IndexHolds == IndexSpec => []IndexInv
  BY InitIndex, IndexStep, PTL DEF IndexSpec

(* What a full rebuild would store is what the rows and their links are.   *)
LEMMA InvIsFull == IndexInv => RefreshIsFull
<1> SUFFICES ASSUME IndexInv, stage = "idle", still, ~tainted, ~widowed PROVE Full
  BY DEF RefreshIsFull
<1>1. \A n \in Notes : ShowsFile(n)
  BY DEF IndexInv, StillOK
<1>2. \A n \in Notes : Linked(rows, edges, n)
  BY DEF IndexInv, LinksOK, Unlinked
<1>3. \A n \in Notes : IsNote(rows[n]) <=> IsNote(file[n])
  BY <1>1 DEF ShowsFile, IsNote
<1>4. edges \subseteq Notes \X Notes
  BY DEF IndexInv, NotesOK
<1> DEFINE Links == {e \in Notes \X Notes : e[1] # e[2] /\ IsNote(file[e[2]])
                                             /\ file[e[2]].title \in file[e[1]].links}
<1>5. ASSUME NEW a \in Notes, NEW b \in Notes
      PROVE  <<a, b>> \in edges <=> a # b /\ IsNote(file[b]) /\ file[b].title \in file[a].links
  <2>1. <<a, b>> \in edges => a # b /\ IsNote(file[b]) /\ file[b].title \in file[a].links
    BY <1>1, <1>2, <1>3 DEF Linked, EdgesAreLinks, ShowsFile
  <2>2. ASSUME a # b, IsNote(file[b]), file[b].title \in file[a].links PROVE <<a, b>> \in edges
    <3>1. IsNote(file[a])
      BY <2>2, NoneIs, NoteShape DEF IndexInv, NotesOK
    <3>2. file[a].title # file[b].title
      BY <2>2, <3>1 DEF IndexInv, FilesOK
    <3>3. PICK o \in Notes : <<a, o>> \in edges /\ rows[o].title = rows[b].title
      BY <2>2, <3>1, <3>2, <1>1, <1>2, <1>3 DEF Linked, LinksHaveEdges, ShowsFile
    <3>4. IsNote(file[o]) /\ file[o].title = file[b].title
      BY <3>3, <1>1, <1>2, <1>3 DEF Linked, EdgesAreLinks, ShowsFile
    <3>5. o = b
      BY <2>2, <3>4 DEF IndexInv, FilesOK
    <3> QED
      BY <3>3, <3>5
  <2> QED
    BY <2>1, <2>2
<1>6. \A e \in Notes \X Notes : e \in edges <=> e \in Links
  <2> SUFFICES ASSUME NEW a \in Notes, NEW b \in Notes PROVE <<a, b>> \in edges <=> <<a, b>> \in Links
    OBVIOUS
  <2> QED
    BY <1>5
<1>7. edges = Links
  BY <1>4, <1>6
<1> QED
  BY <1>1, <1>7 DEF Full

(* For any vault and any interleaving of its user with the refresh, the    *)
(* commands and their crashes: an untainted refresh beside which no file   *)
(* moved leaves the index a full rebuild would (index.py, refresh_vault).  *)
THEOREM RefreshesAreFull == IndexSpec => []RefreshIsFull
  BY IndexHolds, InvIsFull, PTL
=============================================================================
