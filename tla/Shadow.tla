-------------------------------- MODULE Shadow --------------------------------
(***************************************************************************)
(* The shadow read (_shadow.py, provider.py _spawn_shadow).  A turn is     *)
(* served by the v2 engine; a thread then looks at a copy of the store,    *)
(* brings it up to date when it is too old, asks the v3 engine, and        *)
(* appends one line to a log.  evaluate scores the log against thresholds  *)
(* that were fixed before, and decides the promotion of v3.                *)
(*                                                                         *)
(* The copy is shared by the threads of all turns, without a lock, and its *)
(* age is its file's time: a copy that was written over and not yet        *)
(* migrated is as young as a good one.  A refresh can break off there.     *)
(*                                                                         *)
(* A turn's shadow takes seconds, the bound on the age is fifteen minutes: *)
(* time (MinutesPass) passes at most once over a turn.  An answer is any   *)
(* part of what the engine holds; the question is left out.  The log is    *)
(* shared with other builds, and a crash can tear a line.  The ceilings of *)
(* the miss rate and of the cost are those of PROMOTION, both armed.       *)
(***************************************************************************)
EXTENDS Naturals, Sequences, FiniteSets, FiniteSetsExt

CONSTANTS
    Memory,       \* ids, as v2 knows them
    Thread,       \* background threads, of turns still being shadowed
    AgeBound,     \* MAX_COPY_AGE_S, in ticks
    MinTurns,     \* PROMOTION min_turns
    MissPercent,  \* PROMOTION max_v2_miss_rate
    MaxLines,     \* bound: lines of a sample
    MaxBreaks     \* bound: refreshes that break off

ShadowConstants ==
    {AgeBound, MinTurns, MissPercent, MaxLines, MaxBreaks} \subseteq Nat

VARIABLES
    held,    \* what the v2 store holds
    copy,    \* the copy: what it holds, its schema, its age
    turn,    \* each thread: where it is, v2's answer, the age it saw, whether
             \* time passed over it
    log,     \* the lines of the sample
    breaks   \* refreshes that broke off

shadowVars == <<held, copy, turn, log, breaks>>

Copies == [rows : SUBSET Memory, schema : {"none", "v2", "v3"}, age : 0..AgeBound + 1]
NoTurn == [at |-> "idle", v2 |-> {}, age |-> 0, refreshed |-> FALSE, late |-> FALSE]

(* A line: the ids of both engines, which of v3's were not v2's, the gate's
   decision, the age and the stale mark, whether the turn refreshed the copy,
   whether it was over the budget, and the build that wrote it; "torn" has no
   required key.  *)
LogLine == [v2 : SUBSET Memory, v3 : SUBSET Memory, only : SUBSET Memory,
            gate : {"pass", "abstain", "no-candidates"}, age : 0..AgeBound + 1,
            stale : BOOLEAN, refreshed : BOOLEAN, slow : BOOLEAN,
            build : {"this", "other", "torn"}]

ShadowInit ==
    /\ held = {} /\ log = <<>> /\ breaks = 0
    /\ copy = [rows |-> {}, schema |-> "none", age |-> 0]
    /\ turn = [t \in Thread |-> NoTurn]

-----------------------------------------------------------------------------
(* Collecting.                                                             *)

(* The user's store moves on: something is remembered or forgotten. *)
StoreMoves(m) ==
    /\ held' = IF m \in held THEN held \ {m} ELSE held \cup {m}
    /\ UNCHANGED <<copy, turn, log, breaks>>

(* v2 has answered, and the shadow of the turn is spawned. *)
Answer(t) ==
    /\ turn[t].at = "idle"
    /\ \E v2 \in SUBSET held : turn' = [turn EXCEPT ![t] = [NoTurn EXCEPT !.at = "look", !.v2 = v2]]
    /\ UNCHANGED <<held, copy, log, breaks>>

(* Whether the copy must be brought up to date.  Variant: only when there is
   none.  *)
TooOldMissing == copy.schema = "none"

TooOld == copy.schema = "none" \/ copy.age > AgeBound

(* The copy's age, read once.  A turn that refreshes writes 0. *)
Look(t) ==
    /\ turn[t].at = "look"
    /\ turn' = [turn EXCEPT ![t] =
                  IF TooOld THEN [@ EXCEPT !.at = "copy", !.refreshed = TRUE]
                            ELSE [@ EXCEPT !.at = "read", !.age = copy.age]]
    /\ UNCHANGED <<held, copy, log, breaks>>

(* The online copy overwrites whatever is there, schema included. *)
Overwrite(t) ==
    /\ turn[t].at = "copy"
    /\ copy' = [rows |-> held, schema |-> "v2", age |-> 0]
    /\ turn' = [turn EXCEPT ![t].at = "migrate"]
    /\ UNCHANGED <<held, log, breaks>>

(* The copy is migrated; nothing to do when another thread was first. *)
MigrateCopy(t) ==
    /\ turn[t].at = "migrate"
    /\ copy' = [copy EXCEPT !.schema = "v3"]
    /\ turn' = [turn EXCEPT ![t].at = "read"]
    /\ UNCHANGED <<held, log, breaks>>

(* The migration fails or the process dies: no line, and the copy stays as
   it is, with a young file.  *)
BreakOff(t) ==
    /\ breaks < MaxBreaks
    /\ turn[t].at = "migrate"
    /\ turn' = [turn EXCEPT ![t] = NoTurn]
    /\ breaks' = breaks + 1
    /\ UNCHANGED <<held, copy, log>>

(* What the gate lets through of a copy's rows, and what it calls that. *)
Outcomes(rows) ==
    {[ids |-> S, gate |-> "pass"] : S \in SUBSET rows \ {{}}}
    \cup {[ids |-> {}, gate |-> g] : g \in {"no-candidates"} \cup
              IF rows = {} THEN {} ELSE {"abstain"}}

(* The line of a turn.  v3's ids are compared under the ids v2 knows them by;
   episodes are left out.  *)
LineOf(x, v2, age, refreshed, slow) ==
    [v2 |-> v2, v3 |-> x.ids, only |-> x.ids \ v2, gate |-> x.gate, age |-> age,
     stale |-> age > AgeBound, refreshed |-> refreshed, slow |-> slow,
     build |-> "this"]

AppendLine(line) == Len(log) < MaxLines /\ log' = Append(log, line)

(* v3 is asked.  A copy that is still a v2 store has no table of memories: the
   failure is counted and the turn leaves no line.  *)
ReadCopy(t) ==
    /\ turn[t].at = "read"
    /\ IF copy.schema = "v2"
       THEN UNCHANGED log
       ELSE \E x \in Outcomes(copy.rows), slow \in BOOLEAN :
              AppendLine(LineOf(x, turn[t].v2, turn[t].age, turn[t].refreshed, slow))
    /\ turn' = [turn EXCEPT ![t] = NoTurn]
    /\ UNCHANGED <<held, copy, breaks>>

GoOn(t) == Look(t) \/ Overwrite(t) \/ MigrateCopy(t) \/ ReadCopy(t)

(* Minutes pass: a part of the bound. *)
MinutesPass ==
    /\ \A t \in Thread : ~turn[t].late
    /\ copy.schema # "none"
    /\ copy.age <= AgeBound
    /\ copy' = [copy EXCEPT !.age = @ + 1]
    /\ turn' = [t \in Thread |-> [turn[t] EXCEPT !.late = @ \/ turn[t].at # "idle"]]
    /\ UNCHANGED <<held, log, breaks>>

(* The collector starts a fresh sample. *)
NewSample ==
    /\ log # <<>> /\ log' = <<>>
    /\ UNCHANGED <<held, copy, turn, breaks>>

(* A line somebody else leaves: another build, a torn write, or a revision of
   this build whose marks disagree with the numbers beside them.  *)
Others ==
    {l \in LogLine : /\ l.v2 = {} /\ l.gate = "pass" /\ l.age = 0
                     /\ ~l.refreshed /\ ~l.slow
                     /\ \/ l.build \in {"other", "torn"} /\ l.only = l.v3 /\ ~l.stale
                        \/ l.build = "this" /\ l.v3 = {} /\ (l.stale \/ l.only # {})}

Foreign(l) ==
    /\ l \in Others /\ AppendLine(l)
    /\ UNCHANGED <<held, copy, turn, breaks>>

-----------------------------------------------------------------------------
(* Scoring.                                                                *)

(* The lines that are scored: complete, and of the build that evaluates.
   Variant: every complete line.  *)
UsableOfAnyBuild(s) == {i \in DOMAIN s : s[i].build # "torn"}

Usable(s) == {i \in DOMAIN s : s[i].build = "this"}

Malformed(s) == {i \in DOMAIN s : s[i].build = "torn"}

(* The writer's marks against the numbers beside them. *)
Disagree(s) == {i \in Usable(s) : s[i].stale # (s[i].age > AgeBound)}
Inconsistent(s) == {i \in Usable(s) : s[i].only # s[i].v3 \ s[i].v2}

CopyVerdict(s) ==
    IF Usable(s) = {} THEN "no signal"
    ELSE IF Disagree(s) # {} \/ \E i \in Usable(s) : s[i].age > AgeBound THEN "not met"
    ELSE "met"

(* Of the ids v2 injected, those v3 dropped; a turn on which the gate
   abstained is not counted.  *)
Serving(s) == {i \in Usable(s) : s[i].v2 # {} /\ s[i].gate # "abstain"}

(* The sum of what is counted on each line. *)
Total(count) == MapThenSumSet(LAMBDA i : count[i], DOMAIN count)
Injected(s) == Total([i \in Serving(s) |-> Cardinality(s[i].v2)])
Dropped(s) == Total([i \in Serving(s) |-> Cardinality(s[i].v2 \ s[i].v3)])

MissVerdict(s) ==
    IF Injected(s) = 0 THEN "no signal"
    ELSE IF Inconsistent(s) # {} \/ 100 * Dropped(s) > MissPercent * Injected(s) THEN "not met"
    ELSE "met"

(* What v3 injected and v2 did not; with a copy at hand, only what is no
   active memory there.  *)
Fabricated(s, active) == {i \in Usable(s) : s[i].only \ active # {}}

FabricationVerdict(s, active) == IF Fabricated(s, active) = {} THEN "met" ELSE "not met"

(* The 95th percentile of the turns that did not pay for a refresh. *)
Timed(s) == {i \in Usable(s) : ~s[i].refreshed}

CostVerdict(s) ==
    LET slow == Cardinality({i \in Timed(s) : s[i].slow})
    IN  IF Timed(s) = {} THEN "no signal"
        ELSE IF slow > (5 * Cardinality(Timed(s))) \div 100 THEN "not met" ELSE "met"

(* The verdict: a failure shows in any sample, a pass needs a whole one. *)
Verdict(s, active) ==
    LET behaviour == {CopyVerdict(s), MissVerdict(s), FabricationVerdict(s, active), CostVerdict(s)}
    IN  IF "not met" \in behaviour THEN "not met"
        ELSE IF \/ Cardinality(Usable(s)) < MinTurns \/ Malformed(s) # {} \/ "no signal" \in behaviour
                \/ Disagree(s) # {} \/ Inconsistent(s) # {}
        THEN "cannot conclude" ELSE "met"

(* The active memories a report resolves ids against: none without --copy. *)
Resolvable == IF copy.schema = "v3" THEN copy.rows ELSE {}

-----------------------------------------------------------------------------
ShadowNext ==
    \/ \E m \in Memory : StoreMoves(m)
    \/ \E t \in Thread : Answer(t) \/ GoOn(t) \/ BreakOff(t)
    \/ MinutesPass \/ NewSample
    \/ \E l \in LogLine : Foreign(l)

ShadowSpec == ShadowInit /\ [][ShadowNext]_shadowVars

(* Every variable has its type. *)
ShadowTypeOK ==
    /\ held \subseteq Memory /\ copy \in Copies
    /\ turn \in [Thread -> [at : {"idle", "look", "copy", "migrate", "read"},
                            v2 : SUBSET Memory, age : 0..AgeBound + 1, refreshed : BOOLEAN,
                            late : BOOLEAN]]
    /\ log \in Seq(LogLine) /\ breaks \in 0..MaxBreaks

(* What one more line can do to a verdict.  Another build's changes nothing;
   a torn one is never the reason for a pass and never hides a failure; what v3
   made up is not outweighed by later turns, whatever they show; and a turn on
   which the gate abstained fails nothing that passed.  *)
OneMoreLine ==
    LET l == log'[Len(log')]
        before == Verdict(log, {})
        after == Verdict(log', {})
    IN  Len(log') = Len(log) + 1 =>
          /\ l.build = "other" => after = before
          /\ l.build = "torn" => after # "met" /\ (before = "not met" => after = before)
          /\ Fabricated(log, {}) # {} => after = "not met"
          /\ l.build = "this" /\ l.gate = "abstain" /\ l.only = {} /\ ~l.stale /\ ~l.slow /\ before = "met"
                => after = "met"

VerdictIsSound == [][OneMoreLine]_shadowVars

(* A sample that was begun gets its first line, though a refresh broke off and
   left a copy that looks young and cannot be read.  *)
TurnsAreMeasured == log = <<>> ~> log # <<>>

(* Expected, and refuted: whether a line shows a fabrication ("a hit that is
   not a real, servable memory", _shadow.py evaluate) is settled when the line
   is written.  The report looks the id up in a later copy, and a memory that
   was forgotten since turns an honest hit into a fabricated one.  *)
SettledWhenWritten ==
    copy.schema = "v3" => Fabricated(log, Resolvable) \subseteq Inconsistent(log)

(* Expected, and refuted: "a stale copy makes v3 look less diverged than it is,
   so divergence here is a lower bound" (_shadow.py, module docstring): when
   both engines inject all they hold, no line shows a difference.  *)
LagOnlyHides ==
    [][\A t \in Thread :
          Len(log') = Len(log) + 1 /\ turn[t].at = "read" /\ turn'[t].at = "idle" =>
              LET l == log'[Len(log')]
              IN  turn[t].v2 = held /\ l.v3 = copy.rows => l.v3 = l.v2]_shadowVars
=============================================================================
