------------------------------ MODULE NoteIndex -------------------------------
(***************************************************************************)
(* The vault index (em_internal/index.py): the incremental refresh, which  *)
(* opens only the notes whose stat has moved and re-extracts the links of  *)
(* the notes a new or changed title may concern, its fallback, and the     *)
(* commands that index one note by hand, beside a user who edits the vault *)
(* (em_internal/vault.py, entropicmem.py).                                 *)
(*                                                                         *)
(* A note is a title and the titles it links to; a stamp stands for the    *)
(* pair of mtime and size, new with every write of the file (a rewrite     *)
(* that keeps both is invisible to the refresh by its own account).  No    *)
(* two notes have one title.  A refresh commits after every note; rows     *)
(* that are deleted, stored, or re-linked in one loop are grouped, and it  *)
(* may die between the groups.  Ranking, tags and the triple edges are     *)
(* left out.                                                               *)
(***************************************************************************)
EXTENDS Integers, FiniteSets

CONSTANTS
    Notes,         \* note ids: paths in the vault
    Titles,
    MaxSaves       \* bound: files written

IndexConstants == MaxSaves \in Nat /\ "" \notin Titles

ASSUME IndexConstants

VARIABLES
    file,          \* the vault: each note's title, links and stamp
    saves,         \* stamps given out
    rows,          \* notes_meta and notes_fts
    edges,         \* graph_edges of kind wikilink
    stage,         \* the refresh: where it is,
    walk, met,     \*   the notes the walk has still to visit, and has met
    known,         \*   the rows it read first
    noted,         \*   the note it is about to read, with its stat
    batch,         \*   what it has read, per note
    still,         \* history: no file moved since the refresh began
    tainted,       \* history: since the last full rebuild, a refresh died half
                   \*   way or looked again at a note that had just moved, or
                   \*   a command indexed a note alone; or the rebuild met one
    widowed        \* history: since then, a refresh took away one of two rows
                   \*   that had one title

stored == <<rows, edges>>
reading == <<walk, met, known, noted, batch>>
indexVars == <<file, saves, stored, stage, reading, still, tainted, widowed>>

None == [title |-> "", links |-> {}, stamp |-> 0]     \* no such file, or no row
IsNote(r) == r.title # ""
Contents == [title : Titles, links : SUBSET Titles]
Stored == {n \in Notes : IsNote(rows[n])}

IndexTypeOK ==
    /\ \A n \in Notes : \A r \in {file[n], rows[n], known[n], batch[n]} :
           r.title \in Titles \cup {""} /\ r.links \subseteq Titles /\ r.stamp \in 0..MaxSaves
    /\ saves \in 0..MaxSaves
    /\ edges \subseteq Notes \X Notes
    /\ stage \in {"idle", "walk", "store", "link", "rescan", "relink"}
    /\ walk \subseteq Notes /\ met \subseteq Notes
    /\ still \in BOOLEAN /\ tainted \in BOOLEAN /\ widowed \in BOOLEAN

Empty == [n \in Notes |-> None]

IndexInit ==
    /\ file = Empty /\ saves = 0
    /\ rows = Empty /\ edges = {}
    /\ stage = "idle"
    /\ walk = {} /\ met = {} /\ known = Empty /\ noted = {} /\ batch = Empty
    /\ still = TRUE /\ tainted = FALSE /\ widowed = FALSE

-----------------------------------------------------------------------------
(* The vault. *)

Titled(n, c) == \A o \in Notes \ {n} : file[o].title # c.title

Save(n, c) ==
    /\ saves < MaxSaves /\ saves' = saves + 1
    /\ Titled(n, c)
    /\ file' = [file EXCEPT ![n] = [title |-> c.title, links |-> c.links, stamp |-> saves + 1]]
    /\ still' = FALSE

EditNote(n, c) == Save(n, c) /\ UNCHANGED <<stored, stage, reading, tainted, widowed>>

(* A touch moves the stat alone. *)
TouchNote(n) == IsNote(file[n]) /\ EditNote(n, file[n])

RemoveNote(n) ==
    /\ IsNote(file[n])
    /\ file' = [file EXCEPT ![n] = None] /\ still' = FALSE
    /\ UNCHANGED <<saves, stored, stage, reading, tainted, widowed>>

-----------------------------------------------------------------------------
(* Links, resolved by a map from titles to notes. *)

(* Where two rows have one title, either may be the one kept. *)
Maps(rs) ==
    LET titled(t) == {n \in Notes : IsNote(rs[n]) /\ rs[n].title = t}
    IN {f \in [{t \in Titles : titled(t) # {}} -> Notes] : \A t \in DOMAIN f : f[t] \in titled(t)}

(* upsert_edges_for_note, for the notes of S with the texts of T. *)
Relinked(S, T, map) ==
    {e \in edges : e[1] \notin S} \cup
    {e \in S \X Notes : e[1] # e[2] /\ \E t \in T[e[1]].links \cap DOMAIN map : map[t] = e[2]}

-----------------------------------------------------------------------------
(* The refresh. *)

Rested == walk' = {} /\ met' = {} /\ known' = Empty /\ noted' = {} /\ batch' = Empty

Begin ==
    /\ stage = "idle" /\ stage' = "walk"
    /\ walk' = {n \in Notes : IsNote(file[n])}
    /\ met' = {} /\ known' = rows /\ noted' = {} /\ batch' = Empty
    /\ still' = TRUE
    /\ UNCHANGED <<file, saves, stored, tainted, widowed>>

(* The walk meets a note; one whose stat is the row's is not opened. *)
Stat(n) ==
    /\ stage = "walk" /\ n \in walk /\ noted = {}
    /\ IF IsNote(file[n]) /\ file[n].stamp # known[n].stamp
       THEN noted' = {<<n, file[n].stamp>>} /\ walk' = walk
       ELSE noted' = {} /\ walk' = walk \ {n}
    /\ met' = IF IsNote(file[n]) THEN met \cup {n} ELSE met
    /\ UNCHANGED <<file, saves, stored, stage, known, batch, still, tainted, widowed>>

(* It is opened under the stat seen before; one that has gone is skipped. *)
OpenNote(n) ==
    \E stamp \in 1..MaxSaves :
    /\ stage = "walk" /\ <<n, stamp>> \in noted
    /\ walk' = walk \ {n} /\ noted' = {}
    /\ batch' = IF IsNote(file[n]) THEN [batch EXCEPT ![n] = [file[n] EXCEPT !.stamp = stamp]] ELSE batch
    /\ UNCHANGED <<file, saves, stored, stage, met, known, still, tainted, widowed>>

(* The rows of notes the walk did not meet go, with their edges both ways. *)
Delete(gone) ==
    /\ stage = "walk" /\ walk = {} /\ stage' = "store"
    /\ rows' = [n \in Notes |-> IF n \in gone THEN None ELSE rows[n]]
    /\ edges' = {e \in edges : e[1] \notin gone /\ e[2] \notin gone}
    /\ widowed' = (widowed \/ \E n \in gone, o \in Stored \ gone : rows[n].title = rows[o].title)
    /\ UNCHANGED <<file, saves, reading, still, tainted>>

Opened == {n \in Notes : IsNote(batch[n])}
Same(n) == batch[n].title = known[n].title /\ batch[n].links = known[n].links
Written == {n \in Opened : ~Same(n)}                  \* added + changed
Added   == {n \in Written : ~IsNote(known[n])}
Renamed == {n \in Written \ Added : batch[n].title # known[n].title}

(* Touched rows get their stamp, added and changed ones are stored whole. *)
Store ==
    /\ stage = "store" /\ stage' = "link"
    /\ rows' = [n \in Notes |-> CASE n \in Written -> batch[n]
                                  [] n \in Opened \ Written ->
                                       IF IsNote(rows[n]) THEN [rows[n] EXCEPT !.stamp = batch[n].stamp] ELSE None
                                  [] OTHER -> rows[n]]
    /\ UNCHANGED <<file, saves, edges, reading, still, tainted, widowed>>

Mentions(ts) == {n \in Stored : rows[n].links \cap ts # {}}

(* Variant: only what the renamed notes' in-edges name is looked at again. *)
ConcernedByEdges == {e[1] : e \in {d \in edges : d[2] \in Renamed}} \ Written

(* The other notes a moved title may concern: those with an edge to a      *)
(* renamed note and those that mention an added, old or new title. *)
Concerned ==
    ({e[1] : e \in {d \in edges : d[2] \in Renamed}}
        \cup Mentions({batch[n].title : n \in Added \cup Renamed} \cup {known[n].title : n \in Renamed}))
    \ Written

(* The links of what was stored, then of what it concerns, read afresh, by *)
(* one map of the titles. *)
LinkWritten ==
    /\ stage = "link" /\ stage' = "rescan"
    /\ \E map \in Maps(rows) : edges' = Relinked(Written, batch, map)
    /\ UNCHANGED <<file, saves, rows, reading, still, tainted, widowed>>

(* A note saved or removed just then is linked by words its row lacks.     *)
ShowsFile(n) == rows[n].title = file[n].title /\ rows[n].links = file[n].links

Rescan ==
    /\ stage = "rescan" /\ stage' = "idle"
    /\ \E map \in Maps(rows) : edges' = Relinked({n \in Concerned : IsNote(file[n])}, file, map)
    /\ tainted' = (tainted \/ \E n \in Concerned : ~ShowsFile(n))
    /\ Rested
    /\ UNCHANGED <<file, saves, rows, still, widowed>>

(* The refresh dies between two commits. *)
RefreshDies ==
    /\ stage # "idle" /\ stage' = "idle"
    /\ tainted' = (tainted \/ stage # "walk") /\ still' = FALSE
    /\ Rested
    /\ UNCHANGED <<file, saves, stored, widowed>>

(* A step raises: everything is wiped and read again, notes first. *)
Fall ==
    /\ stage \in {"walk", "store", "link", "rescan"}
    /\ stage' = "relink"
    /\ rows' = file /\ edges' = {}
    /\ tainted' = TRUE
    /\ Rested
    /\ UNCHANGED <<file, saves, still, widowed>>

(* The links of every row; a note that has gone raises again. *)
Relink ==
    /\ stage = "relink" /\ stage' = "idle"
    /\ IF \A n \in Stored : IsNote(file[n])
       THEN /\ \E map \in Maps(rows) : edges' = Relinked(Stored, file, map)
            /\ tainted' = (\E n \in Stored : ~ShowsFile(n)) /\ widowed' = FALSE
            /\ still' = still
       ELSE still' = FALSE /\ UNCHANGED <<edges, tainted, widowed>>
    /\ UNCHANGED <<file, saves, rows, reading>>

(* remember and `entropicmem note`: a note is written and indexed alone,   *)
(* without a stamp, and with or without its links. *)
Command(n, c, links) ==
    /\ ~IsNote(file[n])
    /\ Save(n, c)
    /\ rows' = [rows EXCEPT ![n] = [title |-> c.title, links |-> c.links, stamp |-> 0]]
    /\ IF links
       THEN \E map \in Maps(rows') : edges' = Relinked({n}, rows', map)
       ELSE edges' = edges
    /\ tainted' = TRUE
    /\ UNCHANGED <<stage, reading, widowed>>

IndexNext ==
    \/ \E n \in Notes :
         \/ \E c \in Contents : EditNote(n, c) \/ \E links \in BOOLEAN : Command(n, c, links)
         \/ TouchNote(n) \/ RemoveNote(n) \/ Stat(n) \/ OpenNote(n)
    \/ Begin \/ Delete({n \in Notes \ met : IsNote(known[n])})
    \/ Store \/ LinkWritten \/ Rescan \/ RefreshDies \/ Fall \/ Relink

IndexSpec == IndexInit /\ [][IndexNext]_indexVars

-----------------------------------------------------------------------------

(* What a full rebuild would store: every note, and every link that names  *)
(* another note's title. *)
Full ==
    /\ \A n \in Notes : ShowsFile(n)
    /\ edges = {e \in Notes \X Notes : e[1] # e[2] /\ IsNote(file[e[2]])
                                       /\ file[e[2]].title \in file[e[1]].links}

(* A refresh beside which no file moved leaves the index a full rebuild    *)
(* would have made, links of untouched notes included, unless something of *)
(* before has tainted it, or took away one of two rows with one title      *)
(* (index.py, "rewrites only the notes that changed"). *)
RefreshIsFull == stage = "idle" /\ still /\ ~tainted /\ ~widowed => Full

(* Expected, and refuted: also when a row was taken away whose title       *)
(* another row has.  A title may stand in two rows when it moves from note *)
(* to note under a walk.  The links that went to the row that is removed   *)
(* go with it, and nobody looks whether they lead to the other one         *)
(* ("added / removed / renamed notes leave the same edge set a full        *)
(* rebuild would produce", tests/test_graph_incremental.py). *)
RemovalsAreFull == stage = "idle" /\ still /\ ~tainted => Full

(* Expected, and refuted: so does any refresh that ends.  A note indexed   *)
(* by hand has the words the refresh finds, so it counts as touched and    *)
(* its links, and those to it, are not looked at. *)
AnyRefreshIsFull == stage = "idle" /\ still => Full
=============================================================================
