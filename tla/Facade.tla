-------------------------------- MODULE Facade --------------------------------
(***************************************************************************)
(* What callers do to memories: the tools (em/provider/tools.py), the      *)
(* engine facade (em/facade/engine.py), and the hook that mirrors the      *)
(* host's own memory (EntropicMemProvider.on_memory_write).                *)
(*                                                                         *)
(* The host keeps a list of entries and tells of every change after it was *)
(* made; it is external.  The hook answers nothing and swallows whatever   *)
(* goes wrong.  One bucket: wide says whether it is the profile's or a     *)
(* user's, for only profile-wide rows are named after their content        *)
(* (legacy_id, which is UNIQUE).  Versions, quarantine and jobs are        *)
(* MemoryStore's.                                                          *)
(***************************************************************************)
EXTENDS Integers, FiniteSets

CONSTANTS
    Texts,       \* what an entry or a row may say; nothing empty is stored
    Fragments,    \* text -> the texts that occur in it, itself among them
    MaxEntries,  \* bound: rows ever inserted
    Ttl,         \* ticks a confirmation token is good for
    MaxClock,    \* bound
    MaxTokens    \* bound

RowIds == 1..MaxEntries

FacadeConstants ==
    /\ MaxEntries \in Nat /\ Ttl \in Nat /\ MaxClock \in Nat \ {0} /\ MaxTokens \in Nat
    /\ Fragments \in [Texts -> SUBSET Texts] /\ \A t \in Texts : t \in Fragments[t]
    /\ "" \notin Texts

ASSUME FacadeConstants

VARIABLES
    wide,
    rows,        \* the memories table
    entries,     \* the host's memory
    tokens,      \* _forget_tokens: what was shown, and until when
    now,
    missed,      \* history: texts of changes the hook did not carry through
    parted,      \* history: texts of rows that tools have changed, old and new
    shown        \* history: row -> when it was last shown, and its text

facadeVars == <<wide, rows, entries, tokens, now, missed, parted, shown>>

Vacant == [status |-> "none", text |-> "", name |-> "", mirrored |-> FALSE, by |-> ""]

FacadeInit ==
    /\ wide \in BOOLEAN
    /\ rows = [i \in RowIds |-> Vacant]
    /\ entries = {} /\ tokens = {} /\ now = 1
    /\ missed = {} /\ parted = {}
    /\ shown = [i \in RowIds |-> [at |-> 0, text |-> ""]]

Entry == [status : {"none", "active", "superseded", "deleted"}, text : Texts \cup {""},
          name : Texts \cup {""}, mirrored : BOOLEAN, by : {"", "tool", "host"}]

(* Every variable has its type. *)
FacadeTypeOK ==
    /\ wide \in BOOLEAN
    /\ rows \in [RowIds -> Entry]
    /\ entries \cup missed \cup parted \subseteq Texts
    /\ tokens \subseteq [ids : SUBSET RowIds, until : Nat]
    /\ now \in 1..MaxClock
    /\ shown \in [RowIds -> [at : Nat, text : Texts \cup {""}]]
-----------------------------------------------------------------------------
(* The rows.                                                               *)

Active(rs, i)     == rs[i].status = "active"
LiveRows(rs, c) == {i \in RowIds : Active(rs, i) /\ rs[i].text = c}

Row(c, name, mirrored, by) ==
    [status |-> "active", text |-> c, name |-> name, mirrored |-> mirrored, by |-> by]

(* _legacy_id.                                                             *)
Stamp(c) == IF wide THEN c ELSE ""

(* No other row, live or not, has the name: else the insert raises.        *)
NameFree(rs, name) == name = "" \/ \A i \in RowIds : rs[i].name # name

(* MemoryStore.add: a live row with the text stays as it is.               *)
Added(rs, row) ==
    IF LiveRows(rs, row.text) # {} \/ ~NameFree(rs, row.name) THEN rs
    ELSE [rs EXCEPT ![CHOOSE i \in RowIds : /\ rs[i] = Vacant
                                            /\ \A j \in RowIds : rs[j] = Vacant => i <= j] = row]

Room == \E i \in RowIds : rows[i] = Vacant

(* MemoryStore.supersede.                                                  *)
Replaced(i, row) ==
    IF LiveRows(rows, row.text) # {} \/ ~NameFree(rows, row.name) THEN rows
    ELSE [Added(rows, row) EXCEPT ![i].status = "superseded"]

Deleted(rs, S) == [i \in RowIds |-> IF i \in S THEN [rs[i] EXCEPT !.status = "deleted"] ELSE rs[i]]
-----------------------------------------------------------------------------
(* The mirror.                                                             *)

(* get_fact, of the id the content has: a deleted row reads as absent.     *)
Fact(c) == {i \in RowIds : c # "" /\ rows[i].name = c /\ rows[i].status \notin {"none", "deleted"}}

(* Variant: whatever its status.                                           *)
FoundMirrored(needle) == {i \in RowIds : rows[i].mirrored /\ needle \in Fragments[rows[i].text]}

(* find_mirrored's candidates.                                             *)
Mirrored(needle) ==
    {i \in RowIds : rows[i].mirrored /\ Active(rows, i) /\ needle \in Fragments[rows[i].text]}

(* _locate_mirror: by the id of what the entry was, if the host says, else *)
(* the first mirror that contains the needle.                              *)
Locate(previous, needle) ==
    LET own == {i \in Fact(previous) : rows[i].mirrored}
    IN  IF own # {} THEN own
        ELSE {i \in Mirrored(needle) : \A j \in Mirrored(needle) : i <= j}

(* on_memory_write: the old mirror is forgotten, the new one remembered,   *)
(* in a transaction each; when it fails between them, nothing has come.    *)
Hook(gone, come) ==
    LET left == Deleted(rows, gone)
        mirror(c) == Row(c, Stamp(c), TRUE, "host")
    IN  rows' = IF come = {} THEN left ELSE Added(left, mirror(CHOOSE c \in come : TRUE))

Unheard(changed) == missed' = missed \cup changed /\ rows' = rows

(* The host adds what it does not have.                                    *)
HostAdd(c) ==
    /\ c \notin entries /\ Room
    /\ entries' = entries \cup {c}
    /\ \/ Hook({}, {c}) /\ UNCHANGED missed
       \/ Unheard({c})
    /\ UNCHANGED <<wide, tokens, now, parted, shown>>

(* It takes or replaces the one entry that contains what it was given, and *)
(* may tell the entry's whole text.                                        *)
HostTake(old, come) ==
    /\ old \in entries /\ come \cap entries = {} /\ Room
    /\ entries' = (entries \ {old}) \cup come
    /\ \/ \E needle \in Fragments[old], previous \in {old, ""} :
             /\ \A e \in entries : needle \in Fragments[e] => e = old
             /\ \/ Hook(Locate(previous, needle), come) /\ UNCHANGED missed
                \/ come # {} /\ Hook(Locate(previous, needle), {}) /\ missed' = missed \cup come
       \/ Unheard(come \cup {old})
    /\ UNCHANGED <<wide, tokens, now, parted, shown>>
-----------------------------------------------------------------------------
(* The tools.                                                              *)

ToolChanges(texts, rs) ==
    /\ rows' = rs
    /\ parted' = parted \cup texts
    /\ UNCHANGED <<wide, entries, tokens, now, missed, shown>>

(* entropicmem_remember, and with what it supersedes.                      *)
Remember(c) ==
    /\ Room
    /\ rows' = Added(rows, Row(c, Stamp(c), FALSE, "tool"))
    /\ UNCHANGED <<wide, entries, tokens, now, missed, parted, shown>>

RememberFor(i, c) ==
    /\ Active(rows, i) /\ Room
    /\ ToolChanges({rows[i].text}, Replaced(i, Row(c, Stamp(c), FALSE, "tool")))

(* entropicmem_update: in the place of the old row, or the row itself,     *)
(* which keeps its name.                                                   *)
Update(i, c) ==
    /\ Active(rows, i) /\ Room
    /\ \/ ToolChanges({rows[i].text}, Replaced(i, Row(c, "", FALSE, "tool")))
       \/ /\ LiveRows(rows, c) \ {i} = {}
          /\ ToolChanges({rows[i].text, c}, [rows EXCEPT ![i].text = c, ![i].by = "tool"])

(* entropicmem_forget of an id; V3Engine.forget.                           *)
Forgettable(i) == rows[i].status \in {"active", "superseded"}
ForgetById(i)      == Forgettable(i) /\ ToolChanges({rows[i].text}, Deleted(rows, {i}))

(* entropicmem_review, restore: what is live may not say the same.         *)
ReviewRestore(i) ==
    /\ rows[i].status = "superseded" /\ LiveRows(rows, rows[i].text) = {}
    /\ ToolChanges({rows[i].text}, [rows EXCEPT ![i].status = "active", ![i].by = "tool"])

(* entropicmem_forget of a query shows what it would forget, for a token.  *)
Preview(S) ==
    /\ S # {} /\ \A i \in S : Active(rows, i)
    /\ tokens' = {k \in tokens : k.until > now} \cup {[ids |-> S, until |-> now + Ttl]}
    /\ tokens' # tokens /\ Cardinality(tokens') <= MaxTokens
    /\ shown' = [i \in RowIds |-> IF i \in S THEN [at |-> now, text |-> rows[i].text] ELSE shown[i]]
    /\ UNCHANGED <<wide, rows, entries, now, missed, parted>>

Confirmed(S) ==
    LET gone == {i \in S : Forgettable(i)}
    IN  rows' = Deleted(rows, gone) /\ parted' = parted \cup {rows[i].text : i \in gone}

(* Variant: nobody looks at the time.                                      *)
ConfirmAnyTime(k) ==
    /\ tokens' = tokens \ {k}
    /\ \E S \in SUBSET k.ids : Confirmed(S)
    /\ UNCHANGED <<wide, entries, now, missed, shown>>

(* With the token: row by row, a transaction each, until one fails.  The   *)
(* token is spent, in time or not.                                         *)
Confirm(k) ==
    /\ tokens' = tokens \ {k}
    /\ IF now > k.until THEN UNCHANGED <<rows, parted>>
       ELSE \E S \in SUBSET k.ids : Confirmed(S)
    /\ UNCHANGED <<wide, entries, now, missed, shown>>

Tick ==
    /\ now < MaxClock /\ now' = now + 1
    /\ UNCHANGED <<wide, rows, entries, tokens, missed, parted, shown>>

(* A new process has no tokens.                                            *)
NewProcess ==
    /\ tokens # {} /\ tokens' = {}
    /\ UNCHANGED <<wide, rows, entries, now, missed, parted, shown>>

FacadeNext ==
    \/ \E c \in Texts : HostAdd(c) \/ Remember(c)
    \/ \E old \in Texts : HostTake(old, {}) \/ \E new \in Texts \ {old} : HostTake(old, {new})
    \/ \E i \in RowIds, c \in Texts : RememberFor(i, c) \/ Update(i, c)
    \/ \E i \in RowIds : ForgetById(i) \/ ReviewRestore(i)
    \/ \E S \in SUBSET RowIds : Preview(S)
    \/ \E k \in tokens : Confirm(k)
    \/ Tick \/ NewProcess

FacadeSpec == FacadeInit /\ [][FacadeNext]_facadeVars
-----------------------------------------------------------------------------
(* Properties.                                                             *)

Alone(t) == \A u \in Texts \ {t} : Fragments[u] \cap Fragments[t] = {}

(* "Leaves 0 stale mirrors" (tests/test_mirror_lifecycle.py): as long as   *)
(* every change was heard, no tool changed the row, and no entry's text    *)
(* has a part in common with another's, an entry that is gone has no       *)
(* mirror, and one that is there is a live memory; unless its name was     *)
(* given away before.                                                      *)
MirrorFollows ==
    \A t \in Texts \ (missed \cup parted) : Alone(t) =>
        IF t \in entries
        THEN LiveRows(rows, t) # {} \/ ~NameFree(rows, Stamp(t))
        ELSE \A i \in LiveRows(rows, t) : rows[i].by = "tool"

(* A confirmation only forgets what was shown, no longer ago than a token  *)
(* lasts.                                                                  *)
ConfirmedWasShown ==
    [][ \A k \in tokens \ tokens', i \in RowIds :
          Active(rows, i) /\ ~Active(rows', i) => /\ i \in k.ids /\ shown[i].at # 0
                                                  /\ now <= shown[i].at + Ttl ]_facadeVars

(* Expected, and refuted: an entry whose addition was heard is a live      *)
(* memory.  A forgotten row keeps its name, and the next row of that text  *)
(* cannot have it ("so this must filter the same way or a superseded row   *)
(* would look like a duplicate and block a legitimate new memory",         *)
(* _find_duplicate).                                                       *)
AddedIsRemembered ==
    \A t \in entries \ (missed \cup parted) : Alone(t) => LiveRows(rows, t) # {}

(* Expected, and refuted: what the host takes out takes its own mirror.    *)
(* A user's rows have no names, so the first mirror that contains the text *)
(* is taken, be it another entry's.                                        *)
TakesItsOwn ==
    [][ \A i \in RowIds : entries' # entries /\ Active(rows, i) /\ ~Active(rows', i)
                       => rows[i].by = "tool" \/ rows[i].text \in entries \ entries' ]_facadeVars

(* Expected, and refuted: what is forgotten still says what was shown.     *)
ForgetsWhatWasShown ==
    [][ \A k \in tokens \ tokens', i \in RowIds :
          Active(rows, i) /\ ~Active(rows', i) => rows[i].text = shown[i].text ]_facadeVars
=============================================================================
