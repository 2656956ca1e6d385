-------------------------------- MODULE MCStore --------------------------------
(***************************************************************************)
(* The way of a text into the store, for TLC: the repository of memories,  *)
(* the windows of a conversation, the pass over what was extracted from    *)
(* them, and the backups of the whole.  They meet in the transcript and in *)
(* the pending rows only, and are checked side by side: part says which of *)
(* them a behaviour is about, and the others stay as they begin.  The      *)
(* backups are checked twice: once where files are replaced (restores and  *)
(* imports under every kind of engine, on one day), once where they are    *)
(* rotated (a v3 engine's daily backups, forgets and restores over days).  *)
(* So is Facade: once with the host's memory and one change by a tool,     *)
(* once with the confirmations, and no host.                               *)
(***************************************************************************)
EXTENDS MemoryStore, Windows, Backups, Reconcile, Facade, TLC

CONSTANT Parts

VARIABLE part

ASSUME WindowConstants /\ BackupConstants

\* What Reconcile's candidates say: one value of a port and another, the one
\* value of another port in a text alike but for the subject, and a name.
TopicOf == [c \in Candidates |-> IF c = "test9090" THEN "test port"
                                 ELSE IF c = "held" THEN "name" ELSE "port"]
Similar == {<<"9090", "test9090">>, <<"test9090", "9090">>}
Certain == Candidates \ {"held"}

\* One text of Facade's is part of another.
PartsOf == [t \in Texts |-> IF t = "long" THEN {"short", "long"} ELSE {t}]

MCInit ==
    /\ part \in Parts
    /\ Init
    /\ WindowsInit
    /\ ReconcileInit
    /\ BackupsInit
    /\ FacadeInit
    /\ part # "windows" => session = CHOOSE s \in Sessions : TRUE
    /\ part # "reconcile" => active = [b \in Buckets |-> {}]
    /\ part \notin {"replace", "rotate"} => stored = {}
    /\ part # "replace" => engine = "v3" /\ index = 0
    /\ part = "rotate" => \A s \in stored : s.index = 0
    /\ part = "rotate" => stored # {}
    /\ part # "mirror" => ~wide

\* Only the first row lives through all its versions.
MCNext ==
    /\ part' = part
    /\ IF part = "rows"      THEN Next   ELSE UNCHANGED vars
    /\ IF part = "windows"   THEN WindowsNext ELSE UNCHANGED windowVars
    /\ IF part = "reconcile" THEN ReconcileNext ELSE UNCHANGED reconcileVars
    /\ IF part \in {"replace", "rotate"} THEN BackupsNext ELSE UNCHANGED backupVars
    /\ IF part \in {"mirror", "confirm"} THEN FacadeNext ELSE UNCHANGED facadeVars
    /\ \A i \in Ids \ {1} : version'[i] < MaxVersion - 1
    /\ part = "replace" =>
          day' = 1 /\ queued' = {} /\ op'["tool"] = "none" /\ clock' < MaxSnapshots
    /\ part = "rotate" =>
          /\ engine' \in {"none", "v3"} /\ ~damaged' /\ index' = 0
          /\ last' # last => step["tool"] = "delete"
          /\ op'["cli"] # "import"
          /\ op'["tool"] = "none" \/ op'["cli"] = "none"
    /\ part = "mirror" => tokens' = {} /\ now' = 1 /\ Cardinality(parted') <= 1
    /\ part = "confirm" => entries' = {} /\ rows'[MaxEntries] = Vacant

MCSpec ==
    MCInit /\ [][MCNext]_<<part, vars, windowVars, reconcileVars, backupVars, facadeVars>>

Interchangeable == Permutations(Sessions) \cup Permutations(Contents)
=============================================================================
