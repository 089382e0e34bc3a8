----------------------------- MODULE Workspace ------------------------------
(***************************************************************************)
(* The problems of packages/storage/src/workspace.ts as useWorkspace keeps *)
(* them: a list in the page, one autosave timer, and IndexedDB behind the  *)
(* transactions the page has asked for.  Two of them run in the order they *)
(* were asked for only when they share an object store.                    *)
(*                                                                         *)
(* Every edit makes a new text, so a text is the number of its edit, and a *)
(* later text of a problem has a larger number.  `rest` is everything of a *)
(* problem that no revision keeps: its name, tests, limits and language.   *)
(* The order of the list is left out: which problem comes first is open.   *)
(***************************************************************************)
EXTENDS Naturals, Sequences, FiniteSets

CONSTANTS
    None,           \* no timer
    Coalesce,       \* REVISION_COALESCE_MS, in ticks of the clock
    MaxRevisions,   \* MAX_REVISIONS_PER_PROBLEM
    MaxIds,         \* bound: problems ever made
    MaxEdits,       \* bound: edits in a behaviour
    MaxClock,       \* bound: ticks of the clock
    MaxQueue        \* bound: transactions under way when the user acts

ASSUME WorkspaceAssumption ==
    /\ {Coalesce, MaxRevisions} \subseteq Nat \ {0}
    /\ {MaxIds, MaxEdits, MaxClock, MaxQueue} \subseteq Nat
    /\ None \notin [id: Nat, problem: [source: Nat, rest: Nat]]

VARIABLES
    loaded,      \* the page has read its problems
    problems,    \* the page's problems, by id
    current,     \* currentId
    timer,       \* saveTimer: the problem it will save, or None
    queue,       \* transactions asked for and not yet committed, oldest first
    disk,        \* the object store `problems`
    revisions,   \* the object store `revisions`
    clock, edits,
    ids,         \* ids given out: random ones in the code, numbered here
    cut          \* history: problems a save of which was under way at a close,
                 \* until their removal

pageVars == <<loaded, problems, current, timer>>
diskVars == <<queue, disk, revisions>>
vars == <<pageVars, diskVars, clock, edits, ids, cut>>

Ids == 1..MaxIds
Problem == [source: Nat, rest: Nat]
Revision == [problem: Ids, source: Nat, savedAt: Nat]
Empty == [i \in {} |-> [source |-> 0, rest |-> 0]]

\* newProblem: the starter text is edit 0 of the problem.
NewProblem == [source |-> 0, rest |-> 0]

Save(i, p) == [op |-> "save", id |-> i, problem |-> p]
Revise(i, text) == [op |-> "revise", id |-> i, source |-> text, now |-> clock]
Erase(i) == [op |-> "remove", id |-> i]

With(f, i, p) == [j \in DOMAIN f \cup {i} |-> IF j = i THEN p ELSE f[j]]
Without(f, i) == [j \in DOMAIN f \ {i} |-> f[j]]

Init ==
    /\ loaded = FALSE
    /\ problems = Empty
    /\ current = 0
    /\ timer = None
    /\ queue = << >>
    /\ disk = Empty
    /\ revisions = {}
    /\ clock = 0
    /\ edits = 0
    /\ ids = 0
    /\ cut = {}

-----------------------------------------------------------------------------
(* The page.                                                                *)

\* The user acts on a page that is loaded.
Acting == loaded /\ Len(queue) < MaxQueue

\* (mutation) A pending autosave is kept rather than replaced.
PersistOnce(i, p) == timer' = IF timer = None THEN [id |-> i, problem |-> p] ELSE timer

\* persist(): the armed autosave is replaced, whichever problem it was for.
Persist(i, p) == timer' = [id |-> i, problem |-> p]

\* update(): some fields of the open problem take a new value.
Update(fields) ==
    LET p == [f \in {"source", "rest"} |->
                 IF f \in fields THEN edits + 1 ELSE problems[current][f]]
    IN  /\ Acting
        /\ edits < MaxEdits
        /\ edits' = edits + 1
        /\ problems' = [problems EXCEPT ![current] = p]
        /\ Persist(current, p)
        /\ UNCHANGED <<loaded, current, diskVars, clock, ids, cut>>

Type == Update({"source"})              \* Editor
ChangeTestsOrLimits == Update({"rest"}) \* TestPanel, ProblemSettings
SwitchLanguage == Update({"source", "rest"})

\* add() for n new problems in turn: saved at once, and the last one opened.
Add(n) ==
    /\ Acting
    /\ ids + n <= MaxIds
    /\ ids' = ids + n
    /\ problems' = [j \in DOMAIN problems \cup (ids + 1)..(ids + n) |->
                       IF j \in DOMAIN problems THEN problems[j] ELSE NewProblem]
    /\ queue' = queue \o [k \in 1..n |-> Save(ids + k, NewProblem)]
    /\ current' = ids + n
    /\ UNCHANGED <<loaded, timer, disk, revisions, clock, edits, cut>>

Create == Add(1)
Import == \E n \in 1..2 : Add(n)

\* rename(): saved at once; an autosave already armed stays armed as it was.
Rename(i) ==
    LET p == [problems[i] EXCEPT !.rest = edits + 1]
    IN  /\ Acting
        /\ edits < MaxEdits
        /\ edits' = edits + 1
        /\ problems' = [problems EXCEPT ![i] = p]
        /\ queue' = Append(queue, Save(i, p))
        /\ UNCHANGED <<loaded, current, timer, disk, revisions, clock, ids, cut>>

\* (mutation) The open problem stays open after it is removed.
RemoveKeepsCurrent(i) ==
    /\ Acting
    /\ DOMAIN problems # {i}
    /\ problems' = Without(problems, i)
    /\ queue' = Append(queue, Erase(i))
    /\ UNCHANGED <<loaded, current, timer, disk, revisions, clock, edits, ids, cut>>

\* remove(): another problem is opened if this one was open.
Remove(i) ==
    /\ Acting
    /\ DOMAIN problems # {i}
    /\ problems' = Without(problems, i)
    /\ queue' = Append(queue, Erase(i))
    /\ current' \in IF current = i THEN DOMAIN problems \ {i} ELSE {current}
    /\ UNCHANGED <<loaded, timer, disk, revisions, clock, edits, ids, cut>>

\* remove() of the last problem: a fresh one takes its place.
RemoveLast(i) ==
    /\ Acting
    /\ DOMAIN problems = {i}
    /\ ids < MaxIds
    /\ ids' = ids + 1
    /\ problems' = With(Empty, ids + 1, NewProblem)
    /\ queue' = queue \o <<Erase(i), Save(ids + 1, NewProblem)>>
    /\ current' = ids + 1
    /\ UNCHANGED <<loaded, timer, disk, revisions, clock, edits, cut>>

Select(i) ==
    /\ Acting
    /\ current' = i
    /\ UNCHANGED <<loaded, problems, timer, diskVars, clock, edits, ids, cut>>

\* (mutation) The autosave goes off and saves nothing but a revision.
ReviseOnly ==
    /\ timer # None
    /\ timer' = None
    /\ queue' = Append(queue, Revise(timer.id, timer.problem.source))
    /\ UNCHANGED <<loaded, problems, current, disk, revisions, clock, edits, ids, cut>>

\* The autosave goes off: the problem as it was when the timer was armed.
Autosave ==
    /\ timer # None
    /\ timer' = None
    /\ queue' = queue \o <<Save(timer.id, timer.problem), Revise(timer.id, timer.problem.source)>>
    /\ UNCHANGED <<loaded, problems, current, disk, revisions, clock, edits, ids, cut>>

\* The effect on mount, with problems on disk: list(), and one of them is open.
Load ==
    /\ ~loaded
    /\ disk # Empty
    /\ loaded' = TRUE
    /\ problems' = disk
    /\ current' \in DOMAIN disk
    /\ UNCHANGED <<timer, diskVars, clock, edits, ids, cut>>

\* ... and with none: a first problem is saved before it is shown.
LoadFirst ==
    /\ ~loaded
    /\ disk = Empty
    /\ ids < MaxIds
    /\ ids' = ids + 1
    /\ disk' = With(Empty, ids + 1, NewProblem)
    /\ problems' = With(Empty, ids + 1, NewProblem)
    /\ current' = ids + 1
    /\ loaded' = TRUE
    /\ UNCHANGED <<timer, queue, revisions, clock, edits, cut>>

\* The transactions under way, and the problems they are to save.
Pending == {queue[k] : k \in DOMAIN queue}
Saving == {t.id : t \in {u \in Pending : u.op = "save"}}

\* The tab closes or reloads: the timer dies and so does what is uncommitted.
Close ==
    /\ loaded
    /\ loaded' = FALSE
    /\ problems' = Empty
    /\ timer' = None
    /\ queue' = << >>
    /\ cut' = cut \cup Saving
    /\ UNCHANGED <<current, disk, revisions, clock, edits, ids>>

-----------------------------------------------------------------------------
(* The store: a transaction commits.                                        *)

RevisionsOf(i) == {r \in revisions : r.problem = i}

\* (mutation) One revision too many is kept.
SurplusOfExisting(existing) ==
    {r \in existing : Cardinality({s \in existing : s.savedAt >= r.savedAt}) > MaxRevisions}

\* existing.length + 1 - MAX_REVISIONS_PER_PROBLEM of the oldest.
Surplus(existing) ==
    {r \in existing : Cardinality({s \in existing : s.savedAt >= r.savedAt}) >= MaxRevisions}

\* (mutation) The revisions are sorted the other way round.
Oldest(existing) == {r \in existing : \A s \in existing : s.savedAt >= r.savedAt}

Latest(existing) == {r \in existing : \A s \in existing : s.savedAt <= r.savedAt}

\* The latest revision when the new text replaces it.
Coalesced(t) == {r \in Latest(RevisionsOf(t.id)) : t.now - r.savedAt < Coalesce}

\* recordRevision(): nothing for an unchanged text, else replace or add.
Recorded(t) ==
    LET existing == RevisionsOf(t.id)
        new == [problem |-> t.id, source |-> t.source, savedAt |-> t.now]
    IN  IF \E r \in Latest(existing) : r.source = t.source THEN revisions
        ELSE IF Coalesced(t) # {} THEN (revisions \ Coalesced(t)) \cup {new}
        ELSE (revisions \ Surplus(existing)) \cup {new}

\* (mutation) A removal is a transaction over the problems alone.
ScopeOfProblems(t) == IF t.op = "revise" THEN {"revisions"} ELSE {"problems"}

\* The object stores of a transaction: put() opens one over the problems,
\* recordRevision() one over the revisions, remove() one over both.
Scope(t) == CASE t.op = "save" -> {"problems"}
              [] t.op = "revise" -> {"revisions"}
              [] t.op = "remove" -> {"problems", "revisions"}

\* IndexedDB: a transaction waits for the earlier ones that share a store with it.
MayCommit(k) == \A j \in 1..(k - 1) : Scope(queue[j]) \cap Scope(queue[k]) = {}

Commit ==
    \E k \in DOMAIN queue :
        LET t == queue[k]
        IN  /\ MayCommit(k)
            /\ queue' = SubSeq(queue, 1, k - 1) \o SubSeq(queue, k + 1, Len(queue))
            /\ disk' = CASE t.op = "save" -> With(disk, t.id, t.problem)
                         [] t.op = "remove" -> Without(disk, t.id)
                         [] t.op = "revise" -> disk
            /\ revisions' = CASE t.op = "save" -> revisions
                              [] t.op = "remove" -> revisions \ RevisionsOf(t.id)
                              [] t.op = "revise" -> Recorded(t)
            /\ cut' = IF t.op = "remove" THEN cut \ {t.id} ELSE cut
            /\ UNCHANGED <<pageVars, clock, edits, ids>>

Tick ==
    /\ clock < MaxClock
    /\ clock' = clock + 1
    /\ UNCHANGED <<pageVars, diskVars, edits, ids, cut>>

Next ==
    \/ Type
    \/ ChangeTestsOrLimits
    \/ SwitchLanguage
    \/ Create
    \/ Import
    \/ \E i \in DOMAIN problems : Rename(i) \/ Remove(i) \/ RemoveLast(i) \/ Select(i)
    \/ Autosave
    \/ Load
    \/ LoadFirst
    \/ Close
    \/ Commit
    \/ Tick

Spec == Init /\ [][Next]_vars

\* Timers go off and IndexedDB commits.
FairSpec == Spec /\ WF_vars(Autosave) /\ WF_vars(Commit)

-----------------------------------------------------------------------------
(* Properties.                                                              *)

\* What the page, its timer and the store hold; the undo net of a problem never
\* outgrows its cap (workspace.ts 64).
TypeOK ==
    /\ loaded \in BOOLEAN
    /\ ids \in 0..MaxIds
    /\ DOMAIN problems \cup DOMAIN disk \subseteq 1..ids
    /\ \A f \in {problems, disk} : \A i \in DOMAIN f : f[i] \in Problem
    /\ timer \in [id: Ids, problem: Problem] \cup {None}
    /\ \A k \in DOMAIN queue : queue[k].id \in Ids
    /\ revisions \subseteq Revision
    /\ \A i \in Ids : Cardinality(RevisionsOf(i)) <= MaxRevisions
    /\ {clock, edits} \subseteq Nat
    /\ cut \subseteq Ids

\* "Never leave the workspace empty" (useWorkspace.ts 143): whatever is removed,
\* created or imported, a loaded page has an open problem and it is in the list.
OpenProblemExists == loaded => current \in DOMAIN problems

\* The undo net reaches back (workspace.ts 130): two revisions of a problem are a
\* coalescing interval or more apart, across reloads, removals and an autosave that
\* comes late; and the later one has the later text, unless a page closed before the
\* earlier one's save was through, and the work went on from an older text.
RevisionsSpread ==
    \A r, s \in revisions :
        r.problem = s.problem /\ r # s /\ r.savedAt <= s.savedAt =>
            /\ r.savedAt + Coalesce <= s.savedAt
            /\ r.problem \notin cut => r.source < s.source

\* Removal is one transaction over both stores (workspace.ts 118), a save and its
\* revision are two over one each (113, 135), in no order: a revision is without its
\* problem only while the problem's save is under way, or when a page closed then.
RevisionsBelong == \A r \in revisions : r.problem \in DOMAIN disk \cup Saving \cup cut

\* A text on disk is only ever replaced by a later one: the delayed autosave, the
\* immediate saves of rename and the transactions in flight never put back an
\* older text of a problem.
SourceNeverGoesBack ==
    [][\A i \in DOMAIN disk \cap DOMAIN disk' : disk[i].source <= disk'[i].source]_vars

\* A pending autosave reaches the disk while the page stays, unless an edit of
\* another problem takes the timer over or the problem is removed.
AutosaveLands ==
    \A i \in Ids, n \in 1..MaxEdits :
        (timer # None /\ timer.id = i /\ timer.problem.source = n) ~>
            \/ i \in DOMAIN disk /\ disk[i].source >= n
            \/ timer # None /\ timer.id # i
            \/ i \notin DOMAIN problems

\* "Everything is written back on a short debounce" (useWorkspace.ts 57): with no
\* autosave armed and every transaction committed, the disk has the page's texts.
WrittenBack ==
    loaded /\ timer = None /\ queue = << >> =>
        \A i \in DOMAIN problems : i \in DOMAIN disk /\ disk[i].source = problems[i].source

=============================================================================
