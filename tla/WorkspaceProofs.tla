-------------------------- MODULE WorkspaceProofs --------------------------
(***************************************************************************)
(* What TLAPS proves of Workspace, for every number of problems, edits and *)
(* ticks and every queue bound: the types with the cap on revisions, that  *)
(* a loaded page has an open problem, that revisions stay with their       *)
(* problem and apart, and that no text on disk is replaced by an older one.*)
(***************************************************************************)
EXTENDS Workspace, DataProofs

-----------------------------------------------------------------------------
(* The inductive invariant, in parts.                                       *)

Txn == [op: {"save"}, id: Ids, problem: Problem]
       \cup [op: {"revise"}, id: Ids, source: Nat, now: Nat]
       \cup [op: {"remove"}, id: Ids]

\* A table of problems whose ids have all been given out.
Table(f) ==
    /\ f = [i \in DOMAIN f |-> f[i]]
    /\ DOMAIN f \subseteq 1..ids
    /\ \A i \in DOMAIN f : f[i] \in Problem

Typed ==
    /\ loaded \in BOOLEAN
    /\ ids \in 0..MaxIds
    /\ Table(problems)
    /\ Table(disk)
    /\ timer # None => timer \in [id: 1..ids, problem: Problem]
    /\ queue \in Seq(Txn)
    /\ \A k \in 1..Len(queue) : queue[k].id \in 1..ids
    /\ revisions \subseteq Revision
    /\ IsFiniteSet(revisions)
    /\ \A r \in revisions : r.problem \in 1..ids
    /\ cut \subseteq 1..ids
    /\ clock \in Nat
    /\ edits \in Nat

\* A page that is not there asks nothing; one that is has an open problem.
PageWhole ==
    /\ ~loaded => problems = Empty /\ timer = None /\ queue = << >>
    /\ loaded => current \in DOMAIN problems

Saves(k, i) == queue[k].op = "save" /\ queue[k].id = i
Revises(k, i) == queue[k].op = "revise" /\ queue[k].id = i

\* The texts of a problem get newer along the way from the disk through the
\* queue to the timer and the page; the timer has the page's text.
TextsAscend ==
    /\ \A i \in DOMAIN problems : problems[i].source <= edits
    /\ \A i \in DOMAIN disk : disk[i].source <= edits
    /\ timer # None => timer.problem.source <= edits
    /\ \A k \in 1..Len(queue) : queue[k].op = "save" => queue[k].problem.source <= edits
    /\ timer # None /\ timer.id \in DOMAIN problems =>
           timer.problem.source = problems[timer.id].source
    /\ \A i \in DOMAIN disk \cap DOMAIN problems : disk[i].source <= problems[i].source
    /\ timer # None /\ timer.id \in DOMAIN disk => disk[timer.id].source <= timer.problem.source
    /\ \A i \in DOMAIN disk : \A k \in 1..Len(queue) :
           Saves(k, i) => disk[i].source <= queue[k].problem.source
    /\ \A i \in DOMAIN problems : \A k \in 1..Len(queue) :
           Saves(k, i) => queue[k].problem.source <= problems[i].source
    /\ timer # None => \A k \in 1..Len(queue) :
           Saves(k, timer.id) => queue[k].problem.source <= timer.problem.source
    /\ \A j, k \in 1..Len(queue) :
           j < k /\ queue[j].op = "save" /\ Saves(k, queue[j].id) =>
               queue[j].problem.source <= queue[k].problem.source

\* The disk has a text of the problem that is no older than this one.
Holds(i, text) == i \in DOMAIN disk /\ text <= disk[i].source

\* A save under way will put such a text there.
WillHold(i, text) == \E k \in 1..Len(queue) : Saves(k, i) /\ text <= queue[k].problem.source

\* The text of a revision at k is on disk or saved in front of it, and no removal
\* stands between,
BackedIn(q, k) ==
    LET Erases(e) == q[e].op = "remove" /\ q[e].id = q[k].id
    IN  \/ Holds(q[k].id, q[k].source) /\ \A e \in 1..(k - 1) : ~Erases(e)
        \/ \E j \in 1..(k - 1) :
               /\ q[j].op = "save" /\ q[j].id = q[k].id
               /\ q[k].source <= q[j].problem.source
               /\ \A e \in (j + 1)..(k - 1) : ~Erases(e)

\* for every revision under way.
Backed == \A k \in 1..Len(queue) : queue[k].op = "revise" => BackedIn(queue, k)

\* Revisions are asked for, and kept, in the order of the clock.
TimesAscend ==
    /\ \A k \in 1..Len(queue) : queue[k].op = "revise" => queue[k].now <= clock
    /\ \A j, k \in 1..Len(queue) :
           j < k /\ queue[j].op = "revise" /\ queue[k].op = "revise" =>
               queue[j].now <= queue[k].now
    /\ \A r \in revisions : r.savedAt <= clock
    /\ \A r \in revisions : \A k \in 1..Len(queue) :
           queue[k].op = "revise" => r.savedAt <= queue[k].now

\* Unless a page closed on the problem's save, a revision that is kept is no newer
\* than the text on disk, or than one under way there,
RevisionsBehind ==
    \A r \in revisions : r.problem \notin cut =>
        Holds(r.problem, r.source) \/ WillHold(r.problem, r.source)

\* no newer than the revisions under way, which come in the order of their texts,
RevisesAscend ==
    /\ \A j, k \in 1..Len(queue) :
           j < k /\ queue[j].op = "revise" /\ Revises(k, queue[j].id) =>
               queue[j].source <= queue[k].source
    /\ \A r \in revisions : r.problem \notin cut =>
           \A k \in 1..Len(queue) : Revises(k, r.problem) => r.source <= queue[k].source

\* and no newer than the texts of the page and its timer, nor are those under way.
PageAhead ==
    /\ \A k \in 1..Len(queue) : queue[k].op = "revise" =>
           /\ queue[k].id \in DOMAIN problems => queue[k].source <= problems[queue[k].id].source
           /\ timer # None /\ timer.id = queue[k].id => queue[k].source <= timer.problem.source
    /\ \A r \in revisions : r.problem \notin cut =>
           /\ r.problem \in DOMAIN problems => r.source <= problems[r.problem].source
           /\ timer # None /\ timer.id = r.problem => r.source <= timer.problem.source

Capped == \A i \in Ids : Cardinality(RevisionsOf(i)) <= MaxRevisions

IInv ==
    /\ Typed
    /\ PageWhole
    /\ TextsAscend
    /\ Backed
    /\ TimesAscend
    /\ RevisionsBehind
    /\ RevisesAscend
    /\ PageAhead
    /\ RevisionsSpread
    /\ Capped

-----------------------------------------------------------------------------
(* Facts about numbers, tables and queues.                                  *)

\* A finite set of numbers with a member has a greatest one, if a bound is known.
LEMMA GreatestNumber ==
    ASSUME NEW T \in SUBSET Nat, T # {}, NEW b \in Nat, \A y \in T : y <= b
    PROVE  \E x \in T : \A y \in T : y <= x
<1> DEFINE Bounds == {m \in Nat : \A y \in T : y <= m}
<1>1. PICK m \in Bounds : \A n \in Bounds : m <= n
    <2>1. Bounds \in SUBSET Nat /\ Bounds # {}
        OBVIOUS
    <2> QED
        BY <2>1, LeastNumber
<1>2. m \in T
    <2>1. SUFFICES ASSUME m \notin T PROVE FALSE
        OBVIOUS
    <2>2. \A y \in T : y \in Nat /\ y < m
        BY <2>1, <1>1
    <2>3. m > 0
        <3>1. PICK y \in T : TRUE
            OBVIOUS
        <3> QED
            BY <2>2, <3>1, <1>1
    <2>4. m - 1 \in Bounds
        BY <2>2, <2>3, <1>1
    <2> QED
        BY <1>1, <2>4, <2>3
<1> QED
    BY <1>1, <1>2

\* Two transactions asked for in turn end the queue.
LEMMA QueueTwo ==
    ASSUME NEW S, NEW q \in Seq(S), NEW a \in S, NEW b \in S
    PROVE  LET r == q \o <<a, b>>
           IN  /\ r \in Seq(S)
               /\ Len(r) = Len(q) + 2
               /\ \A k \in 1..Len(q) : r[k] = q[k]
               /\ r[Len(q) + 1] = a
               /\ r[Len(q) + 2] = b
<1>1. <<a, b>> \in Seq(S) /\ Len(<<a, b>>) = 2 /\ <<a, b>>[1] = a /\ <<a, b>>[2] = b
    OBVIOUS
<1>2. Len(q) \in Nat
    OBVIOUS
<1> QED
    BY <1>1, <1>2, ConcatProperties, SMTT(20)

-----------------------------------------------------------------------------
(* The revisions that recordRevision() leaves.                              *)

SpreadIn(R) ==
    \A r, s \in R :
        r.problem = s.problem /\ r # s /\ r.savedAt <= s.savedAt =>
            /\ r.savedAt + Coalesce <= s.savedAt
            /\ r.problem \notin cut => r.source < s.source

\* Some revision is the latest of a set of them that is not empty.
LEMMA LatestThere ==
    ASSUME NEW E \in SUBSET Revision, E # {},
           NEW b \in Nat, \A r \in E : r.savedAt <= b
    PROVE  \E l \in E : l \in Latest(E) /\ \A s \in E : s.savedAt <= l.savedAt
<1> DEFINE T == {r.savedAt : r \in E}
<1>1. T \in SUBSET Nat /\ T # {} /\ \A y \in T : y <= b
    BY DEF Revision
<1>2. PICK x \in T : \A y \in T : y <= x
    BY <1>1, GreatestNumber
<1>3. PICK l \in E : l.savedAt = x
    OBVIOUS
<1>4. \A s \in E : s.savedAt <= l.savedAt
    BY <1>2, <1>3
<1> QED
    BY <1>4 DEF Latest

\* What stays when room is made is one less than the cap, or fewer.
LEMMA KeptBelowCap ==
    ASSUME NEW E \in SUBSET Revision, IsFiniteSet(E)
    PROVE  /\ IsFiniteSet(E \ Surplus(E))
           /\ Cardinality(E \ Surplus(E)) < MaxRevisions
<1> DEFINE K == E \ Surplus(E)
<1> DEFINE NotBefore(r) == {s \in E : s.savedAt >= r.savedAt}
<1>1. IsFiniteSet(K)
    BY FS_Subset
<1>2. CASE K = {}
    BY <1>1, <1>2, FS_EmptySet, WorkspaceAssumption
<1>3. CASE K # {}
    <2> DEFINE T == {r.savedAt : r \in K}
    <2>1. T \in SUBSET Nat /\ T # {}
        BY <1>3 DEF Revision
    <2>2. PICK x \in T : \A y \in T : x <= y
        BY <2>1, LeastNumber
    <2>3. PICK r \in K : r.savedAt = x
        OBVIOUS
    <2>4. \A s \in K : s.savedAt \in Nat /\ r.savedAt \in Nat /\ r.savedAt <= s.savedAt
        BY <2>2, <2>3 DEF Revision
    <2>5. K \in SUBSET NotBefore(r)
        BY <2>4
    <2>6. IsFiniteSet(NotBefore(r)) /\ Cardinality(NotBefore(r)) \in Nat
        <3>1. NotBefore(r) \in SUBSET E
            OBVIOUS
        <3>2. IsFiniteSet(NotBefore(r))
            BY <3>1, FS_Subset
        <3> QED
            BY <3>2, FS_CardinalityType
    <2>7. ~(Cardinality(NotBefore(r)) >= MaxRevisions)
        BY DEF Surplus
    <2>8. Cardinality(K) <= Cardinality(NotBefore(r)) /\ Cardinality(K) \in Nat
        BY <1>1, <2>5, <2>6, FS_Subset, FS_CardinalityType
    <2> QED
        BY <1>1, <2>6, <2>7, <2>8, WorkspaceAssumption
<1> QED
    BY <1>2, <1>3

\* Adding a member to a set below a cap does not pass the cap.
LEMMA OneMore ==
    ASSUME NEW S, NEW x, IsFiniteSet(S), NEW m \in Nat, Cardinality(S) < m
    PROVE  Cardinality(S \cup {x}) <= m
<1>1. Cardinality(S) \in Nat
    BY FS_CardinalityType
<1>2. Cardinality(S \cup {x}) = IF x \in S THEN Cardinality(S) ELSE Cardinality(S) + 1
    BY FS_AddElement
<1> QED
    BY <1>1, <1>2

\* A new revision fits under the cap of its problem and leaves the others' alone.
LEMMA RecordedCapped ==
    ASSUME Typed, Capped,
           NEW t, t.id \in Ids, t.source \in Nat, t.now \in Nat
    PROVE  /\ Recorded(t) \subseteq Revision
           /\ IsFiniteSet(Recorded(t))
           /\ \A i \in Ids : Cardinality({r \in Recorded(t) : r.problem = i}) <= MaxRevisions
<1> DEFINE E == RevisionsOf(t.id)
<1> DEFINE new == [problem |-> t.id, source |-> t.source, savedAt |-> t.now]
<1> DEFINE Of(R, i) == {r \in R : r.problem = i}
<1>1. revisions \subseteq Revision /\ IsFiniteSet(revisions) /\ E \in SUBSET revisions
    BY DEF Typed, RevisionsOf
<1>2. IsFiniteSet(E) /\ Cardinality(E) \in Nat /\ Cardinality(E) <= MaxRevisions
      /\ E \in SUBSET Revision
    BY <1>1, FS_Subset, FS_CardinalityType DEF Capped
<1>3. new \in Revision /\ new.problem = t.id
    BY DEF Revision
<1>4. ASSUME NEW D \in SUBSET E, Cardinality(E \ D) < MaxRevisions
      PROVE  LET R == (revisions \ D) \cup {new}
             IN  /\ R \subseteq Revision
                 /\ IsFiniteSet(R)
                 /\ \A i \in Ids : Cardinality(Of(R, i)) <= MaxRevisions
    <2> DEFINE R == (revisions \ D) \cup {new}
    <2>1. R \subseteq Revision
        BY <1>1, <1>3
    <2>2. IsFiniteSet(revisions \ D) /\ IsFiniteSet(E \ D)
        BY <1>1, <1>2, FS_Subset
    <2>3. IsFiniteSet(R)
        BY <2>2, FS_AddElement
    <2>4. ASSUME NEW i \in Ids
          PROVE  Cardinality(Of(R, i)) <= MaxRevisions
        <3>1. CASE i = t.id
            <4>1. Of(R, i) = (E \ D) \cup {new}
                BY <3>1, <1>3 DEF RevisionsOf
            <4>2. MaxRevisions \in Nat
                BY WorkspaceAssumption
            <4>3. Cardinality((E \ D) \cup {new}) <= MaxRevisions
                BY <1>4, <2>2, <4>2, OneMore
            <4> QED
                BY <4>1, <4>3
        <3>2. CASE i # t.id
            <4>1. Of(R, i) = RevisionsOf(i)
                BY <3>2, <1>3 DEF RevisionsOf
            <4> QED
                BY <4>1 DEF Capped
        <3> QED
            BY <3>1, <3>2
    <2> QED
        BY <2>1, <2>3, <2>4
<1>5. CASE \E r \in Latest(E) : r.source = t.source
    <2>1. Recorded(t) = revisions
        BY <1>5 DEF Recorded
    <2>2. \A i \in Ids : Of(revisions, i) = RevisionsOf(i)
        BY DEF RevisionsOf
    <2> QED
        BY <1>1, <2>1, <2>2 DEF Capped
<1>6. CASE ~(\E r \in Latest(E) : r.source = t.source) /\ Coalesced(t) # {}
    <2>1. Recorded(t) = (revisions \ Coalesced(t)) \cup {new}
        BY <1>6 DEF Recorded
    <2>2. Coalesced(t) \in SUBSET E
        BY DEF Coalesced, Latest
    <2>3. PICK r \in Coalesced(t) : TRUE
        BY <1>6
    <2>4. IsFiniteSet(E \ {r}) /\ Cardinality(E \ {r}) = Cardinality(E) - 1
        BY <1>2, <2>2, <2>3, FS_RemoveElement
    <2>5. Cardinality(E \ Coalesced(t)) <= Cardinality(E \ {r})
          /\ Cardinality(E \ Coalesced(t)) \in Nat
        <3>1. E \ Coalesced(t) \in SUBSET (E \ {r})
            BY <2>3
        <3> QED
            BY <3>1, <2>4, FS_Subset, FS_CardinalityType
    <2>6. Cardinality(E \ Coalesced(t)) < MaxRevisions
        BY <1>2, <2>4, <2>5, WorkspaceAssumption
    <2> QED
        BY <1>4, <2>1, <2>2, <2>6
<1>7. CASE ~(\E r \in Latest(E) : r.source = t.source) /\ Coalesced(t) = {}
    <2>1. Recorded(t) = (revisions \ Surplus(E)) \cup {new}
        BY <1>7 DEF Recorded
    <2>2. Surplus(E) \in SUBSET E
        BY DEF Surplus
    <2>3. Cardinality(E \ Surplus(E)) < MaxRevisions
        BY <1>2, KeptBelowCap
    <2> QED
        BY <1>4, <2>1, <2>2, <2>3
<1> QED
    BY <1>5, <1>6, <1>7

\* A new revision is a coalescing interval after the ones it leaves, and newer.
LEMMA RecordedSpread ==
    ASSUME Typed, RevisionsSpread,
           NEW t, t.id \in Ids, t.source \in Nat, t.now \in Nat,
           \A r \in RevisionsOf(t.id) :
               r.savedAt <= t.now /\ (t.id \notin cut => r.source <= t.source)
    PROVE  SpreadIn(Recorded(t))
<1> DEFINE E == RevisionsOf(t.id)
<1> DEFINE new == [problem |-> t.id, source |-> t.source, savedAt |-> t.now]
<1>1. revisions \subseteq Revision /\ E \in SUBSET revisions /\ E \in SUBSET Revision
    BY DEF Typed, RevisionsOf
<1>2. SpreadIn(revisions) /\ Coalesce \in Nat /\ Coalesce > 0
    BY WorkspaceAssumption DEF RevisionsSpread, SpreadIn
<1>3. CASE \E r \in Latest(E) : r.source = t.source
    BY <1>2, <1>3 DEF Recorded
<1>4. CASE ~(\E r \in Latest(E) : r.source = t.source)
    <2>1. PICK D \in SUBSET E : /\ Recorded(t) = (revisions \ D) \cup {new}
                                /\ Coalesced(t) \subseteq D
        <3>1. Coalesced(t) \in SUBSET E /\ Surplus(E) \in SUBSET E
            BY DEF Coalesced, Latest, Surplus
        <3> QED
            BY <1>4, <3>1 DEF Recorded
    <2>2. ASSUME NEW r \in E \ D
          PROVE  r.savedAt + Coalesce <= t.now /\ (t.id \notin cut => r.source < t.source)
        <3>1. PICK l \in E : l \in Latest(E) /\ \A s \in E : s.savedAt <= l.savedAt
            BY <1>1, LatestThere
        <3>2. l.savedAt \in Nat /\ l.source \in Nat /\ r.savedAt \in Nat /\ r.source \in Nat
            BY <1>1 DEF Revision
        <3>3. (t.id \notin cut => l.source < t.source) /\ l.savedAt <= t.now
            BY <1>4, <3>1, <3>2
        <3>4. CASE r = l
            <4>1. l \notin Coalesced(t)
                BY <2>1, <3>4
            <4>2. t.now - l.savedAt >= Coalesce
                BY <3>1, <3>2, <4>1, <1>2 DEF Coalesced
            <4> QED
                BY <3>2, <3>3, <3>4, <4>2, <1>2
        <3>5. CASE r # l
            <4>1. r.problem = l.problem /\ r.problem = t.id /\ r \in revisions /\ l \in revisions
                BY DEF RevisionsOf
            <4>2. r.savedAt + Coalesce <= l.savedAt /\ (t.id \notin cut => r.source < l.source)
                BY <1>2, <3>1, <3>5, <4>1 DEF SpreadIn
            <4> QED
                BY <3>2, <3>3, <4>2, <1>2
        <3> QED
            BY <3>4, <3>5
    <2>3. new.problem = t.id /\ new.source = t.source /\ new.savedAt = t.now
        OBVIOUS
    <2>4. ASSUME NEW r \in revisions \ D, r.problem = t.id
          PROVE  /\ r.savedAt + Coalesce <= t.now
                 /\ t.id \notin cut => r.source < t.source
                 /\ r.savedAt \in Nat
        BY <2>2, <2>4, <1>1 DEF RevisionsOf, Revision
    <2>5. SpreadIn((revisions \ D) \cup {new})
        BY <1>2, <2>3, <2>4 DEF SpreadIn
    <2> QED
        BY <2>1, <2>5
<1> QED
    BY <1>3, <1>4

-----------------------------------------------------------------------------
(* Steps of the page.                                                       *)

\* What holds of the revisions kept holds while they are left alone.
LEMMA StoreSteady ==
    ASSUME IInv, revisions' = revisions, cut \subseteq cut'
    PROVE  RevisionsSpread' /\ Capped'
BY DEF IInv, RevisionsSpread, Capped, RevisionsOf

\* A revision is backed by what stands in front of it in the queue.
LEMMA BackedPrefix ==
    ASSUME NEW q, NEW r, NEW k \in Nat \ {0}, \A e \in 1..k : r[e] = q[e], BackedIn(q, k)
    PROVE  BackedIn(r, k)
<1>1. r[k] = q[k] /\ \A e \in 1..(k - 1) : r[e] = q[e]
    OBVIOUS
<1>2. \A j \in 1..(k - 1) : \A e \in (j + 1)..(k - 1) : e \in 1..(k - 1)
    OBVIOUS
<1> QED
    BY <1>1, <1>2 DEF BackedIn

\* The same queue backs a revision on the same disk.
LEMMA BackedThen ==
    ASSUME disk' = disk, NEW k, BackedIn(queue', k)
    PROVE  BackedIn(queue, k)'
BY DEF BackedIn, Holds

\* The transactions in the queue, one by one.
LEMMA QueueTyped ==
    ASSUME Typed
    PROVE  /\ Len(queue) \in Nat
           /\ \A k \in 1..Len(queue) :
                  /\ queue[k] \in Txn
                  /\ queue[k].op = "save" => queue[k].problem \in Problem
                                             /\ queue[k].problem.source \in Nat
                  /\ queue[k].op = "revise" => queue[k].source \in Nat /\ queue[k].now \in Nat
<1>1. \A k \in 1..Len(queue) : queue[k] \in Txn
    BY ElementOfSeq DEF Typed
<1>2. Len(queue) \in Nat
    BY DEF Typed
<1> QED
    BY <1>1, <1>2 DEF Txn, Problem

\* The order of revisions holds when only saves and removals are asked for, and
\* the page's texts get newer.
LEMMA NoReviseAdded ==
    ASSUME IInv, UNCHANGED <<disk, revisions, cut>>,
           clock' \in Nat, clock' >= clock,
           Len(queue') \in Nat, Len(queue') >= Len(queue),
           \A k \in 1..Len(queue) : queue'[k] = queue[k],
           \A k \in (Len(queue) + 1)..Len(queue') : queue'[k].op # "revise",
           \A i \in DOMAIN problems' :
               /\ problems'[i].source \in Nat
               /\ \/ i \notin 1..ids
                  \/ i \in DOMAIN problems /\ problems[i].source <= problems'[i].source,
           \/ timer' \in {None, timer}
           \/ /\ timer'.id \in DOMAIN problems
              /\ timer'.problem.source \in Nat
              /\ problems[timer'.id].source <= timer'.problem.source
    PROVE  Backed' /\ TimesAscend' /\ RevisionsBehind' /\ RevisesAscend' /\ PageAhead'
<1>1. /\ Typed /\ Backed /\ TimesAscend /\ RevisionsBehind /\ RevisesAscend /\ PageAhead
      /\ Len(queue) \in Nat /\ clock \in Nat
      /\ \A r \in revisions : r.savedAt \in Nat /\ r.source \in Nat /\ r.problem \in 1..ids
      /\ \A i \in DOMAIN problems : problems[i].source \in Nat
    BY DEF IInv, Typed, Revision, Table, Problem
<1>2. \A k \in 1..Len(queue') : queue'[k].op = "revise" =>
          /\ k \in 1..Len(queue) /\ queue[k].op = "revise" /\ queue'[k] = queue[k]
          /\ queue[k].now \in Nat /\ queue[k].source \in Nat /\ queue[k].id \in 1..ids
    BY <1>1, QueueTyped DEF Typed
<1>3. Backed'
    <2> SUFFICES ASSUME NEW k \in 1..Len(queue'), queue'[k].op = "revise"
                 PROVE  BackedIn(queue', k)
        BY BackedThen DEF Backed
    <2>1. k \in 1..Len(queue) /\ queue[k].op = "revise" /\ k \in Nat
        BY <1>2
    <2>2. \A e \in 1..k : queue'[e] = queue[e]
        BY <1>1, <2>1
    <2> QED
        BY <1>1, <2>1, <2>2, BackedPrefix DEF Backed
<1>4. TimesAscend'
    <2>1. \A k \in 1..Len(queue') : queue'[k].op = "revise" => queue'[k].now <= clock'
        BY <1>1, <1>2 DEF TimesAscend
    <2>2. \A j, k \in 1..Len(queue') :
              j < k /\ queue'[j].op = "revise" /\ queue'[k].op = "revise" =>
                  queue'[j].now <= queue'[k].now
        BY <1>1, <1>2 DEF TimesAscend
    <2>3. \A r \in revisions' : r.savedAt <= clock'
        BY <1>1 DEF TimesAscend
    <2>4. \A r \in revisions' : \A k \in 1..Len(queue') :
              queue'[k].op = "revise" => r.savedAt <= queue'[k].now
        BY <1>1, <1>2 DEF TimesAscend
    <2> QED
        BY <2>1, <2>2, <2>3, <2>4 DEF TimesAscend
<1>5. RevisionsBehind'
    <2>1. \A i, n : Holds(i, n) => Holds(i, n)'
        BY DEF Holds
    <2>2. ASSUME NEW i, NEW n, WillHold(i, n)
          PROVE  WillHold(i, n)'
        <3>1. PICK k \in 1..Len(queue) : Saves(k, i) /\ n <= queue[k].problem.source
            BY <2>2 DEF WillHold
        <3>2. k \in 1..Len(queue') /\ queue'[k] = queue[k]
            BY <1>1
        <3> QED
            BY <3>1, <3>2 DEF WillHold, Saves
    <2> QED
        BY <1>1, <2>1, <2>2 DEF RevisionsBehind
<1>6. RevisesAscend'
    BY <1>1, <1>2 DEF RevisesAscend, Revises
<1>7. PageAhead'
    <2>1. ASSUME NEW i \in 1..ids, NEW n \in Nat,
                 i \in DOMAIN problems => n <= problems[i].source,
                 timer # None /\ timer.id = i => n <= timer.problem.source
          PROVE  /\ i \in DOMAIN problems' => n <= problems'[i].source
                 /\ timer' # None /\ timer'.id = i => n <= timer'.problem.source
        BY <1>1, <2>1
    <2> QED
        BY <1>1, <1>2, <2>1 DEF PageAhead
<1> QED
    BY <1>3, <1>4, <1>5, <1>6, <1>7

\* The same, with the queue and the page's texts left alone.
LEMMA QueueSteady ==
    ASSUME IInv, UNCHANGED <<problems, timer, queue, disk, revisions, cut>>,
           clock' \in Nat, clock' >= clock
    PROVE  Backed' /\ TimesAscend' /\ RevisionsBehind' /\ RevisesAscend' /\ PageAhead'
<1>1. Len(queue) \in Nat /\ Len(queue') = Len(queue)
    BY DEF IInv, Typed
<1>2. \A i \in DOMAIN problems : problems[i].source \in Nat
    BY DEF IInv, Typed, Table, Problem
<1>3. \A i \in DOMAIN problems' : problems'[i].source \in Nat /\ i \in DOMAIN problems
                                  /\ problems[i].source <= problems'[i].source
    BY <1>2
<1> QED
    BY <1>1, <1>3, NoReviseAdded

\* An edit is newer than every text there is, and the timer takes it over.
LEMMA UpdateStep ==
    ASSUME IInv, NEW fields, Update(fields)
    PROVE  IInv'
<1> DEFINE p == [f \in {"source", "rest"} |->
                    IF f \in fields THEN edits + 1 ELSE problems[current][f]]
<1>1. /\ Typed /\ PageWhole /\ TextsAscend
      /\ edits \in Nat /\ clock \in Nat /\ loaded /\ current \in DOMAIN problems
      /\ current \in 1..ids
    BY DEF IInv, Typed, PageWhole, Table, Update, Acting
<1>2. /\ edits' = edits + 1 /\ problems' = [problems EXCEPT ![current] = p]
      /\ timer' = [id |-> current, problem |-> p]
      /\ UNCHANGED <<loaded, current, queue, disk, revisions, clock, ids, cut>>
    BY DEF Update, Persist, diskVars
<1>3. p \in Problem /\ p.source \in Nat /\ problems[current].source \in Nat
      /\ p.source <= edits' /\ problems[current].source <= p.source
    <2>1. problems[current] \in Problem /\ problems[current].source <= edits
        BY <1>1 DEF Typed, Table, TextsAscend
    <2>2. problems[current].source \in Nat /\ problems[current].rest \in Nat
        BY <2>1 DEF Problem
    <2>3. p.source = IF "source" \in fields THEN edits + 1 ELSE problems[current].source
        OBVIOUS
    <2>4. p.rest = IF "rest" \in fields THEN edits + 1 ELSE problems[current].rest
        OBVIOUS
    <2>5. p = [source |-> p.source, rest |-> p.rest]
        OBVIOUS
    <2> QED
        BY <1>1, <1>2, <2>1, <2>2, <2>3, <2>4, <2>5 DEF Problem
<1> HIDE DEF p
<1>4. DOMAIN problems' = DOMAIN problems /\ problems'[current] = p
      /\ \A i \in DOMAIN problems : i # current => problems'[i] = problems[i]
    BY <1>1, <1>2 DEF Typed, Table
<1>5. Typed'
    <2>1. Table(problems)' /\ Table(disk)'
        BY <1>1, <1>2, <1>3, <1>4 DEF Typed, Table
    <2>2. timer' \in [id: 1..ids, problem: Problem]
        BY <1>1, <1>2, <1>3
    <2> QED
        BY <1>1, <1>2, <2>1, <2>2 DEF Typed
<1>6. PageWhole'
    BY <1>1, <1>2, <1>4 DEF PageWhole
<1>7. TextsAscend'
    <2>1. /\ \A i \in DOMAIN problems : problems[i].source \in Nat
          /\ \A i \in DOMAIN disk : disk[i].source \in Nat
        BY <1>1 DEF Typed, Table, Problem
    <2>2. timer' # None /\ timer'.id = current /\ timer'.problem = p
        BY <1>1, <1>2, <1>3, WorkspaceAssumption DEF Problem, Typed
    <2>3. \A k \in 1..Len(queue) : queue[k].op = "save" => queue[k].problem.source \in Nat
        BY <1>1, QueueTyped
    <2>4. \A i \in DOMAIN problems : problems[i].source <= problems'[i].source
                                     /\ problems'[i].source \in Nat
                                     /\ problems'[i].source <= edits'
        BY <1>1, <1>2, <1>3, <1>4, <2>1 DEF TextsAscend
    <2>5. \A i \in DOMAIN disk \cap DOMAIN problems : disk[i].source <= problems'[i].source
        BY <1>1, <2>1, <2>4 DEF TextsAscend
    <2>6. \A i \in DOMAIN problems : \A k \in 1..Len(queue) :
              Saves(k, i) => queue[k].problem.source <= problems'[i].source
        BY <1>1, <2>1, <2>3, <2>4 DEF TextsAscend, Saves
    <2>7. /\ \A i \in DOMAIN disk : disk[i].source <= edits'
          /\ \A k \in 1..Len(queue) : queue[k].op = "save" => queue[k].problem.source <= edits'
        BY <1>1, <1>2, <2>1, <2>3 DEF TextsAscend
    <2> QED
        BY <1>1, <1>2, <1>3, <1>4, <2>2, <2>4, <2>5, <2>6, <2>7 DEF TextsAscend, Saves
<1>8. Backed' /\ TimesAscend' /\ RevisionsBehind' /\ RevisesAscend' /\ PageAhead'
    <2>1. timer'.id = current /\ timer'.problem.source = p.source
        BY <1>2
    <2>2. \A i \in DOMAIN problems' :
              problems'[i].source \in Nat /\ i \in DOMAIN problems /\ problems[i].source <= problems'[i].source
        BY <1>1, <1>3, <1>4 DEF Typed, Table, Problem
    <2> QED
        BY <1>1, <1>2, <1>3, <2>1, <2>2, NoReviseAdded
<1> QED
    BY <1>2, <1>5, <1>6, <1>7, <1>8, StoreSteady DEF IInv

\* A new problem is nobody's: its id is in no table, timer or transaction.
LEMMA AddStep ==
    ASSUME IInv, NEW n \in 1..2, Add(n)
    PROVE  IInv'
<1> DEFINE new == [k \in 1..n |-> Save(ids + k, NewProblem)]
<1>1. /\ Typed /\ PageWhole /\ TextsAscend
      /\ loaded /\ ids \in Nat /\ edits \in Nat /\ clock \in Nat /\ Len(queue) \in Nat
      /\ ids + n <= MaxIds /\ MaxIds \in Nat
    BY WorkspaceAssumption DEF IInv, Typed, Add, Acting
<1>2. /\ ids' = ids + n /\ current' = ids + n /\ queue' = queue \o new
      /\ problems' = [j \in DOMAIN problems \cup (ids + 1)..(ids + n) |->
                         IF j \in DOMAIN problems THEN problems[j] ELSE NewProblem]
      /\ UNCHANGED <<loaded, timer, disk, revisions, clock, edits, cut>>
    BY DEF Add
<1>3. NewProblem \in Problem /\ NewProblem.source = 0
    BY DEF NewProblem, Problem
<1>4. \A k \in 1..n : new[k] \in Txn /\ new[k].op = "save" /\ new[k].id = ids + k
                      /\ new[k].problem = NewProblem
    BY <1>1, <1>3 DEF Txn, Save, Ids
<1>5. new \in Seq(Txn) /\ Len(new) = n
    <2>1. \A k \in 1..n : new[k] \in Txn
        BY <1>4
    <2> QED
        BY <2>1
<1> HIDE DEF new
<1>6. /\ queue' \in Seq(Txn) /\ Len(queue') = Len(queue) + n
      /\ \A k \in 1..Len(queue) : queue'[k] = queue[k]
      /\ \A k \in (Len(queue) + 1)..Len(queue') :
             /\ queue'[k].op = "save" /\ queue'[k].problem = NewProblem
             /\ queue'[k].id = ids + (k - Len(queue)) /\ k - Len(queue) \in 1..n
    <2>1. queue \in Seq(Txn)
        BY <1>1 DEF Typed
    <2>2. /\ queue' \in Seq(Txn) /\ Len(queue') = Len(queue) + Len(new)
          /\ \A k \in 1..(Len(queue) + Len(new)) :
                 queue'[k] = IF k <= Len(queue) THEN queue[k] ELSE new[k - Len(queue)]
        BY <1>2, <1>5, <2>1, ConcatProperties
    <2> QED
        BY <1>1, <1>4, <1>5, <2>2
<1>7. DOMAIN problems \subseteq 1..ids /\ DOMAIN disk \subseteq 1..ids
      /\ (timer # None => timer.id \in 1..ids)
      /\ \A k \in 1..Len(queue) : queue[k].id \in 1..ids
    BY <1>1 DEF Typed, Table
<1>8. /\ DOMAIN problems' = DOMAIN problems \cup (ids + 1)..(ids + n)
      /\ \A i \in DOMAIN problems : problems'[i] = problems[i]
      /\ \A i \in DOMAIN problems' : i \notin DOMAIN problems =>
             problems'[i] = NewProblem /\ i > ids /\ i <= ids + n
    BY <1>1, <1>2
<1>9. Typed'
    <2>1. Table(problems)' /\ Table(disk)'
        BY <1>1, <1>2, <1>3, <1>8 DEF Typed, Table
    <2>2. ASSUME NEW k \in 1..Len(queue')
          PROVE  queue'[k].id \in 1..ids'
        <3>1. CASE k \in 1..Len(queue)
            BY <1>1, <1>2, <1>6, <1>7, <3>1
        <3>2. CASE k \in (Len(queue) + 1)..Len(queue')
            <4>1. queue'[k].id = ids + (k - Len(queue)) /\ k - Len(queue) \in 1..n
                BY <1>6, <3>2
            <4> QED
                BY <1>1, <1>2, <4>1
        <3> QED
            BY <1>1, <1>6, <3>1, <3>2
    <2>3. timer' # None => timer' \in [id: 1..ids', problem: Problem]
        BY <1>1, <1>2 DEF Typed
    <2> QED
        BY <1>1, <1>2, <1>6, <2>1, <2>2, <2>3 DEF Typed
<1>10. PageWhole'
    BY <1>1, <1>2, <1>8 DEF PageWhole
<1>11. TextsAscend'
    <2>1. \A k \in 1..Len(queue') : k \notin 1..Len(queue) =>
              /\ queue'[k].op = "save" /\ queue'[k].problem.source = 0
              /\ queue'[k].id \notin 1..ids /\ queue'[k].id \in Nat
        BY <1>1, <1>3, <1>6
    <2>2. /\ \A i \in DOMAIN problems' : problems'[i].source <= edits
          /\ \A i \in DOMAIN disk : disk[i].source <= edits
          /\ timer # None => timer.problem.source <= edits
        BY <1>1, <1>3, <1>8 DEF TextsAscend
    <2>3. \A k \in 1..Len(queue') : queue'[k].op = "save" => queue'[k].problem.source <= edits
        BY <1>1, <1>6, <2>1 DEF TextsAscend
    <2>4. timer # None /\ timer.id \in DOMAIN problems' =>
              timer.problem.source = problems'[timer.id].source
        BY <1>1, <1>7, <1>8 DEF TextsAscend
    <2>5. /\ \A i \in DOMAIN disk \cap DOMAIN problems' : disk[i].source <= problems'[i].source
          /\ timer # None /\ timer.id \in DOMAIN disk => disk[timer.id].source <= timer.problem.source
        BY <1>1, <1>7, <1>8 DEF TextsAscend
    <2>6. \A i \in DOMAIN disk : \A k \in 1..Len(queue') :
              queue'[k].op = "save" /\ queue'[k].id = i => disk[i].source <= queue'[k].problem.source
        BY <1>1, <1>6, <1>7, <2>1 DEF TextsAscend, Saves
    <2>7. \A i \in DOMAIN problems' : \A k \in 1..Len(queue') :
              queue'[k].op = "save" /\ queue'[k].id = i => queue'[k].problem.source <= problems'[i].source
        BY <1>1, <1>3, <1>6, <1>7, <1>8, <2>1, SMTT(30) DEF TextsAscend, Saves
    <2>8. timer # None => \A k \in 1..Len(queue') :
              queue'[k].op = "save" /\ queue'[k].id = timer.id =>
                  queue'[k].problem.source <= timer.problem.source
        BY <1>1, <1>6, <1>7, <2>1 DEF TextsAscend, Saves
    <2>9. \A j, k \in 1..Len(queue') :
              j < k /\ queue'[j].op = "save" /\ queue'[k].op = "save" /\ queue'[k].id = queue'[j].id =>
                  queue'[j].problem.source <= queue'[k].problem.source
        <3> SUFFICES ASSUME NEW j \in 1..Len(queue'), NEW k \in 1..Len(queue'),
                            j < k, queue'[j].op = "save", queue'[k].op = "save",
                            queue'[k].id = queue'[j].id
                     PROVE  queue'[j].problem.source <= queue'[k].problem.source
            OBVIOUS
        <3>1. CASE k \in 1..Len(queue)
            <4>1. j \in 1..Len(queue) /\ queue'[j] = queue[j] /\ queue'[k] = queue[k]
                BY <1>1, <1>6, <3>1
            <4> QED
                BY <1>1, <3>1, <4>1 DEF TextsAscend, Saves
        <3>2. CASE k \notin 1..Len(queue)
            <4>1. j \notin 1..Len(queue)
                BY <1>6, <1>7, <2>1, <3>2
            <4>2. queue'[j].problem.source = 0 /\ queue'[k].problem.source = 0 /\ 0 <= 0
                BY <2>1, <3>2, <4>1
            <4> QED
                BY <4>2
        <3> QED
            BY <3>1, <3>2
    <2> QED
        BY <1>2, <2>2, <2>3, <2>4, <2>5, <2>6, <2>7, <2>8, <2>9 DEF TextsAscend, Saves
<1>12. Backed' /\ TimesAscend' /\ RevisionsBehind' /\ RevisesAscend' /\ PageAhead'
    <2>1. \A k \in (Len(queue) + 1)..Len(queue') : queue'[k].op # "revise"
        BY <1>6
    <2>2. \A i \in DOMAIN problems' :
              /\ problems'[i].source \in Nat
              /\ \/ i \notin 1..ids
                 \/ i \in DOMAIN problems /\ problems[i].source <= problems'[i].source
        BY <1>1, <1>3, <1>8 DEF Typed, Table, Problem
    <2>3. UNCHANGED <<timer, disk, revisions, clock, cut>> /\ clock \in Nat
        BY <1>1, <1>2
    <2>4. Len(queue') \in Nat /\ Len(queue') >= Len(queue)
        BY <1>1, <1>6
    <2>5. \A k \in 1..Len(queue) : queue'[k] = queue[k]
        BY <1>6
    <2> QED
        BY <2>1, <2>2, <2>3, <2>4, <2>5, NoReviseAdded
<1> QED
    BY <1>2, <1>9, <1>10, <1>11, <1>12, StoreSteady DEF IInv

\* A rename asks for a save of the page's text, at or past every save before it.
LEMMA RenameStep ==
    ASSUME IInv, NEW i \in DOMAIN problems, Rename(i)
    PROVE  IInv'
<1> DEFINE p == [problems[i] EXCEPT !.rest = edits + 1]
<1>1. /\ Typed /\ PageWhole /\ TextsAscend
      /\ loaded /\ ids \in Nat /\ edits \in Nat /\ clock \in Nat
      /\ Len(queue) \in Nat /\ queue \in Seq(Txn) /\ i \in 1..ids /\ i \in Ids
      /\ problems[i] \in Problem
    BY WorkspaceAssumption DEF IInv, Typed, Table, Rename, Acting, Ids
<1>2. /\ edits' = edits + 1 /\ problems' = [problems EXCEPT ![i] = p]
      /\ queue' = Append(queue, Save(i, p))
      /\ UNCHANGED <<loaded, current, timer, disk, revisions, clock, ids, cut>>
    BY DEF Rename
<1>3. p \in Problem /\ p.source = problems[i].source /\ p.source \in Nat
    BY <1>1 DEF Problem
<1> HIDE DEF p
<1>4. DOMAIN problems' = DOMAIN problems /\ problems'[i] = p
      /\ \A j \in DOMAIN problems : j # i => problems'[j] = problems[j]
    BY <1>1, <1>2 DEF Typed, Table
<1>5. Save(i, p) \in Txn /\ Save(i, p).op = "save" /\ Save(i, p).id = i /\ Save(i, p).problem = p
    BY <1>1, <1>3 DEF Save, Txn
<1>6. /\ queue' \in Seq(Txn) /\ Len(queue') = Len(queue) + 1
      /\ \A k \in 1..Len(queue) : queue'[k] = queue[k]
      /\ queue'[Len(queue) + 1] = Save(i, p)
    BY <1>1, <1>2, <1>5, AppendProperties
<1>7. \A j \in DOMAIN problems : problems'[j].source = problems[j].source
    BY <1>3, <1>4
<1>8. Typed'
    <2>1. Table(problems)' /\ Table(disk)'
        BY <1>1, <1>2, <1>3, <1>4 DEF Typed, Table
    <2>2. \A k \in 1..Len(queue') : queue'[k].id \in 1..ids'
        BY <1>1, <1>2, <1>5, <1>6 DEF Typed
    <2> QED
        BY <1>1, <1>2, <1>6, <2>1, <2>2 DEF Typed
<1>9. PageWhole'
    BY <1>1, <1>2, <1>4 DEF PageWhole
<1>10. TextsAscend'
    <2>1. /\ \A j \in DOMAIN problems : problems[j].source \in Nat
          /\ \A j \in DOMAIN disk : disk[j].source \in Nat
          /\ timer # None => timer.problem.source \in Nat
        BY <1>1 DEF Typed, Table, Problem
    <2>2. \A k \in 1..Len(queue) : queue[k].op = "save" => queue[k].problem.source \in Nat
        BY <1>1, QueueTyped
    <2>3. /\ \A j \in DOMAIN problems' : problems'[j].source <= edits'
          /\ \A j \in DOMAIN disk : disk[j].source <= edits'
          /\ timer # None => timer.problem.source <= edits'
        BY <1>1, <1>2, <1>4, <1>7, <2>1 DEF TextsAscend
    <2>4. \A k \in 1..Len(queue') : queue'[k].op = "save" => queue'[k].problem.source <= edits'
        BY <1>1, <1>2, <1>3, <1>5, <1>6, <2>1, <2>2 DEF TextsAscend
    <2>5. /\ timer # None /\ timer.id \in DOMAIN problems' =>
                 timer.problem.source = problems'[timer.id].source
          /\ \A j \in DOMAIN disk \cap DOMAIN problems' : disk[j].source <= problems'[j].source
          /\ timer # None /\ timer.id \in DOMAIN disk => disk[timer.id].source <= timer.problem.source
        BY <1>1, <1>4, <1>7 DEF TextsAscend
    <2>6. \A j \in DOMAIN disk : \A k \in 1..Len(queue') :
              queue'[k].op = "save" /\ queue'[k].id = j => disk[j].source <= queue'[k].problem.source
        BY <1>1, <1>3, <1>5, <1>6, SMTT(30) DEF TextsAscend, Saves
    <2>7. \A j \in DOMAIN problems' : \A k \in 1..Len(queue') :
              queue'[k].op = "save" /\ queue'[k].id = j => queue'[k].problem.source <= problems'[j].source
        BY <1>1, <1>3, <1>4, <1>5, <1>6, <1>7, SMTT(30) DEF TextsAscend, Saves
    <2>8. timer # None => \A k \in 1..Len(queue') :
              queue'[k].op = "save" /\ queue'[k].id = timer.id =>
                  queue'[k].problem.source <= timer.problem.source
        BY <1>1, <1>3, <1>5, <1>6, <2>1, SMTT(30) DEF TextsAscend, Saves
    <2>9. \A j, k \in 1..Len(queue') :
              j < k /\ queue'[j].op = "save" /\ queue'[k].op = "save" /\ queue'[k].id = queue'[j].id =>
                  queue'[j].problem.source <= queue'[k].problem.source
        <3> SUFFICES ASSUME NEW j \in 1..Len(queue'), NEW k \in 1..Len(queue'),
                            j < k, queue'[j].op = "save", queue'[k].op = "save",
                            queue'[k].id = queue'[j].id
                     PROVE  queue'[j].problem.source <= queue'[k].problem.source
            OBVIOUS
        <3>1. j \in 1..Len(queue) /\ queue'[j] = queue[j]
            BY <1>1, <1>6
        <3>2. CASE k \in 1..Len(queue)
            BY <1>1, <1>6, <3>1, <3>2 DEF TextsAscend, Saves
        <3>3. CASE k \notin 1..Len(queue)
            <4>1. k = Len(queue) + 1 /\ queue'[k] = Save(i, p)
                BY <1>1, <1>6, <3>3
            <4> QED
                BY <1>1, <1>3, <1>5, <3>1, <4>1 DEF TextsAscend, Saves
        <3> QED
            BY <3>2, <3>3
    <2> QED
        BY <1>2, <2>3, <2>4, <2>5, <2>6, <2>7, <2>8, <2>9 DEF TextsAscend, Saves
<1>11. Backed' /\ TimesAscend' /\ RevisionsBehind' /\ RevisesAscend' /\ PageAhead'
    <2>1. \A k \in (Len(queue) + 1)..Len(queue') : queue'[k].op # "revise"
        BY <1>1, <1>5, <1>6
    <2>2. \A j \in DOMAIN problems' :
              problems'[j].source \in Nat /\ j \in DOMAIN problems /\ problems[j].source <= problems'[j].source
        BY <1>1, <1>4, <1>7 DEF Typed, Table, Problem
    <2> QED
        BY <1>1, <1>2, <1>6, <2>1, <2>2, NoReviseAdded
<1> QED
    BY <1>2, <1>8, <1>9, <1>10, <1>11, StoreSteady DEF IInv

\* Removing a problem takes it from the page; what is asked for it stays asked.
LEMMA RemoveStep ==
    ASSUME IInv, NEW i \in DOMAIN problems, Remove(i)
    PROVE  IInv'
<1>1. /\ Typed /\ PageWhole /\ TextsAscend
      /\ loaded /\ clock \in Nat
      /\ Len(queue) \in Nat /\ queue \in Seq(Txn) /\ i \in 1..ids /\ i \in Ids
    BY WorkspaceAssumption DEF IInv, Typed, Table, Remove, Acting, Ids
<1>2. /\ problems' = Without(problems, i) /\ queue' = Append(queue, Erase(i))
      /\ DOMAIN problems # {i}
      /\ current' \in IF current = i THEN DOMAIN problems \ {i} ELSE {current}
      /\ UNCHANGED <<loaded, timer, disk, revisions, clock, edits, ids, cut>>
    BY DEF Remove
<1>3. DOMAIN problems' = DOMAIN problems \ {i}
      /\ \A j \in DOMAIN problems' : j \in DOMAIN problems /\ problems'[j] = problems[j]
    BY <1>2 DEF Without
<1>4. Erase(i) \in Txn /\ Erase(i).op = "remove" /\ Erase(i).id = i
    BY <1>1 DEF Erase, Txn
<1>5. /\ queue' \in Seq(Txn) /\ Len(queue') = Len(queue) + 1
      /\ \A k \in 1..Len(queue) : queue'[k] = queue[k]
      /\ queue'[Len(queue) + 1] = Erase(i)
    BY <1>1, <1>2, <1>4, AppendProperties
<1>6. Typed'
    <2>1. Table(problems)'
        BY <1>1, <1>2, <1>3 DEF Typed, Table, Without
    <2>2. \A k \in 1..Len(queue') : queue'[k].id \in 1..ids'
        BY <1>1, <1>2, <1>4, <1>5 DEF Typed
    <2> QED
        BY <1>1, <1>2, <1>5, <2>1, <2>2 DEF Typed, Table
<1>7. PageWhole'
    BY <1>1, <1>2, <1>3 DEF PageWhole
<1>8. TextsAscend'
    <2>1. \A k \in 1..Len(queue') : queue'[k].op = "save" =>
              k \in 1..Len(queue) /\ queue'[k] = queue[k]
        BY <1>1, <1>4, <1>5
    <2> QED
        BY <1>1, <1>2, <1>3, <2>1 DEF TextsAscend, Saves
<1>9. Backed' /\ TimesAscend' /\ RevisionsBehind' /\ RevisesAscend' /\ PageAhead'
    <2>1. \A k \in (Len(queue) + 1)..Len(queue') : queue'[k].op # "revise"
        BY <1>1, <1>4, <1>5
    <2>2. \A j \in DOMAIN problems' :
              problems'[j].source \in Nat /\ j \in DOMAIN problems /\ problems[j].source <= problems'[j].source
        BY <1>1, <1>3 DEF Typed, Table, Problem
    <2> QED
        BY <1>1, <1>2, <1>5, <2>1, <2>2, NoReviseAdded
<1> QED
    BY <1>2, <1>6, <1>7, <1>8, <1>9, StoreSteady DEF IInv

\* The last problem makes way for a new one, whose id is nobody's.
LEMMA RemoveLastStep ==
    ASSUME IInv, NEW i \in DOMAIN problems, RemoveLast(i)
    PROVE  IInv'
<1>1. /\ Typed /\ PageWhole /\ TextsAscend
      /\ loaded /\ clock \in Nat /\ ids \in Nat /\ edits \in Nat /\ ids + 1 <= MaxIds /\ MaxIds \in Nat
      /\ Len(queue) \in Nat /\ queue \in Seq(Txn) /\ i \in 1..ids /\ i \in Ids
    BY WorkspaceAssumption DEF IInv, Typed, Table, RemoveLast, Acting, Ids
<1>2. /\ ids' = ids + 1 /\ current' = ids + 1
      /\ problems' = With(Empty, ids + 1, NewProblem)
      /\ queue' = queue \o <<Erase(i), Save(ids + 1, NewProblem)>>
      /\ UNCHANGED <<loaded, timer, disk, revisions, clock, edits, cut>>
    BY DEF RemoveLast
<1>3. NewProblem \in Problem /\ NewProblem.source = 0
    BY DEF NewProblem, Problem
<1>4. DOMAIN problems' = {ids + 1} /\ problems'[ids + 1] = NewProblem
      /\ problems' = [j \in DOMAIN problems' |-> problems'[j]]
    BY <1>2 DEF With, Empty
<1>5. /\ Erase(i) \in Txn /\ Erase(i).op = "remove" /\ Erase(i).id = i
      /\ Save(ids + 1, NewProblem) \in Txn /\ Save(ids + 1, NewProblem).op = "save"
      /\ Save(ids + 1, NewProblem).id = ids + 1
      /\ Save(ids + 1, NewProblem).problem = NewProblem
    BY <1>1, <1>3 DEF Erase, Save, Txn, Ids
<1>6. /\ queue' \in Seq(Txn) /\ Len(queue') = Len(queue) + 2
      /\ \A k \in 1..Len(queue) : queue'[k] = queue[k]
      /\ queue'[Len(queue) + 1] = Erase(i)
      /\ queue'[Len(queue) + 2] = Save(ids + 1, NewProblem)
    BY <1>1, <1>2, <1>5, QueueTwo
<1>7. \A k \in 1..Len(queue') : \/ k \in 1..Len(queue) /\ queue'[k] = queue[k] /\ queue[k].id \in 1..ids
                                \/ k = Len(queue) + 1 /\ queue'[k] = Erase(i)
                                \/ k = Len(queue) + 2 /\ queue'[k] = Save(ids + 1, NewProblem)
    BY <1>1, <1>6 DEF Typed
<1>8. Typed'
    <2>1. Table(problems)' /\ Table(disk)'
        BY <1>1, <1>2, <1>3, <1>4 DEF Typed, Table
    <2>2. \A k \in 1..Len(queue') : queue'[k].id \in 1..ids'
        BY <1>1, <1>2, <1>5, <1>7, SMTT(30)
    <2>3. timer' # None => timer' \in [id: 1..ids', problem: Problem]
        BY <1>1, <1>2 DEF Typed
    <2> QED
        BY <1>1, <1>2, <1>6, <2>1, <2>2, <2>3 DEF Typed
<1>9. PageWhole'
    BY <1>1, <1>2, <1>4 DEF PageWhole
<1>10. TextsAscend'
    <2>1. /\ ids + 1 \notin DOMAIN disk
          /\ timer # None => timer.id # ids + 1
        BY <1>1 DEF Typed, Table
    <2>2. \A k \in 1..Len(queue') : queue'[k].op = "save" =>
              \/ k \in 1..Len(queue) /\ queue'[k] = queue[k] /\ queue[k].id # ids + 1
              \/ k = Len(queue) + 2 /\ queue'[k].id = ids + 1 /\ queue'[k].problem.source = 0
        BY <1>1, <1>3, <1>5, <1>7
    <2>3. \A j, k \in 1..Len(queue') :
              j < k /\ queue'[j].op = "save" /\ queue'[k].op = "save" /\ queue'[k].id = queue'[j].id =>
                  queue'[j].problem.source <= queue'[k].problem.source
        <3> SUFFICES ASSUME NEW j \in 1..Len(queue'), NEW k \in 1..Len(queue'),
                            j < k, queue'[j].op = "save", queue'[k].op = "save",
                            queue'[k].id = queue'[j].id
                     PROVE  queue'[j].problem.source <= queue'[k].problem.source
            OBVIOUS
        <3>1. j \in 1..Len(queue) /\ queue'[j] = queue[j] /\ queue[j].id # ids + 1
            BY <1>1, <1>6, <2>2, SMTT(30)
        <3>2. k \in 1..Len(queue) /\ queue'[k] = queue[k]
            BY <2>2, <3>1
        <3> QED
            BY <1>1, <3>1, <3>2 DEF TextsAscend, Saves
    <2>4. /\ \A j \in DOMAIN problems' : problems'[j].source = 0
          /\ timer # None => timer.id \notin DOMAIN problems'
          /\ DOMAIN disk \cap DOMAIN problems' = {}
        BY <1>3, <1>4, <2>1
    <2>5. /\ \A k \in 1..Len(queue') : queue'[k].op = "save" => queue'[k].problem.source <= edits
          /\ \A j \in DOMAIN disk : \A k \in 1..Len(queue') :
                 queue'[k].op = "save" /\ queue'[k].id = j => disk[j].source <= queue'[k].problem.source
          /\ timer # None => \A k \in 1..Len(queue') :
                 queue'[k].op = "save" /\ queue'[k].id = timer.id =>
                     queue'[k].problem.source <= timer.problem.source
        <3>1. ASSUME NEW k \in 1..Len(queue'), queue'[k].op = "save"
              PROVE  queue'[k].problem.source <= edits
            BY <1>1, <2>2, <3>1 DEF TextsAscend
        <3>2. ASSUME NEW k \in 1..Len(queue'), queue'[k].op = "save", queue'[k].id # ids + 1
              PROVE  k \in 1..Len(queue) /\ queue'[k] = queue[k] /\ Saves(k, queue'[k].id)
            BY <2>2, <3>2 DEF Saves
        <3> QED
            BY <1>1, <2>1, <3>1, <3>2 DEF TextsAscend, Saves
    <2>6. \A j \in DOMAIN problems' : \A k \in 1..Len(queue') :
              queue'[k].op = "save" /\ queue'[k].id = j => queue'[k].problem.source <= problems'[j].source
        BY <1>3, <1>4, <2>2
    <2>7. /\ \A j \in DOMAIN problems' : problems'[j].source <= edits
          /\ \A j \in DOMAIN disk : disk[j].source <= edits
          /\ timer # None => timer.problem.source <= edits
          /\ timer # None /\ timer.id \in DOMAIN disk => disk[timer.id].source <= timer.problem.source
        BY <1>1, <2>4 DEF TextsAscend
    <2> QED
        BY <1>2, <2>3, <2>4, <2>5, <2>6, <2>7 DEF TextsAscend, Saves
<1>11. Backed' /\ TimesAscend' /\ RevisionsBehind' /\ RevisesAscend' /\ PageAhead'
    <2>1. \A k \in (Len(queue) + 1)..Len(queue') : queue'[k].op # "revise"
        BY <1>1, <1>5, <1>7
    <2>2. \A j \in DOMAIN problems' : problems'[j].source \in Nat /\ j \notin 1..ids
        BY <1>1, <1>3, <1>4
    <2> QED
        BY <1>1, <1>2, <1>6, <2>1, <2>2, NoReviseAdded
<1> QED
    BY <1>2, <1>8, <1>9, <1>10, <1>11, StoreSteady DEF IInv

\* The autosave asks for a save of its text and, right behind it, a revision.
LEMMA AutosaveStep ==
    ASSUME IInv, Autosave
    PROVE  IInv'
<1> DEFINE i == timer.id
<1> DEFINE p == timer.problem
<1>1. /\ Typed /\ PageWhole /\ TextsAscend /\ Backed /\ TimesAscend
      /\ RevisionsBehind /\ RevisesAscend /\ PageAhead
      /\ clock \in Nat /\ ids \in Nat /\ edits \in Nat /\ ids \in 0..MaxIds /\ MaxIds \in Nat
      /\ Len(queue) \in Nat /\ queue \in Seq(Txn)
      /\ timer # None /\ i \in 1..ids /\ i \in Ids /\ p \in Problem /\ p.source \in Nat
    BY WorkspaceAssumption DEF IInv, Typed, Autosave, Ids, Problem
<1>2. /\ timer' = None
      /\ queue' = queue \o <<Save(i, p), Revise(i, p.source)>>
      /\ UNCHANGED <<loaded, problems, current, disk, revisions, clock, edits, ids, cut>>
    BY DEF Autosave
<1>3. /\ Save(i, p) \in Txn /\ Save(i, p).op = "save" /\ Save(i, p).id = i /\ Save(i, p).problem = p
      /\ Revise(i, p.source) \in Txn /\ Revise(i, p.source).op = "revise"
      /\ Revise(i, p.source).id = i /\ Revise(i, p.source).source = p.source
      /\ Revise(i, p.source).now = clock
    BY <1>1 DEF Save, Revise, Txn
<1> HIDE DEF i, p
<1>4. /\ queue' \in Seq(Txn) /\ Len(queue') = Len(queue) + 2
      /\ \A k \in 1..Len(queue) : queue'[k] = queue[k]
      /\ queue'[Len(queue) + 1] = Save(i, p)
      /\ queue'[Len(queue) + 2] = Revise(i, p.source)
    BY <1>1, <1>2, <1>3, QueueTwo
<1>5. \A k \in 1..Len(queue') : \/ k \in 1..Len(queue) /\ queue'[k] = queue[k]
                                \/ k = Len(queue) + 1 /\ queue'[k] = Save(i, p)
                                \/ k = Len(queue) + 2 /\ queue'[k] = Revise(i, p.source)
    BY <1>1, <1>4
<1>6. Typed'
    <2>1. \A k \in 1..Len(queue') : queue'[k].id \in 1..ids'
        BY <1>1, <1>2, <1>3, <1>5 DEF Typed
    <2> QED
        BY <1>1, <1>2, <1>4, <2>1 DEF Typed, Table
<1>7. PageWhole'
    BY <1>1, <1>2 DEF PageWhole
<1>8. TextsAscend'
    <2>1. \A k \in 1..Len(queue') : queue'[k].op = "save" =>
              \/ k \in 1..Len(queue) /\ queue'[k] = queue[k]
              \/ k = Len(queue) + 1 /\ queue'[k].id = i /\ queue'[k].problem.source = p.source
        BY <1>1, <1>3, <1>5
    <2>2. /\ p.source <= edits
          /\ i \in DOMAIN problems => p.source = problems[i].source
          /\ i \in DOMAIN disk => disk[i].source <= p.source
          /\ \A k \in 1..Len(queue) : Saves(k, i) => queue[k].problem.source <= p.source
        BY <1>1 DEF TextsAscend, i, p
    <2>3. \A j \in DOMAIN problems : problems[j].source \in Nat
        BY <1>1 DEF Typed, Table, Problem
    <2>4. \A j, k \in 1..Len(queue') :
              j < k /\ queue'[j].op = "save" /\ queue'[k].op = "save" /\ queue'[k].id = queue'[j].id =>
                  queue'[j].problem.source <= queue'[k].problem.source
        BY <1>1, <2>1, <2>2 DEF TextsAscend, Saves
    <2>5. /\ \A k \in 1..Len(queue') : queue'[k].op = "save" => queue'[k].problem.source <= edits
          /\ \A j \in DOMAIN disk : \A k \in 1..Len(queue') :
                 queue'[k].op = "save" /\ queue'[k].id = j => disk[j].source <= queue'[k].problem.source
          /\ \A j \in DOMAIN problems : \A k \in 1..Len(queue') :
                 queue'[k].op = "save" /\ queue'[k].id = j => queue'[k].problem.source <= problems[j].source
        <3>1. \A k \in 1..Len(queue') : queue'[k].op = "save" => queue'[k].problem.source <= edits
            BY <1>1, <2>1, <2>2 DEF TextsAscend
        <3>2. \A j \in DOMAIN disk : \A k \in 1..Len(queue') :
                  queue'[k].op = "save" /\ queue'[k].id = j => disk[j].source <= queue'[k].problem.source
            BY <1>1, <2>1, <2>2 DEF TextsAscend, Saves
        <3>3. \A j \in DOMAIN problems : \A k \in 1..Len(queue') :
                  queue'[k].op = "save" /\ queue'[k].id = j => queue'[k].problem.source <= problems[j].source
            BY <1>1, <2>1, <2>2, <2>3 DEF TextsAscend, Saves
        <3> QED
            BY <3>1, <3>2, <3>3
    <2> QED
        BY <1>1, <1>2, <2>4, <2>5 DEF TextsAscend, Saves
<1>9. Backed'
    <2> SUFFICES ASSUME NEW k \in 1..Len(queue'), queue'[k].op = "revise"
                 PROVE  BackedIn(queue', k)
        BY <1>2, BackedThen DEF Backed
    <2>1. CASE k \in 1..Len(queue)
        <3>1. \A e \in 1..k : queue'[e] = queue[e]
            BY <1>1, <1>4, <2>1
        <3>2. k \in Nat \ {0} /\ queue[k].op = "revise"
            BY <2>1, <3>1
        <3> QED
            BY <1>1, <2>1, <3>1, <3>2, BackedPrefix DEF Backed
    <2>2. CASE k = Len(queue) + 2
        <3>1. /\ Len(queue) + 1 \in 1..(k - 1)
              /\ \A e \in (Len(queue) + 1 + 1)..(k - 1) : FALSE
            BY <1>1, <2>2
        <3>2. /\ queue'[k].id = i /\ queue'[k].source = p.source
              /\ queue'[Len(queue) + 1].op = "save" /\ queue'[Len(queue) + 1].id = i
              /\ queue'[k].source <= queue'[Len(queue) + 1].problem.source
            BY <1>1, <1>3, <1>4, <2>2
        <3> QED
            BY <3>1, <3>2 DEF BackedIn
    <2> QED
        BY <1>3, <1>5, <2>1, <2>2
<1>10. TimesAscend'
    <2>1. \A k \in 1..Len(queue') : queue'[k].op = "revise" =>
              \/ k \in 1..Len(queue) /\ queue'[k] = queue[k]
              \/ k = Len(queue) + 2 /\ queue'[k].now = clock
        BY <1>1, <1>3, <1>5 DEF TimesAscend
    <2>2. \A j, k \in 1..Len(queue') :
              j < k /\ queue'[j].op = "revise" /\ queue'[k].op = "revise" =>
                  queue'[j].now <= queue'[k].now
        BY <1>1, <2>1 DEF TimesAscend
    <2>3. /\ \A k \in 1..Len(queue') : queue'[k].op = "revise" => queue'[k].now <= clock
          /\ \A r \in revisions : \A k \in 1..Len(queue') :
                 queue'[k].op = "revise" => r.savedAt <= queue'[k].now
        BY <1>1, <2>1 DEF TimesAscend
    <2> QED
        BY <1>1, <1>2, <2>2, <2>3 DEF TimesAscend
<1>11. RevisionsBehind'
    <2>1. ASSUME NEW j, NEW n, WillHold(j, n)
          PROVE  WillHold(j, n)'
        <3>1. PICK k \in 1..Len(queue) : Saves(k, j) /\ n <= queue[k].problem.source
            BY <2>1 DEF WillHold
        <3>2. k \in 1..Len(queue') /\ queue'[k] = queue[k]
            BY <1>1, <1>4
        <3> QED
            BY <3>1, <3>2 DEF WillHold, Saves
    <2> QED
        BY <1>1, <1>2, <2>1 DEF RevisionsBehind, Holds
<1>12. RevisesAscend' /\ PageAhead'
    <2>1. \A k \in 1..Len(queue') : queue'[k].op = "revise" =>
              \/ k \in 1..Len(queue) /\ queue'[k] = queue[k]
              \/ k = Len(queue) + 2 /\ queue'[k].id = i /\ queue'[k].source = p.source
        BY <1>3, <1>5
    <2>2. /\ \A k \in 1..Len(queue) : Revises(k, i) => queue[k].source <= p.source
          /\ \A r \in revisions : r.problem \notin cut /\ r.problem = i => r.source <= p.source
          /\ i \in DOMAIN problems => p.source <= problems[i].source
        BY <1>1 DEF PageAhead, TextsAscend, Revises, i, p
    <2>3. RevisesAscend'
        <3>1. \A j, k \in 1..Len(queue') :
                  j < k /\ queue'[j].op = "revise" /\ queue'[k].op = "revise" /\ queue'[k].id = queue'[j].id =>
                      queue'[j].source <= queue'[k].source
            BY <1>1, <2>1, <2>2 DEF RevisesAscend, Revises
        <3>2. \A r \in revisions : r.problem \notin cut =>
                  \A k \in 1..Len(queue') :
                      queue'[k].op = "revise" /\ queue'[k].id = r.problem => r.source <= queue'[k].source
            BY <1>1, <2>1, <2>2 DEF RevisesAscend, Revises
        <3> QED
            BY <1>2, <3>1, <3>2 DEF RevisesAscend, Revises
    <2>4. PageAhead'
        BY <1>1, <1>2, <2>1, <2>2 DEF PageAhead
    <2> QED
        BY <2>3, <2>4
<1> QED
    BY <1>2, <1>6, <1>7, <1>8, <1>9, <1>10, <1>11, <1>12, StoreSteady DEF IInv

\* Opening another problem of the list moves nothing else.
LEMMA SelectStep ==
    ASSUME IInv, NEW i \in DOMAIN problems, Select(i)
    PROVE  IInv'
<1>1. /\ current' = i
      /\ UNCHANGED <<loaded, problems, timer, queue, disk, revisions, clock, edits, ids, cut>>
    BY DEF Select, diskVars
<1>2. Typed' /\ PageWhole' /\ TextsAscend'
    BY <1>1 DEF IInv, Typed, Table, PageWhole, TextsAscend, Saves
<1>3. clock' \in Nat /\ clock' >= clock
    BY <1>1 DEF IInv, Typed
<1> QED
    BY <1>1, <1>2, <1>3, QueueSteady, StoreSteady DEF IInv

\* A loaded page starts from the texts on disk, with nothing asked for.
LEMMA LoadStep ==
    ASSUME IInv, Load
    PROVE  IInv'
<1>1. /\ Typed /\ PageWhole /\ TextsAscend /\ ~loaded /\ timer = None /\ queue = << >>
    BY DEF IInv, PageWhole, Load
<1>2. /\ loaded' = TRUE /\ problems' = disk /\ current' \in DOMAIN disk
      /\ UNCHANGED <<timer, queue, disk, revisions, clock, edits, ids, cut>>
    BY DEF Load, diskVars
<1>3. Typed' /\ PageWhole'
    BY <1>1, <1>2 DEF Typed, Table, PageWhole
<1>4. TextsAscend'
    <2>1. \A i \in DOMAIN disk : disk[i].source \in Nat
        BY <1>1 DEF Typed, Table, Problem
    <2> QED
        BY <1>1, <1>2, <2>1 DEF TextsAscend, Saves
<1>5. Backed' /\ TimesAscend' /\ RevisionsBehind' /\ RevisesAscend'
    BY <1>1, <1>2 DEF IInv, Backed, TimesAscend, RevisionsBehind, RevisesAscend, Holds, WillHold
<1>6. PageAhead'
    <2>1. \A r \in revisions : r.problem \notin cut => Holds(r.problem, r.source)
        BY <1>1 DEF IInv, RevisionsBehind, WillHold
    <2> QED
        BY <1>1, <1>2, <2>1 DEF PageAhead, Holds
<1> QED
    BY <1>2, <1>3, <1>4, <1>5, <1>6, StoreSteady DEF IInv

\* On an empty disk a revision is one that a close left behind; a first problem is
\* put there, which has none.
LEMMA LoadFirstStep ==
    ASSUME IInv, LoadFirst
    PROVE  IInv'
<1>1. /\ Typed /\ PageWhole /\ TextsAscend /\ TimesAscend /\ RevisionsBehind /\ Capped
      /\ ~loaded /\ timer = None /\ queue = << >> /\ disk = Empty
      /\ ids \in Nat /\ ids + 1 <= MaxIds /\ edits \in Nat /\ MaxIds \in Nat
    BY WorkspaceAssumption DEF IInv, Typed, PageWhole, LoadFirst
<1>2. /\ loaded' = TRUE /\ ids' = ids + 1 /\ current' = ids + 1
      /\ disk' = With(Empty, ids + 1, NewProblem)
      /\ problems' = With(Empty, ids + 1, NewProblem)
      /\ UNCHANGED <<timer, queue, revisions, clock, edits, cut>>
    BY DEF LoadFirst
<1>3. NewProblem \in Problem /\ NewProblem.source = 0
    BY DEF NewProblem, Problem
<1>4. /\ DOMAIN problems' = {ids + 1} /\ problems'[ids + 1] = NewProblem
      /\ problems' = [j \in DOMAIN problems' |-> problems'[j]]
      /\ disk' = problems'
    BY <1>2 DEF With, Empty
<1>5. \A r \in revisions : r.problem \in cut /\ r.problem \in 1..ids
    <2>1. \A r \in revisions : ~Holds(r.problem, r.source) /\ ~WillHold(r.problem, r.source)
        BY <1>1 DEF Holds, WillHold, Empty
    <2> QED
        BY <1>1, <2>1 DEF RevisionsBehind, Typed
<1>6. Typed' /\ PageWhole'
    <2>1. Table(problems)' /\ Table(disk)'
        BY <1>1, <1>2, <1>3, <1>4 DEF Table
    <2> QED
        BY <1>1, <1>2, <1>4, <2>1 DEF Typed, PageWhole
<1>7. TextsAscend' /\ Backed'
    BY <1>1, <1>2, <1>3, <1>4 DEF TextsAscend, Saves, Backed
<1>8. TimesAscend' /\ RevisionsBehind' /\ RevisesAscend' /\ PageAhead'
    BY <1>1, <1>2, <1>5 DEF TimesAscend, RevisionsBehind, RevisesAscend, PageAhead
<1> QED
    BY <1>2, <1>6, <1>7, <1>8, StoreSteady DEF IInv

\* A page that goes takes its timer and its queue along.
LEMMA CloseStep ==
    ASSUME IInv, Close
    PROVE  IInv'
<1>1. /\ loaded' = FALSE /\ problems' = Empty /\ timer' = None /\ queue' = << >>
      /\ cut' = cut \cup Saving
      /\ UNCHANGED <<current, disk, revisions, clock, edits, ids>>
    BY DEF Close
<1>2. Typed' /\ PageWhole'
    <2>1. Table(problems)' /\ Table(disk)'
        BY <1>1 DEF IInv, Typed, Table, Empty
    <2>2. queue' \in Seq(Txn) /\ Len(queue') = 0
        BY <1>1
    <2>3. cut' \subseteq 1..ids
        <3>1. Pending \subseteq {queue[k] : k \in 1..Len(queue)}
            BY DEF Pending, IInv, Typed
        <3>2. cut' \subseteq 1..ids
            <4>1. \A t \in Pending : t.id \in 1..ids
                BY <3>1 DEF IInv, Typed
            <4>2. cut \subseteq 1..ids
                BY DEF IInv, Typed
            <4> QED
                BY <1>1, <4>1, <4>2 DEF Saving
        <3> QED
            BY <3>2
    <2>4. /\ ids \in 0..MaxIds /\ clock \in Nat /\ edits \in Nat
          /\ revisions \subseteq Revision /\ IsFiniteSet(revisions)
          /\ \A r \in revisions : r.problem \in 1..ids
        BY DEF IInv, Typed
    <2>5. Typed'
        <3>1. loaded' \in BOOLEAN
            BY <1>1
        <3>2. \A k \in 1..Len(queue') : queue'[k].id \in 1..ids'
            BY <2>2
        <3> QED
            BY <1>1, <2>1, <2>2, <2>3, <2>4, <3>1, <3>2 DEF Typed
    <2>6. PageWhole'
        BY <1>1 DEF PageWhole
    <2> QED
        BY <2>5, <2>6
<1>3. TextsAscend' /\ Backed' /\ TimesAscend' /\ RevisesAscend' /\ PageAhead'
    BY <1>1 DEF IInv, TextsAscend, Backed, TimesAscend, RevisesAscend, PageAhead, Empty, Saves
<1>4. RevisionsBehind'
    <2> SUFFICES ASSUME NEW r \in revisions, r.problem \notin cut'
                 PROVE  Holds(r.problem, r.source)'
        BY <1>1 DEF RevisionsBehind
    <2>1. ~WillHold(r.problem, r.source)
        <3>1. \A k \in 1..Len(queue) : queue[k] \in Pending
            BY DEF Pending, IInv, Typed
        <3> QED
            BY <1>1, <3>1 DEF Saving, WillHold, Saves
    <2> QED
        BY <1>1, <2>1 DEF IInv, RevisionsBehind, Holds
<1> QED
    BY <1>1, <1>2, <1>3, <1>4, StoreSteady DEF IInv

\* The clock goes on.
LEMMA TickStep ==
    ASSUME IInv, Tick
    PROVE  IInv'
<1>1. /\ clock' = clock + 1
      /\ UNCHANGED <<loaded, problems, current, timer, queue, disk, revisions, edits, ids, cut>>
    BY DEF Tick, pageVars, diskVars
<1>2. clock \in Nat /\ clock' \in Nat /\ clock' >= clock
    BY <1>1 DEF IInv, Typed
<1>3. Typed' /\ PageWhole' /\ TextsAscend'
    BY <1>1, <1>2 DEF IInv, Typed, Table, PageWhole, TextsAscend, Saves
<1> QED
    BY <1>1, <1>2, <1>3, QueueSteady, StoreSteady DEF IInv

-----------------------------------------------------------------------------
(* Steps of the store.                                                      *)

\* Where a transaction stood before the one at m was taken out, and where one
\* stands then.
Was(m, k) == IF k < m THEN k ELSE k + 1
Stands(m, j) == IF j < m THEN j ELSE j - 1

\* The two are inverse, and keep the order.
LEMMA Places ==
    ASSUME NEW n \in Nat, NEW m \in 1..n
    PROVE  /\ \A k \in 1..(n - 1) : Was(m, k) \in 1..n /\ Was(m, k) # m
           /\ \A j \in 1..n : j # m => Stands(m, j) \in 1..(n - 1) /\ Was(m, Stands(m, j)) = j
           /\ \A j, k \in 1..(n - 1) : j < k <=> Was(m, j) < Was(m, k)
BY DEF Was, Stands

\* What stood in front of a transaction stands in front of it, in the same order.
LEMMA PlacesInFront ==
    ASSUME NEW n \in Nat, NEW m \in 1..n, NEW k \in 1..(n - 1)
    PROVE  /\ \A e \in 1..(k - 1) :
                  e \in 1..(n - 1) /\ Was(m, e) \in 1..(Was(m, k) - 1) /\ Was(m, e) # m
           /\ \A j \in 1..(Was(m, k) - 1) : j # m =>
                  /\ j \in 1..n /\ Stands(m, j) \in 1..(k - 1)
                  /\ \A e \in (Stands(m, j) + 1)..(k - 1) :
                         e \in 1..(k - 1) /\ Was(m, e) \in (j + 1)..(Was(m, k) - 1)
<1>1. ASSUME NEW e \in 1..(k - 1)
      PROVE  e \in 1..(n - 1) /\ Was(m, e) \in 1..(Was(m, k) - 1) /\ Was(m, e) # m
    BY DEF Was
<1>2. ASSUME NEW j \in 1..(Was(m, k) - 1), j # m
      PROVE  /\ j \in 1..n /\ Stands(m, j) \in 1..(k - 1)
             /\ \A e \in (Stands(m, j) + 1)..(k - 1) :
                    e \in 1..(k - 1) /\ Was(m, e) \in (j + 1)..(Was(m, k) - 1)
    BY <1>2 DEF Was, Stands
<1> QED
    BY <1>1, <1>2

\* What is left in the queue when the transaction at m commits.
LEMMA QueueWithout ==
    ASSUME Typed, NEW m \in 1..Len(queue),
           queue' = SubSeq(queue, 1, m - 1) \o SubSeq(queue, m + 1, Len(queue))
    PROVE  /\ Len(queue) \in Nat /\ Len(queue') \in Nat
           /\ Len(queue') = Len(queue) - 1 /\ queue' \in Seq(Txn)
           /\ \A k \in 1..Len(queue') :
                  Was(m, k) \in 1..Len(queue) /\ Was(m, k) # m /\ queue'[k] = queue[Was(m, k)]
           /\ \A j \in 1..Len(queue) : j # m =>
                  /\ Stands(m, j) \in 1..Len(queue') /\ queue'[Stands(m, j)] = queue[j]
                  /\ Was(m, Stands(m, j)) = j
           /\ \A j, k \in 1..Len(queue') : j < k <=> Was(m, j) < Was(m, k)
<1>1. queue \in Seq(Txn) /\ Len(queue) \in Nat /\ m \in Nat
    BY DEF Typed
<1>2. /\ queue' \in Seq(Txn) /\ Len(queue') = Len(queue) - 1
      /\ \A k \in 1..(Len(queue) - 1) : queue'[k] = queue[Was(m, k)]
    BY <1>1, Omitted DEF Was
<1>3. /\ \A k \in 1..(Len(queue) - 1) : Was(m, k) \in 1..Len(queue) /\ Was(m, k) # m
      /\ \A j \in 1..Len(queue) : j # m =>
             Stands(m, j) \in 1..(Len(queue) - 1) /\ Was(m, Stands(m, j)) = j
      /\ \A j, k \in 1..(Len(queue) - 1) : j < k <=> Was(m, j) < Was(m, k)
    BY <1>1, Places
<1>4. Len(queue') \in Nat
    <2>1. Len(queue) - 1 \in Nat
        BY <1>1
    <2> QED
        BY <1>2, <2>1
<1>5. \A j \in 1..Len(queue) : j # m => queue'[Stands(m, j)] = queue[j]
    BY <1>2, <1>3
<1> QED
    BY <1>1, <1>2, <1>3, <1>4, <1>5

\* The same for what stands in front of a transaction.
LEMMA FrontWithout ==
    ASSUME Typed, NEW m \in 1..Len(queue),
           queue' = SubSeq(queue, 1, m - 1) \o SubSeq(queue, m + 1, Len(queue)),
           NEW k \in 1..Len(queue')
    PROVE  /\ \A e \in 1..(k - 1) :
                  /\ Was(m, e) \in 1..(Was(m, k) - 1) /\ Was(m, e) # m
                  /\ queue'[e] = queue[Was(m, e)]
           /\ \A j \in 1..(Was(m, k) - 1) : j # m =>
                  /\ Stands(m, j) \in 1..(k - 1) /\ queue'[Stands(m, j)] = queue[j]
                  /\ \A e \in (Stands(m, j) + 1)..(k - 1) : Was(m, e) \in (j + 1)..(Was(m, k) - 1)
<1>1. Len(queue) \in Nat /\ Len(queue') = Len(queue) - 1 /\ k \in 1..(Len(queue) - 1)
    BY QueueWithout
<1>2. \A e \in 1..(k - 1) :
          /\ e \in 1..Len(queue') /\ Was(m, e) \in 1..(Was(m, k) - 1) /\ Was(m, e) # m
    BY <1>1, PlacesInFront
<1>3. \A j \in 1..(Was(m, k) - 1) : j # m =>
          /\ j \in 1..Len(queue) /\ Stands(m, j) \in 1..(k - 1)
          /\ \A e \in (Stands(m, j) + 1)..(k - 1) : Was(m, e) \in (j + 1)..(Was(m, k) - 1)
    BY <1>1, PlacesInFront
<1> QED
    BY <1>2, <1>3, QueueWithout

\* A save overtakes revisions alone, a revision saves alone, a removal nothing.
LEMMA Overtakes ==
    ASSUME Typed, NEW m \in 1..Len(queue), MayCommit(m)
    PROVE  /\ queue[m].op = "save" => \A j \in 1..(m - 1) : queue[j].op = "revise"
           /\ queue[m].op = "revise" => \A j \in 1..(m - 1) : queue[j].op = "save"
           /\ queue[m].op = "remove" => m = 1
<1>1. \A j \in 1..m : queue[j].op \in {"save", "revise", "remove"}
    <2>1. \A j \in 1..m : j \in 1..Len(queue)
        BY DEF Typed
    <2> QED
        BY <2>1, QueueTyped DEF Txn
<1>2. \A j \in 1..(m - 1) : j \in 1..m /\ Scope(queue[j]) \cap Scope(queue[m]) = {}
    BY DEF MayCommit
<1>3. m \in 1..m
    OBVIOUS
<1>4. /\ queue[m].op = "save" => \A j \in 1..(m - 1) : queue[j].op = "revise"
      /\ queue[m].op = "revise" => \A j \in 1..(m - 1) : queue[j].op = "save"
    BY <1>1, <1>2, <1>3 DEF Scope
<1>5. queue[m].op = "remove" => \A j \in 1..(m - 1) : FALSE
    BY <1>1, <1>2, <1>3 DEF Scope
<1>6. m # 1 => m - 1 \in 1..(m - 1)
    OBVIOUS
<1> QED
    BY <1>4, <1>5, <1>6

\* A save under way stays under way until it is the one that commits.
LEMMA StillToHold ==
    ASSUME Typed, NEW m \in 1..Len(queue),
           queue' = SubSeq(queue, 1, m - 1) \o SubSeq(queue, m + 1, Len(queue)),
           NEW i, NEW n, WillHold(i, n),
           ~(Saves(m, i) /\ n <= queue[m].problem.source)
    PROVE  WillHold(i, n)'
<1>1. PICK k \in 1..Len(queue) : Saves(k, i) /\ n <= queue[k].problem.source
    BY DEF WillHold
<1>2. Stands(m, k) \in 1..Len(queue') /\ queue'[Stands(m, k)] = queue[k]
    BY <1>1, QueueWithout
<1> QED
    BY <1>1, <1>2 DEF WillHold, Saves

\* The disk keeps its texts but the one that m removes, and has the one m saves.
KeepsTexts(m) ==
    /\ \A i : \A n \in Nat : Holds(i, n) /\ ~(queue[m].op = "remove" /\ queue[m].id = i) => Holds(i, n)'
    /\ \A i : \A n \in Nat : Saves(m, i) /\ n <= queue[m].problem.source => Holds(i, n)'

\* What is under way stays backed when a transaction commits in front of it.
LEMMA BackedStays ==
    ASSUME IInv, NEW m \in 1..Len(queue), MayCommit(m), KeepsTexts(m),
           queue' = SubSeq(queue, 1, m - 1) \o SubSeq(queue, m + 1, Len(queue))
    PROVE  Backed'
<1> SUFFICES ASSUME NEW k \in 1..Len(queue'), queue'[k].op = "revise"
             PROVE  BackedIn(queue, k)'
    BY DEF Backed
<1> DEFINE w == Was(m, k)
<1> PICK i, n : i = queue[w].id /\ n = queue[w].source
    OBVIOUS
<1> DEFINE Gone(e) == queue[e].op = "remove" /\ queue[e].id = i
<1> DEFINE GoneNow(e) == queue'[e].op = "remove" /\ queue'[e].id = i
<1>1. /\ Typed /\ Backed
      /\ w \in 1..Len(queue) /\ w # m /\ queue'[k] = queue[w]
    BY QueueWithout DEF IInv
<1>2. BackedIn(queue, w) /\ n \in Nat
    <2>1. queue[w].op = "revise"
        BY <1>1
    <2> QED
        BY <1>1, <2>1, QueueTyped DEF Backed
<1>3. \A e \in 1..(k - 1) : Was(m, e) \in 1..(w - 1) /\ Was(m, e) # m /\ queue'[e] = queue[Was(m, e)]
    BY <1>1, FrontWithout
<1>4. ASSUME NEW j \in 1..(w - 1), j # m
      PROVE  /\ Stands(m, j) \in 1..(k - 1) /\ queue'[Stands(m, j)] = queue[j]
             /\ \A e \in (Stands(m, j) + 1)..(k - 1) :
                    Was(m, e) \in (j + 1)..(w - 1) /\ queue'[e] = queue[Was(m, e)]
    <2>1. /\ Stands(m, j) \in 1..(k - 1) /\ queue'[Stands(m, j)] = queue[j]
          /\ \A e \in (Stands(m, j) + 1)..(k - 1) : Was(m, e) \in (j + 1)..(w - 1)
        BY <1>1, <1>4, FrontWithout
    <2>2. \A e \in (Stands(m, j) + 1)..(k - 1) : e \in 1..(k - 1)
        BY <2>1
    <2> QED
        BY <1>3, <2>1, <2>2
<1>5. ASSUME Holds(i, n), \A e \in 1..(w - 1) : ~Gone(e)
      PROVE  Holds(i, n)' /\ \A e \in 1..(k - 1) : ~GoneNow(e)
    <2>1. \A e \in 1..(k - 1) : ~GoneNow(e)
        BY <1>3, <1>5
    <2>2. ~(queue[m].op = "remove" /\ queue[m].id = i)
        <3>1. ASSUME queue[m].op = "remove"
              PROVE  m \in 1..(w - 1)
            <4>1. m = 1 /\ w \in 1..Len(queue) /\ w # 1
                BY <1>1, <3>1, Overtakes
            <4> QED
                BY <4>1
        <3> QED
            BY <1>5, <3>1
    <2>3. Holds(i, n)'
        BY <1>2, <1>5, <2>2 DEF KeepsTexts
    <2> QED
        BY <2>1, <2>3
<1>6. ASSUME NEW j \in 1..(w - 1), queue[j].op = "save", queue[j].id = i,
             n <= queue[j].problem.source, \A e \in (j + 1)..(w - 1) : ~Gone(e)
      PROVE  \/ Holds(i, n)' /\ \A e \in 1..(k - 1) : ~GoneNow(e)
             \/ \E v \in 1..(k - 1) :
                    /\ queue'[v].op = "save" /\ queue'[v].id = i /\ n <= queue'[v].problem.source
                    /\ \A e \in (v + 1)..(k - 1) : ~GoneNow(e)
    <2>1. CASE j # m
        BY <1>4, <1>6, <2>1
    <2>2. CASE j = m
        <3>1. Holds(i, n)'
            BY <1>2, <1>6, <2>2 DEF KeepsTexts, Saves
        <3>2. ASSUME NEW e \in 1..(k - 1)
              PROVE  ~GoneNow(e)
            <4>1. Was(m, e) \in 1..(w - 1) /\ Was(m, e) # m /\ queue'[e] = queue[Was(m, e)]
                BY <1>3
            <4>2. Was(m, e) \in 1..(m - 1) \/ Was(m, e) \in (m + 1)..(w - 1)
                BY <1>1, <4>1
            <4>3. Was(m, e) \in 1..(m - 1) => queue[Was(m, e)].op = "revise"
                BY <1>1, <1>6, <2>2, Overtakes
            <4> QED
                BY <1>6, <2>2, <4>1, <4>2, <4>3
        <3> QED
            BY <3>1, <3>2
    <2> QED
        BY <2>1, <2>2
<1>7. \/ Holds(i, n)' /\ \A e \in 1..(k - 1) : ~GoneNow(e)
      \/ \E j \in 1..(k - 1) :
             /\ queue'[j].op = "save" /\ queue'[j].id = i /\ n <= queue'[j].problem.source
             /\ \A e \in (j + 1)..(k - 1) : ~GoneNow(e)
    <2>1. \/ Holds(i, n) /\ \A e \in 1..(w - 1) : ~Gone(e)
          \/ \E j \in 1..(w - 1) :
                 /\ queue[j].op = "save" /\ queue[j].id = i /\ n <= queue[j].problem.source
                 /\ \A e \in (j + 1)..(w - 1) : ~Gone(e)
        BY <1>2 DEF BackedIn
    <2> HIDE DEF w, Gone, GoneNow
    <2> QED
        BY <1>5, <1>6, <2>1
<1>8. /\ queue'[k].id = i /\ queue'[k].source = n
    BY <1>1
<1>9. CASE Holds(i, n)' /\ \A e \in 1..(k - 1) : ~GoneNow(e)
    BY <1>8, <1>9 DEF BackedIn, Holds
<1>10. CASE \E j \in 1..(k - 1) :
               /\ queue'[j].op = "save" /\ queue'[j].id = i /\ n <= queue'[j].problem.source
               /\ \A e \in (j + 1)..(k - 1) : ~GoneNow(e)
    <2>1. PICK j \in 1..(k - 1) :
               /\ queue'[j].op = "save" /\ queue'[j].id = i /\ n <= queue'[j].problem.source
               /\ \A e \in (j + 1)..(k - 1) : ~GoneNow(e)
        BY <1>10
    <2>2. \A e \in (j + 1)..(k - 1) : ~(queue'[e].op = "remove" /\ queue'[e].id = queue'[k].id)
        BY <1>8, <2>1
    <2>3. queue'[j].op = "save" /\ queue'[j].id = queue'[k].id
          /\ queue'[k].source <= queue'[j].problem.source
        BY <1>8, <2>1
    <2> QED
        BY <2>2, <2>3 DEF BackedIn
<1> QED
    BY <1>7, <1>9, <1>10

\* What is under way stays in order when a transaction is taken out.
LEMMA StillInOrder ==
    ASSUME IInv, NEW m \in 1..Len(queue),
           queue' = SubSeq(queue, 1, m - 1) \o SubSeq(queue, m + 1, Len(queue))
    PROVE  /\ \A k \in 1..Len(queue') : queue'[k].op = "revise" =>
                  /\ queue'[k].now <= clock
                  /\ queue'[k].id \in DOMAIN problems => queue'[k].source <= problems[queue'[k].id].source
                  /\ timer # None /\ timer.id = queue'[k].id => queue'[k].source <= timer.problem.source
                  /\ \A r \in revisions :
                         /\ r.savedAt <= queue'[k].now
                         /\ r.problem \notin cut /\ queue'[k].id = r.problem => r.source <= queue'[k].source
           /\ \A j, k \in 1..Len(queue') :
                  j < k /\ queue'[j].op = "revise" /\ queue'[k].op = "revise" =>
                      /\ queue'[j].now <= queue'[k].now
                      /\ queue'[k].id = queue'[j].id => queue'[j].source <= queue'[k].source
<1>1. /\ TimesAscend /\ RevisesAscend /\ PageAhead
      /\ \A k \in 1..Len(queue') : Was(m, k) \in 1..Len(queue) /\ queue'[k] = queue[Was(m, k)]
      /\ \A j, k \in 1..Len(queue') : j < k <=> Was(m, j) < Was(m, k)
    BY QueueWithout DEF IInv
<1>2. ASSUME NEW k \in 1..Len(queue'), queue'[k].op = "revise"
      PROVE  /\ queue'[k].now <= clock
             /\ queue'[k].id \in DOMAIN problems => queue'[k].source <= problems[queue'[k].id].source
             /\ timer # None /\ timer.id = queue'[k].id => queue'[k].source <= timer.problem.source
             /\ \A r \in revisions :
                    /\ r.savedAt <= queue'[k].now
                    /\ r.problem \notin cut /\ queue'[k].id = r.problem => r.source <= queue'[k].source
    <2>1. Was(m, k) \in 1..Len(queue) /\ queue'[k] = queue[Was(m, k)]
        BY <1>1
    <2> QED
        BY <1>1, <1>2, <2>1 DEF TimesAscend, RevisesAscend, PageAhead, Revises
<1>3. ASSUME NEW j \in 1..Len(queue'), NEW k \in 1..Len(queue'), j < k,
             queue'[j].op = "revise", queue'[k].op = "revise"
      PROVE  /\ queue'[j].now <= queue'[k].now
             /\ queue'[k].id = queue'[j].id => queue'[j].source <= queue'[k].source
    <2>1. /\ Was(m, j) \in 1..Len(queue) /\ Was(m, k) \in 1..Len(queue) /\ Was(m, j) < Was(m, k)
          /\ queue'[j] = queue[Was(m, j)] /\ queue'[k] = queue[Was(m, k)]
        BY <1>1, <1>3
    <2>2. queue'[k].id = queue'[j].id => Revises(Was(m, k), queue[Was(m, j)].id)
        BY <1>3, <2>1 DEF Revises
    <2> QED
        BY <1>1, <1>3, <2>1, <2>2 DEF TimesAscend, RevisesAscend
<1> QED
    BY <1>1, <1>2, <1>3

\* And so do the revisions kept, whatever becomes of those that are not.
LEMMA OrderStays ==
    ASSUME IInv, NEW m \in 1..Len(queue),
           queue' = SubSeq(queue, 1, m - 1) \o SubSeq(queue, m + 1, Len(queue)),
           UNCHANGED <<problems, timer, clock, edits>>, revisions' \subseteq revisions,
           \A r \in revisions' : r.problem \notin cut' => r.problem \notin cut
    PROVE  TimesAscend' /\ RevisesAscend' /\ PageAhead'
<1>1. TimesAscend /\ PageAhead
    BY DEF IInv
<1>2. TimesAscend'
    BY <1>1, StillInOrder DEF TimesAscend
<1>3. RevisesAscend'
    BY StillInOrder DEF RevisesAscend, Revises
<1>4. PageAhead'
    BY <1>1, StillInOrder DEF PageAhead
<1> QED
    BY <1>2, <1>3, <1>4

\* A transaction commits: what every one of them does.
CommitAt(m) ==
    /\ MayCommit(m)
    /\ queue' = SubSeq(queue, 1, m - 1) \o SubSeq(queue, m + 1, Len(queue))
    /\ UNCHANGED <<loaded, problems, current, timer, clock, edits, ids>>

\* It leaves the page whole, and the queue well-typed and in the order of its texts.
LEMMA PageAfterCommit ==
    ASSUME IInv, NEW m \in 1..Len(queue), CommitAt(m)
    PROVE  /\ PageWhole'
           /\ queue' \in Seq(Txn) /\ \A k \in 1..Len(queue') : queue'[k].id \in 1..ids
           /\ \A k \in 1..Len(queue') : queue'[k].op = "save" =>
                  /\ queue'[k].problem.source <= edits
                  /\ queue'[k].id \in DOMAIN problems =>
                         queue'[k].problem.source <= problems[queue'[k].id].source
                  /\ timer # None /\ timer.id = queue'[k].id =>
                         queue'[k].problem.source <= timer.problem.source
                  /\ queue'[k].id \in DOMAIN disk =>
                         disk[queue'[k].id].source <= queue'[k].problem.source
           /\ \A j, k \in 1..Len(queue') :
                  j < k /\ queue'[j].op = "save" /\ queue'[k].op = "save" /\ queue'[k].id = queue'[j].id =>
                      queue'[j].problem.source <= queue'[k].problem.source
<1>1. /\ Typed /\ PageWhole /\ TextsAscend
      /\ Len(queue) \in Nat /\ queue' \in Seq(Txn)
      /\ \A k \in 1..Len(queue') : Was(m, k) \in 1..Len(queue) /\ queue'[k] = queue[Was(m, k)]
      /\ \A j, k \in 1..Len(queue') : j < k <=> Was(m, j) < Was(m, k)
    BY QueueWithout DEF IInv, CommitAt
<1>2. PageWhole'
    <2>1. queue # << >>
        BY <1>1
    <2> QED
        BY <1>1, <2>1 DEF PageWhole, CommitAt
<1>3. \A k \in 1..Len(queue') : queue'[k].id \in 1..ids
    BY <1>1 DEF Typed
<1>4. ASSUME NEW k \in 1..Len(queue'), queue'[k].op = "save"
      PROVE  /\ queue'[k].problem.source <= edits
             /\ queue'[k].id \in DOMAIN problems =>
                    queue'[k].problem.source <= problems[queue'[k].id].source
             /\ timer # None /\ timer.id = queue'[k].id =>
                    queue'[k].problem.source <= timer.problem.source
             /\ queue'[k].id \in DOMAIN disk =>
                    disk[queue'[k].id].source <= queue'[k].problem.source
    <2>1. Was(m, k) \in 1..Len(queue) /\ queue'[k] = queue[Was(m, k)] /\ Saves(Was(m, k), queue'[k].id)
        BY <1>1, <1>4 DEF Saves
    <2> QED
        BY <1>1, <1>4, <2>1 DEF TextsAscend
<1>5. ASSUME NEW j \in 1..Len(queue'), NEW k \in 1..Len(queue'),
             j < k, queue'[j].op = "save", queue'[k].op = "save", queue'[k].id = queue'[j].id
      PROVE  queue'[j].problem.source <= queue'[k].problem.source
    <2>1. /\ Was(m, j) \in 1..Len(queue) /\ Was(m, k) \in 1..Len(queue) /\ Was(m, j) < Was(m, k)
          /\ queue'[j] = queue[Was(m, j)] /\ queue'[k] = queue[Was(m, k)]
          /\ Saves(Was(m, k), queue[Was(m, j)].id)
        BY <1>1, <1>5 DEF Saves
    <2> QED
        BY <1>1, <1>5, <2>1 DEF TextsAscend
<1> QED
    BY <1>1, <1>2, <1>3, <1>4, <1>5

\* A save that commits puts a text on disk that is no older than the one there.
LEMMA SaveCommits ==
    ASSUME IInv, NEW m \in 1..Len(queue), CommitAt(m), queue[m].op = "save",
           disk' = With(disk, queue[m].id, queue[m].problem),
           UNCHANGED <<revisions, cut>>
    PROVE  /\ IInv'
           /\ \A i \in DOMAIN disk \cap DOMAIN disk' : disk[i].source <= disk'[i].source
<1> PICK t : t = queue[m]
    OBVIOUS
<1>1. /\ Typed /\ PageWhole /\ TextsAscend /\ RevisionsBehind
      /\ UNCHANGED <<loaded, problems, current, timer, clock, edits, ids>>
      /\ queue' = SubSeq(queue, 1, m - 1) \o SubSeq(queue, m + 1, Len(queue)) /\ MayCommit(m)
    BY DEF IInv, CommitAt
<1>2. t.id \in 1..ids /\ t.problem \in Problem /\ t.problem.source \in Nat
    BY <1>1, QueueTyped DEF Typed
<1>3. /\ DOMAIN disk' = DOMAIN disk \cup {t.id} /\ disk'[t.id] = t.problem
      /\ \A i \in DOMAIN disk : i # t.id => disk'[i] = disk[i]
      /\ disk' = [i \in DOMAIN disk' |-> disk'[i]]
    BY DEF With
<1>4. \A i \in DOMAIN disk : i \in DOMAIN disk' /\ disk[i].source <= disk'[i].source
                             /\ disk[i].source \in Nat /\ disk'[i].source \in Nat
    <2>1. \A i \in DOMAIN disk : disk[i].source \in Nat
        BY <1>1 DEF Typed, Table, Problem
    <2>2. t.id \in DOMAIN disk => disk[t.id].source <= t.problem.source
        BY <1>1 DEF TextsAscend, Saves
    <2> QED
        BY <1>2, <1>3, <2>1, <2>2
<1>5. Typed'
    <2>1. Table(problems)' /\ Table(disk)'
        BY <1>1, <1>2, <1>3 DEF Typed, Table
    <2> QED
        BY <1>1, <2>1, PageAfterCommit DEF Typed
<1>6. PageWhole'
    BY PageAfterCommit
<1>7. TextsAscend'
    <2>1. /\ t.problem.source <= edits
          /\ t.id \in DOMAIN problems => t.problem.source <= problems[t.id].source
          /\ timer # None /\ timer.id = t.id => t.problem.source <= timer.problem.source
        BY <1>1 DEF TextsAscend, Saves
    <2>2. /\ \A i \in DOMAIN disk' : disk'[i].source <= edits
          /\ \A i \in DOMAIN disk' \cap DOMAIN problems : disk'[i].source <= problems[i].source
          /\ timer # None /\ timer.id \in DOMAIN disk' => disk'[timer.id].source <= timer.problem.source
        BY <1>1, <1>3, <2>1 DEF TextsAscend
    <2>3. ASSUME NEW k \in 1..Len(queue'), queue'[k].op = "save", queue'[k].id = t.id
          PROVE  t.problem.source <= queue'[k].problem.source
        <3>1. /\ Was(m, k) \in 1..Len(queue) /\ Was(m, k) # m /\ queue'[k] = queue[Was(m, k)]
              /\ Len(queue) \in Nat
            BY <1>1, QueueWithout
        <3>2. m < Was(m, k)
            <4>1. Was(m, k) \notin 1..(m - 1)
                BY <1>1, <2>3, <3>1, Overtakes
            <4> QED
                BY <3>1, <4>1
        <3> QED
            BY <1>1, <2>3, <3>1, <3>2 DEF TextsAscend, Saves
    <2>4. \A i \in DOMAIN disk' : \A k \in 1..Len(queue') :
              queue'[k].op = "save" /\ queue'[k].id = i => disk'[i].source <= queue'[k].problem.source
        BY <1>3, <2>3, PageAfterCommit
    <2>5. /\ \A i \in DOMAIN problems : problems[i].source <= edits
          /\ timer # None => timer.problem.source <= edits
          /\ timer # None /\ timer.id \in DOMAIN problems => timer.problem.source = problems[timer.id].source
        BY <1>1 DEF TextsAscend
    <2> HIDE <1>3
    <2>6. /\ \A k \in 1..Len(queue') : queue'[k].op = "save" => queue'[k].problem.source <= edits
          /\ \A i \in DOMAIN problems : \A k \in 1..Len(queue') :
                 queue'[k].op = "save" /\ queue'[k].id = i => queue'[k].problem.source <= problems[i].source
          /\ timer # None => \A k \in 1..Len(queue') :
                 queue'[k].op = "save" /\ queue'[k].id = timer.id =>
                     queue'[k].problem.source <= timer.problem.source
          /\ \A j, k \in 1..Len(queue') :
                 j < k /\ queue'[j].op = "save" /\ queue'[k].op = "save" /\ queue'[k].id = queue'[j].id =>
                     queue'[j].problem.source <= queue'[k].problem.source
        BY PageAfterCommit
    <2> QED
        BY <1>1, <2>2, <2>4, <2>5, <2>6 DEF TextsAscend, Saves
<1>8. /\ \A i : \A n \in Nat : Holds(i, n) => Holds(i, n)'
      /\ \A i : \A n \in Nat : Saves(m, i) /\ n <= queue[m].problem.source => Holds(i, n)'
    BY <1>2, <1>3, <1>4 DEF Holds, Saves
<1>9. Backed'
    BY <1>1, <1>8, BackedStays DEF KeepsTexts
<1>10. RevisionsBehind'
    <2> SUFFICES ASSUME NEW r \in revisions, r.problem \notin cut
                 PROVE  Holds(r.problem, r.source)' \/ WillHold(r.problem, r.source)'
        BY DEF RevisionsBehind
    <2>1. PICK i : i = r.problem
        OBVIOUS
    <2>2. PICK n \in Nat : n = r.source
        BY <1>1 DEF Typed, Revision
    <2>3. Holds(i, n) \/ WillHold(i, n)
        BY <1>1, <2>1, <2>2 DEF RevisionsBehind
    <2>4. WillHold(i, n) => Holds(i, n)' \/ WillHold(i, n)'
        BY <1>1, <1>8, StillToHold
    <2> QED
        BY <1>8, <2>1, <2>2, <2>3, <2>4
<1>11. TimesAscend' /\ RevisesAscend' /\ PageAhead'
    BY <1>1, OrderStays
<1>12. RevisionsSpread' /\ Capped'
    BY StoreSteady
<1> QED
    BY <1>4, <1>5, <1>6, <1>7, <1>9, <1>10, <1>11, <1>12 DEF IInv

\* A removal that commits takes the problem's text and its revisions together.
LEMMA RemoveCommits ==
    ASSUME IInv, NEW m \in 1..Len(queue), CommitAt(m), queue[m].op = "remove",
           disk' = Without(disk, queue[m].id),
           revisions' = revisions \ RevisionsOf(queue[m].id),
           cut' = cut \ {queue[m].id}
    PROVE  /\ IInv'
           /\ \A i \in DOMAIN disk \cap DOMAIN disk' : disk[i].source <= disk'[i].source
<1> PICK t : t = queue[m]
    OBVIOUS
<1>1. /\ Typed /\ PageWhole /\ TextsAscend /\ TimesAscend /\ RevisionsBehind /\ RevisesAscend /\ PageAhead
      /\ RevisionsSpread /\ Capped
      /\ UNCHANGED <<loaded, problems, current, timer, clock, edits, ids>>
      /\ queue' = SubSeq(queue, 1, m - 1) \o SubSeq(queue, m + 1, Len(queue)) /\ MayCommit(m)
    BY DEF IInv, CommitAt
<1>2. /\ DOMAIN disk' = DOMAIN disk \ {t.id}
      /\ \A i \in DOMAIN disk' : i \in DOMAIN disk /\ disk'[i] = disk[i]
      /\ disk' = [i \in DOMAIN disk' |-> disk'[i]]
    BY DEF Without
<1>3. /\ revisions' \subseteq revisions /\ \A r \in revisions' : r.problem # t.id
      /\ cut' \subseteq cut /\ \A r \in revisions' : r.problem \notin cut' => r.problem \notin cut
    BY DEF RevisionsOf
<1>4. Typed'
    <2>1. Table(problems)' /\ Table(disk)'
        BY <1>1, <1>2 DEF Typed, Table
    <2>2. revisions' \subseteq Revision /\ IsFiniteSet(revisions')
        BY <1>1, <1>3, FS_Subset DEF Typed
    <2>3. cut' \subseteq 1..ids /\ \A r \in revisions' : r.problem \in 1..ids
        BY <1>1, <1>3 DEF Typed
    <2> QED
        BY <1>1, <2>1, <2>2, <2>3, PageAfterCommit DEF Typed
<1>5. PageWhole'
    BY PageAfterCommit
<1>6. TextsAscend'
    <2>1. /\ \A i \in DOMAIN problems : problems[i].source <= edits
          /\ timer # None => timer.problem.source <= edits
          /\ timer # None /\ timer.id \in DOMAIN problems => timer.problem.source = problems[timer.id].source
        BY <1>1 DEF TextsAscend
    <2>2. /\ \A i \in DOMAIN disk' : disk'[i].source <= edits
          /\ \A i \in DOMAIN disk' \cap DOMAIN problems : disk'[i].source <= problems[i].source
          /\ timer # None /\ timer.id \in DOMAIN disk' => disk'[timer.id].source <= timer.problem.source
        BY <1>1, <1>2 DEF TextsAscend
    <2>3. /\ \A k \in 1..Len(queue') : queue'[k].op = "save" => queue'[k].problem.source <= edits
          /\ \A i \in DOMAIN problems : \A k \in 1..Len(queue') :
                 queue'[k].op = "save" /\ queue'[k].id = i => queue'[k].problem.source <= problems[i].source
          /\ timer # None => \A k \in 1..Len(queue') :
                 queue'[k].op = "save" /\ queue'[k].id = timer.id =>
                     queue'[k].problem.source <= timer.problem.source
          /\ \A j, k \in 1..Len(queue') :
                 j < k /\ queue'[j].op = "save" /\ queue'[k].op = "save" /\ queue'[k].id = queue'[j].id =>
                     queue'[j].problem.source <= queue'[k].problem.source
        BY PageAfterCommit
    <2>4. \A i \in DOMAIN disk' : \A k \in 1..Len(queue') :
              queue'[k].op = "save" /\ queue'[k].id = i => disk'[i].source <= queue'[k].problem.source
        BY <1>2, PageAfterCommit
    <2> QED
        BY <1>1, <2>1, <2>2, <2>3, <2>4 DEF TextsAscend, Saves
<1>7. KeepsTexts(m)
    BY <1>2 DEF KeepsTexts, Holds, Saves
<1>8. Backed'
    BY <1>1, <1>7, BackedStays
<1>9. RevisionsBehind'
    <2> SUFFICES ASSUME NEW r \in revisions', r.problem \notin cut'
                 PROVE  Holds(r.problem, r.source)' \/ WillHold(r.problem, r.source)'
        BY DEF RevisionsBehind
    <2>1. PICK i : i = r.problem
        OBVIOUS
    <2>2. PICK n \in Nat : n = r.source
        BY <1>1, <1>3 DEF Typed, Revision
    <2>3. (Holds(i, n) \/ WillHold(i, n)) /\ i # t.id
        BY <1>1, <1>3, <2>1, <2>2 DEF RevisionsBehind
    <2>4. WillHold(i, n) => WillHold(i, n)'
        BY <1>1, StillToHold DEF Saves
    <2>5. Holds(i, n) => Holds(i, n)'
        BY <1>7, <2>3 DEF KeepsTexts
    <2> QED
        BY <2>1, <2>2, <2>3, <2>4, <2>5
<1>10. TimesAscend' /\ RevisesAscend' /\ PageAhead'
    BY <1>1, <1>3, OrderStays
<1>11. RevisionsSpread'
    BY <1>1, <1>3 DEF RevisionsSpread
<1>12. Capped'
    <2> SUFFICES ASSUME NEW i \in Ids
                 PROVE  Cardinality(RevisionsOf(i)') <= MaxRevisions
        BY DEF Capped
    <2>1. IsFiniteSet(RevisionsOf(i))
        BY <1>1, FS_Subset DEF Typed, RevisionsOf
    <2>2. RevisionsOf(i)' \in SUBSET RevisionsOf(i)
        BY <1>3 DEF RevisionsOf
    <2>3. /\ Cardinality(RevisionsOf(i)') <= Cardinality(RevisionsOf(i))
          /\ Cardinality(RevisionsOf(i)) \in Nat /\ Cardinality(RevisionsOf(i)') \in Nat
        BY <2>1, <2>2, FS_Subset, FS_CardinalityType
    <2> QED
        BY <1>1, <2>3, WorkspaceAssumption DEF Capped
<1>13. \A i \in DOMAIN disk \cap DOMAIN disk' : disk[i].source <= disk'[i].source
    <2>1. \A i \in DOMAIN disk : disk[i].source \in Nat
        BY <1>1 DEF Typed, Table, Problem
    <2> QED
        BY <1>2, <2>1
<1> QED
    BY <1>4, <1>5, <1>6, <1>8, <1>9, <1>10, <1>11, <1>12, <1>13 DEF IInv

\* A revision that commits is of a text on disk or to be saved, and the latest of
\* its problem: no other revision of it is asked for before it.
LEMMA ReviseCommits ==
    ASSUME IInv, NEW m \in 1..Len(queue), CommitAt(m), queue[m].op = "revise",
           revisions' = Recorded(queue[m]), UNCHANGED <<disk, cut>>
    PROVE  /\ IInv'
           /\ \A i \in DOMAIN disk \cap DOMAIN disk' : disk[i].source <= disk'[i].source
<1> PICK t : t = queue[m]
    OBVIOUS
<1> DEFINE new == [problem |-> t.id, source |-> t.source, savedAt |-> t.now]
<1>1. /\ Typed /\ PageWhole /\ TextsAscend /\ Backed /\ TimesAscend
      /\ RevisionsBehind /\ RevisesAscend /\ PageAhead /\ RevisionsSpread /\ Capped
      /\ UNCHANGED <<loaded, problems, current, timer, clock, edits, ids>>
      /\ queue' = SubSeq(queue, 1, m - 1) \o SubSeq(queue, m + 1, Len(queue)) /\ MayCommit(m)
    BY DEF IInv, CommitAt
<1>2. t.id \in Ids /\ t.id \in 1..ids /\ t.source \in Nat /\ t.now \in Nat
    BY <1>1, QueueTyped DEF Txn, Typed
<1>3. t.now <= clock /\ \A r \in RevisionsOf(t.id) :
                            r.savedAt <= t.now /\ (t.id \notin cut => r.source <= t.source)
    BY <1>1 DEF TimesAscend, RevisesAscend, Revises, RevisionsOf
<1>4. \A r \in revisions' : r \in revisions \/ r = new
    BY DEF Recorded
<1>5. new.problem = t.id /\ new.source = t.source /\ new.savedAt = t.now
    OBVIOUS
<1> HIDE DEF new
<1>6. \A k \in 1..Len(queue') : queue'[k].op = "revise" =>
          /\ t.now <= queue'[k].now
          /\ queue'[k].id = t.id => t.source <= queue'[k].source
    <2> SUFFICES ASSUME NEW k \in 1..Len(queue'), queue'[k].op = "revise"
                 PROVE  /\ t.now <= queue'[k].now
                        /\ queue'[k].id = t.id => t.source <= queue'[k].source
        OBVIOUS
    <2>1. /\ Was(m, k) \in 1..Len(queue) /\ Was(m, k) # m /\ queue'[k] = queue[Was(m, k)]
          /\ Len(queue) \in Nat
        BY <1>1, QueueWithout
    <2>2. m < Was(m, k)
        <3>1. Was(m, k) \notin 1..(m - 1)
            BY <1>1, <2>1, Overtakes
        <3> QED
            BY <2>1, <3>1
    <2> QED
        BY <1>1, <2>1, <2>2 DEF TimesAscend, RevisesAscend, Revises
<1>7. Typed' /\ Capped'
    <2>1. Table(problems)' /\ Table(disk)'
        BY <1>1 DEF Typed, Table
    <2>2. /\ revisions' \subseteq Revision /\ IsFiniteSet(revisions')
          /\ \A i \in Ids : Cardinality({r \in revisions' : r.problem = i}) <= MaxRevisions
        BY <1>1, <1>2, RecordedCapped
    <2>3. \A r \in revisions' : r.problem \in 1..ids
        BY <1>1, <1>2, <1>4, <1>5 DEF Typed
    <2> QED
        BY <1>1, <2>1, <2>2, <2>3, PageAfterCommit DEF Typed, Capped, RevisionsOf
<1>8. PageWhole'
    BY PageAfterCommit
<1>9. TextsAscend'
    <2>1. /\ \A i \in DOMAIN problems : problems[i].source <= edits
          /\ \A i \in DOMAIN disk : disk[i].source <= edits
          /\ timer # None => timer.problem.source <= edits
          /\ timer # None /\ timer.id \in DOMAIN problems => timer.problem.source = problems[timer.id].source
          /\ \A i \in DOMAIN disk \cap DOMAIN problems : disk[i].source <= problems[i].source
          /\ timer # None /\ timer.id \in DOMAIN disk => disk[timer.id].source <= timer.problem.source
        BY <1>1 DEF TextsAscend
    <2>2. /\ \A k \in 1..Len(queue') : queue'[k].op = "save" => queue'[k].problem.source <= edits
          /\ \A i \in DOMAIN problems : \A k \in 1..Len(queue') :
                 queue'[k].op = "save" /\ queue'[k].id = i => queue'[k].problem.source <= problems[i].source
          /\ \A i \in DOMAIN disk : \A k \in 1..Len(queue') :
                 queue'[k].op = "save" /\ queue'[k].id = i => disk[i].source <= queue'[k].problem.source
          /\ timer # None => \A k \in 1..Len(queue') :
                 queue'[k].op = "save" /\ queue'[k].id = timer.id =>
                     queue'[k].problem.source <= timer.problem.source
          /\ \A j, k \in 1..Len(queue') :
                 j < k /\ queue'[j].op = "save" /\ queue'[k].op = "save" /\ queue'[k].id = queue'[j].id =>
                     queue'[j].problem.source <= queue'[k].problem.source
        BY PageAfterCommit
    <2> QED
        BY <1>1, <2>1, <2>2 DEF TextsAscend, Saves
<1>10. Backed'
    <2>1. KeepsTexts(m)
        BY DEF KeepsTexts, Holds, Saves
    <2> QED
        BY <1>1, <2>1, BackedStays
<1>11. TimesAscend'
    <2>1. /\ \A k \in 1..Len(queue') : queue'[k].op = "revise" => queue'[k].now <= clock
          /\ \A j, k \in 1..Len(queue') :
                 j < k /\ queue'[j].op = "revise" /\ queue'[k].op = "revise" =>
                     queue'[j].now <= queue'[k].now
          /\ \A r \in revisions : \A k \in 1..Len(queue') :
                 queue'[k].op = "revise" => r.savedAt <= queue'[k].now
        BY <1>1, StillInOrder
    <2> QED
        BY <1>1, <1>3, <1>4, <1>5, <1>6, <2>1 DEF TimesAscend
<1>12. RevisionsBehind'
    <2>1. ASSUME NEW i, NEW n, WillHold(i, n)
          PROVE  WillHold(i, n)'
        BY <1>1, <2>1, StillToHold DEF Saves
    <2>2. Holds(t.id, t.source) \/ WillHold(t.id, t.source)
        <3>1. BackedIn(queue, m) /\ \A j \in 1..(m - 1) : j \in 1..Len(queue)
            BY <1>1 DEF Backed, Typed
        <3> QED
            BY <3>1 DEF BackedIn, WillHold, Saves
    <2>3. ASSUME NEW r \in revisions', r.problem \notin cut
          PROVE  Holds(r.problem, r.source) \/ WillHold(r.problem, r.source)
        BY <1>1, <1>4, <1>5, <2>2, <2>3 DEF RevisionsBehind
    <2> QED
        BY <2>1, <2>3 DEF RevisionsBehind, Holds
<1>13. RevisesAscend'
    <2>1. /\ \A j, k \in 1..Len(queue') :
                 j < k /\ queue'[j].op = "revise" /\ queue'[k].op = "revise" /\ queue'[k].id = queue'[j].id =>
                     queue'[j].source <= queue'[k].source
          /\ \A r \in revisions : r.problem \notin cut =>
                 \A k \in 1..Len(queue') :
                     queue'[k].op = "revise" /\ queue'[k].id = r.problem => r.source <= queue'[k].source
        BY <1>1, StillInOrder
    <2> QED
        BY <1>4, <1>5, <1>6, <2>1 DEF RevisesAscend, Revises
<1>14. PageAhead'
    <2>1. \A k \in 1..Len(queue') : queue'[k].op = "revise" =>
              /\ queue'[k].id \in DOMAIN problems => queue'[k].source <= problems[queue'[k].id].source
              /\ timer # None /\ timer.id = queue'[k].id => queue'[k].source <= timer.problem.source
        BY <1>1, StillInOrder
    <2>2. /\ t.id \in DOMAIN problems => t.source <= problems[t.id].source
          /\ timer # None /\ timer.id = t.id => t.source <= timer.problem.source
        BY <1>1 DEF PageAhead
    <2> QED
        BY <1>1, <1>4, <1>5, <2>1, <2>2 DEF PageAhead
<1>15. RevisionsSpread'
    BY <1>1, <1>2, <1>3, RecordedSpread DEF RevisionsSpread, SpreadIn
<1>16. \A i \in DOMAIN disk \cap DOMAIN disk' : disk[i].source <= disk'[i].source
    <2>1. \A i \in DOMAIN disk : disk[i].source \in Nat
        BY <1>1 DEF Typed, Table, Problem
    <2> QED
        BY <2>1
<1> QED
    BY <1>7, <1>8, <1>9, <1>10, <1>11, <1>12, <1>13, <1>14, <1>15, <1>16 DEF IInv

-----------------------------------------------------------------------------
(* The theorems.                                                            *)

\* The invariant holds at the start.
LEMMA InitIInv == Init => IInv
<1> SUFFICES ASSUME Init PROVE IInv
    OBVIOUS
<1>1. /\ loaded = FALSE /\ problems = Empty /\ timer = None /\ queue = << >> /\ disk = Empty
      /\ revisions = {} /\ clock = 0 /\ edits = 0 /\ ids = 0 /\ cut = {}
    BY DEF Init
<1>2. MaxIds \in Nat /\ MaxRevisions \in Nat
    BY WorkspaceAssumption
<1>3. Typed
    <2>1. Table(problems) /\ Table(disk)
        BY <1>1 DEF Table, Empty
    <2>2. queue \in Seq(Txn) /\ Len(queue) = 0
        BY <1>1
    <2>3. revisions \subseteq Revision /\ IsFiniteSet(revisions)
        BY <1>1, FS_EmptySet
    <2>4. loaded \in BOOLEAN
        BY <1>1
    <2>5. \A k \in 1..Len(queue) : queue[k].id \in 1..ids
        BY <2>2
    <2>6. ids \in 0..MaxIds /\ clock \in Nat /\ edits \in Nat
        BY <1>1, <1>2
    <2> QED
        BY <1>1, <2>1, <2>2, <2>3, <2>4, <2>5, <2>6 DEF Typed
<1>4. PageWhole /\ TextsAscend /\ Backed /\ TimesAscend /\ RevisesAscend /\ PageAhead
    BY <1>1 DEF PageWhole, TextsAscend, Backed, TimesAscend, RevisesAscend, PageAhead, Empty, Saves
<1>5. RevisionsBehind /\ RevisionsSpread
    BY <1>1 DEF RevisionsBehind, RevisionsSpread
<1>6. Capped
    <2>1. \A i \in Ids : RevisionsOf(i) = {}
        BY <1>1 DEF RevisionsOf
    <2> QED
        BY <1>2, <2>1, FS_EmptySet DEF Capped
<1> QED
    BY <1>3, <1>4, <1>5, <1>6 DEF IInv

\* Every step keeps the invariant, and puts no older text on disk.
LEMMA NextIInv ==
    ASSUME IInv, [Next]_vars
    PROVE  /\ IInv'
           /\ \A i \in DOMAIN disk \cap DOMAIN disk' : disk[i].source <= disk'[i].source
<1>1. \A i \in DOMAIN disk : disk[i].source \in Nat /\ disk[i].source <= disk[i].source
    BY DEF IInv, Typed, Table, Problem
<1>2. CASE Type \/ ChangeTestsOrLimits \/ SwitchLanguage
    <2>1. PICK fields : Update(fields)
        BY <1>2 DEF Type, ChangeTestsOrLimits, SwitchLanguage
    <2>2. disk' = disk
        BY <2>1 DEF Update, diskVars
    <2> QED
        BY <1>1, <2>1, <2>2, UpdateStep
<1>3. CASE Create \/ Import
    <2>1. PICK n \in 1..2 : Add(n)
        BY <1>3 DEF Create, Import
    <2>2. disk' = disk
        BY <2>1 DEF Add
    <2> QED
        BY <1>1, <2>1, <2>2, AddStep
<1>4. CASE \E i \in DOMAIN problems : Rename(i) \/ Remove(i) \/ RemoveLast(i) \/ Select(i)
    <2>1. PICK i \in DOMAIN problems : Rename(i) \/ Remove(i) \/ RemoveLast(i) \/ Select(i)
        BY <1>4
    <2>2. disk' = disk
        BY <2>1 DEF Rename, Remove, RemoveLast, Select, diskVars
    <2> QED
        BY <1>1, <2>1, <2>2, RenameStep, RemoveStep, RemoveLastStep, SelectStep
<1>5. CASE Autosave \/ Load \/ Close \/ Tick
    <2>1. disk' = disk
        BY <1>5 DEF Autosave, Load, Close, Tick, diskVars
    <2> QED
        BY <1>1, <1>5, <2>1, AutosaveStep, LoadStep, CloseStep, TickStep
<1>6. CASE LoadFirst
    <2>1. DOMAIN disk = {}
        BY <1>6 DEF LoadFirst, Empty
    <2> QED
        BY <1>6, <2>1, LoadFirstStep
<1>7. CASE Commit
    <2>1. PICK k \in DOMAIN queue :
              /\ CommitAt(k)
              /\ disk' = CASE queue[k].op = "save" -> With(disk, queue[k].id, queue[k].problem)
                           [] queue[k].op = "remove" -> Without(disk, queue[k].id)
                           [] queue[k].op = "revise" -> disk
              /\ revisions' = CASE queue[k].op = "save" -> revisions
                                [] queue[k].op = "remove" -> revisions \ RevisionsOf(queue[k].id)
                                [] queue[k].op = "revise" -> Recorded(queue[k])
              /\ cut' = IF queue[k].op = "remove" THEN cut \ {queue[k].id} ELSE cut
        BY <1>7 DEF Commit, CommitAt, pageVars
    <2>2. k \in 1..Len(queue) /\ queue[k].op \in {"save", "revise", "remove"}
        <3>1. Typed /\ k \in 1..Len(queue)
            BY DEF IInv, Typed
        <3> QED
            BY <3>1, QueueTyped DEF Txn
    <2>3. CASE queue[k].op = "save"
        BY <2>1, <2>2, <2>3, SaveCommits
    <2>4. CASE queue[k].op = "remove"
        BY <2>1, <2>2, <2>4, RemoveCommits
    <2>5. CASE queue[k].op = "revise"
        BY <2>1, <2>2, <2>5, ReviseCommits
    <2> QED
        BY <2>2, <2>3, <2>4, <2>5
<1>8. CASE UNCHANGED vars
    <2>1. UNCHANGED <<loaded, problems, current, timer, queue, disk, revisions, clock, edits, ids, cut>>
        BY <1>8 DEF vars, pageVars, diskVars
    <2>2. Typed' /\ PageWhole' /\ TextsAscend'
        BY <2>1 DEF IInv, Typed, Table, PageWhole, TextsAscend, Saves
    <2>3. clock' \in Nat /\ clock' >= clock
        BY <2>1 DEF IInv, Typed
    <2> QED
        BY <1>1, <2>1, <2>2, <2>3, QueueSteady, StoreSteady DEF IInv
<1> QED
    BY <1>2, <1>3, <1>4, <1>5, <1>6, <1>7, <1>8 DEF Next

\* The inductive invariant holds of every behaviour of the workspace.
THEOREM Invariant == Spec => []IInv
<1>1. Init => IInv
    BY InitIInv
<1>2. IInv /\ [Next]_vars => IInv'
    BY NextIInv
<1> QED
    BY <1>1, <1>2, PTL DEF Spec

\* The page, its timer and the store hold what they should, and a problem never
\* has more revisions than MAX_REVISIONS_PER_PROBLEM (workspace.ts 64).
THEOREM TypeCorrect == Spec => []TypeOK
<1>1. IInv => TypeOK
    <2> SUFFICES ASSUME IInv PROVE TypeOK
        OBVIOUS
    <2>1. /\ Typed /\ Capped /\ MaxIds \in Nat
        BY WorkspaceAssumption DEF IInv
    <2>2. 1..ids \subseteq Ids
        BY <2>1 DEF Typed, Ids
    <2>3. timer \in [id: Ids, problem: Problem] \cup {None}
        BY <2>1, <2>2 DEF Typed
    <2>4. \A k \in DOMAIN queue : queue[k].id \in Ids
        <3>1. DOMAIN queue = 1..Len(queue)
            BY <2>1 DEF Typed
        <3> QED
            BY <2>1, <2>2, <3>1 DEF Typed
    <2> QED
        BY <2>1, <2>2, <2>3, <2>4 DEF TypeOK, Typed, Table, Capped
<1> QED
    BY <1>1, Invariant, PTL

\* A loaded page has an open problem, and it is in the list (useWorkspace.ts 143).
THEOREM AlwaysOpen == Spec => []OpenProblemExists
<1>1. IInv => OpenProblemExists
    BY DEF IInv, PageWhole, OpenProblemExists
<1> QED
    BY <1>1, Invariant, PTL

\* Two revisions of a problem are a coalescing interval apart, the later one with
\* the later text unless a page closed on the problem's save (workspace.ts 130).
THEOREM UndoNetReachesBack == Spec => []RevisionsSpread
<1>1. IInv => RevisionsSpread
    BY DEF IInv
<1> QED
    BY <1>1, Invariant, PTL

\* A revision is without its problem only while a save of it is under way, or when
\* a page closed then: a removal leaves none (workspace.ts 113-135).
THEOREM RemovalTakesAll == Spec => []RevisionsBelong
<1>1. IInv => RevisionsBelong
    <2> SUFFICES ASSUME IInv, NEW r \in revisions, r.problem \notin cut
                 PROVE  r.problem \in DOMAIN disk \cup Saving
        BY DEF RevisionsBelong
    <2>1. CASE Holds(r.problem, r.source)
        BY <2>1 DEF Holds
    <2>2. CASE WillHold(r.problem, r.source)
        <3>1. PICK k \in 1..Len(queue) : Saves(k, r.problem)
            BY <2>2 DEF WillHold
        <3>2. queue[k] \in Pending
            BY DEF Pending, IInv, Typed
        <3> QED
            BY <3>1, <3>2 DEF Saving, Saves
    <2> QED
        BY <2>1, <2>2 DEF IInv, RevisionsBehind
<1> QED
    BY <1>1, Invariant, PTL

\* No text on disk is replaced by an older one of the same problem.
THEOREM TextsOnlyAdvance == Spec => SourceNeverGoesBack
<1>1. IInv /\ [Next]_vars =>
          [\A i \in DOMAIN disk \cap DOMAIN disk' : disk[i].source <= disk'[i].source]_vars
    BY NextIInv
<1> QED
    BY <1>1, Invariant, PTL DEF Spec, SourceNeverGoesBack

=============================================================================
