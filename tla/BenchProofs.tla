----------------------------- MODULE BenchProofs -----------------------------
(***************************************************************************)
(* What TLAPS proves of the parts that touch none of the others, each on   *)
(* its own: where a paste comes from (Provenance), what the bar over the   *)
(* editor says of a pack (Packs), that the files the toolchain was packed  *)
(* from come back from its image (SysrootImage), the problems of a workspace *)
(* from their archive (Archive), that the treap is a set (OrderTree); and  *)
(* then of the bench that runs them one at a time (MCBench).               *)
(***************************************************************************)
EXTENDS MCBench, DataProofs

-----------------------------------------------------------------------------
(* Provenance: edits and texts.                                             *)

EditOf == [from : Nat, to : Nat, inserted : Seq(Chars)]

\* The range of an edit lies in the text.
Fits(edit, t) == edit.from <= edit.to /\ edit.to <= Len(t)

LEMMA ReplaceType ==
    ASSUME NEW t \in Seq(Chars), NEW edit, edit.inserted \in Seq(Chars),
           edit.from \in Nat, edit.to \in Nat, Fits(edit, t)
    PROVE  /\ Replace(t, edit) \in Seq(Chars)
           /\ Len(Replace(t, edit)) = edit.from + Len(edit.inserted) + (Len(t) - edit.to)
<1> DEFINE before == SubSeq(t, 1, edit.from)
<1> DEFINE after == SubSeq(t, edit.to + 1, Len(t))
<1>1. before \in Seq(Chars) /\ Len(before) = edit.from
    BY SubSeqProperties DEF Fits
<1>2. after \in Seq(Chars) /\ Len(after) = Len(t) - edit.to
    BY SubSeqProperties DEF Fits
<1>3. Replace(t, edit) = before \o edit.inserted \o after
    BY DEF Replace
<1> HIDE DEF before, after
<1> DEFINE start == before \o edit.inserted
<1>4. start \in Seq(Chars) /\ Len(start) = edit.from + Len(edit.inserted)
    BY <1>1, ConcatType
<1>5. Replace(t, edit) = start \o after
    BY <1>3
<1> HIDE DEF start
<1>6. start \o after \in Seq(Chars) /\ Len(start \o after) = Len(start) + Len(after)
    BY <1>2, <1>4, ConcatType
<1> QED
    BY <1>2, <1>4, <1>5, <1>6

\* Texts by problem, as the recorder keeps them.
TextsOf(docs) ==
    /\ docs = [q \in DOMAIN docs |-> docs[q]]
    /\ \A q \in DOMAIN docs : docs[q] \in Seq(Chars)

\* Whatever the recorder has of a problem, an edit leaves a text of it and no other.
LEMMA ApplyType ==
    ASSUME NEW docs, TextsOf(docs), NEW p, NEW edit \in EditOf
    PROVE  /\ TextsOf(ApplyEdit(docs, p, edit))
           /\ DOMAIN ApplyEdit(docs, p, edit) = DOMAIN docs \cup {p}
           /\ \A q \in DOMAIN docs \ {p} : ApplyEdit(docs, p, edit)[q] = docs[q]
<1> DEFINE current == IF p \in DOMAIN docs THEN docs[p] ELSE << >>
<1> DEFINE from == Least2(edit.from, Len(current))
<1> DEFINE to == IF edit.to < from THEN from ELSE Least2(edit.to, Len(current))
<1> DEFINE clamped == [edit EXCEPT !.from = from, !.to = to]
<1>1. current \in Seq(Chars)
    BY EmptySeq DEF TextsOf
<1>2. Len(current) \in Nat
    BY <1>1
<1> HIDE DEF current
<1>3. from \in Nat /\ to \in Nat /\ from <= to /\ to <= Len(current)
    BY <1>2 DEF Least2, EditOf
<1>4. clamped.from = from /\ clamped.to = to /\ clamped.inserted \in Seq(Chars)
    BY DEF EditOf
<1> HIDE DEF from, to, clamped
<1>5. Replace(current, clamped) \in Seq(Chars)
    BY <1>1, <1>3, <1>4, ReplaceType DEF Fits
<1>6. ApplyEdit(docs, p, edit) = Set(docs, p, Replace(current, clamped))
    BY DEF ApplyEdit, current, from, to, clamped
<1> QED
    BY <1>5, <1>6 DEF Set, TextsOf

\* A range that lies in the text is not clamped.
LEMMA ApplyFitting ==
    ASSUME NEW docs, NEW p \in DOMAIN docs, docs[p] \in Seq(Chars),
           NEW edit \in EditOf, Fits(edit, docs[p])
    PROVE  ApplyEdit(docs, p, edit)[p] = Replace(docs[p], edit)
<1> DEFINE from == Least2(edit.from, Len(docs[p]))
<1> DEFINE to == IF edit.to < from THEN from ELSE Least2(edit.to, Len(docs[p]))
<1> DEFINE clamped == [edit EXCEPT !.from = from, !.to = to]
<1>1. edit.from \in Nat /\ edit.to \in Nat /\ Len(docs[p]) \in Nat
    BY DEF EditOf
<1>2. from = edit.from /\ to = edit.to
    BY <1>1 DEF Least2, Fits
<1>3. clamped.from = edit.from /\ clamped.to = edit.to /\ clamped.inserted = edit.inserted
    BY <1>2 DEF EditOf
<1>4. Replace(docs[p], clamped) = Replace(docs[p], edit)
    BY <1>3 DEF Replace
<1>5. ApplyEdit(docs, p, edit)[p] = Replace(docs[p], clamped)
    BY DEF ApplyEdit, Set
<1> QED
    BY <1>4, <1>5

\* RemoveAt leaves the others, in their order.
LEMMA Removed ==
    ASSUME NEW S, NEW s \in Seq(S), NEW i \in 1..Len(s)
    PROVE  /\ RemoveAt(s, i) \in Seq(S)
           /\ DOMAIN RemoveAt(s, i) = 1..(Len(s) - 1)
           /\ \A k \in 1..(Len(s) - 1) : RemoveAt(s, i)[k] = s[IF k < i THEN k ELSE k + 1]
    BY Omitted DEF RemoveAt

-----------------------------------------------------------------------------
(* Provenance: the invariant.                                               *)

DigestOf == [task : Tasks, edit : EditOf]

BenchTyped ==
    /\ text \in [Tasks -> Seq(Chars)]
    /\ open \in Tasks \cup {NoTask}
    /\ recorder \in BOOLEAN
    /\ TextsOf(documents)
    /\ DOMAIN documents \subseteq Tasks
    /\ digests \in Seq(DigestOf)

\* Without a recorder nothing is noted and nothing is digested.
NothingNoted == ~recorder => DOMAIN documents = {} /\ digests = << >>

\* The recorder has the problem that is open, or is known not to.
OpenIsNoted == recorder /\ open # NoTask => open \in drifted \/ open \in DOMAIN documents

\* Of a problem that is in step one paste at most waits for its digest,
OneAwaited ==
    \A i, j \in DOMAIN digests :
        digests[i].task = digests[j].task /\ digests[i].task \notin drifted => i = j

\* and applied to what the recorder has, it makes what the editor shows.
AwaitedCompletes ==
    \A i \in DOMAIN digests :
        LET p == digests[i].task
        IN  p \notin drifted =>
                /\ p \in DOMAIN documents
                /\ Fits(digests[i].edit, documents[p])
                /\ Replace(documents[p], digests[i].edit) = text[p]

TextsKept == \A p \in DOMAIN documents : p \in drifted \/ Awaiting(p) \/ documents[p] = text[p]

ProvenanceInv ==
    /\ BenchTyped /\ NothingNoted /\ OpenIsNoted
    /\ OneAwaited /\ AwaitedCompletes
    /\ TextsKept /\ verdict.novel = verdict.new

LEMMA ProvenanceStarts == ProvenanceInit => ProvenanceInv
<1> SUFFICES ASSUME ProvenanceInit PROVE ProvenanceInv
    OBVIOUS
<1> USE DEF ProvenanceInit
<1>1. text \in [Tasks -> Seq(Chars)]
    BY ProvenanceAssumption
<1>2. DOMAIN documents = {}
    OBVIOUS
<1>3. digests \in Seq(DigestOf) /\ DOMAIN digests = {}
    BY EmptySeq
<1>4. BenchTyped
    BY <1>1, <1>2, <1>3 DEF BenchTyped, TextsOf
<1>5. verdict.novel = verdict.new
    OBVIOUS
<1> QED
    BY <1>2, <1>3, <1>4, <1>5
    DEF ProvenanceInv, NothingNoted, OpenIsNoted, OneAwaited, AwaitedCompletes, TextsKept

LEMMA OpenTaskKeeps ==
    ASSUME ProvenanceInv, NEW p \in Tasks, OpenTask(p)
    PROVE  ProvenanceInv'
<1> USE DEF OpenTask
<1>1. /\ TextsOf(documents')
      /\ DOMAIN documents' \subseteq Tasks
      /\ DOMAIN documents \subseteq DOMAIN documents'
      /\ \A q \in DOMAIN documents' \ {p} : q \in DOMAIN documents /\ documents'[q] = documents[q]
      /\ recorder => p \in DOMAIN documents'
      /\ p \in DOMAIN documents' => documents'[p] = text[p]
    <2>1. CASE recorder
        <3>1. documents' = Set(documents, p, text[p]) /\ text[p] \in Seq(Chars)
            BY <2>1 DEF ProvenanceInv, BenchTyped
        <3>2. /\ TextsOf(documents')
              /\ DOMAIN documents' = DOMAIN documents \cup {p}
              /\ documents'[p] = text[p]
              /\ \A q \in DOMAIN documents \ {p} : documents'[q] = documents[q]
            BY <3>1 DEF Set, TextsOf, ProvenanceInv, BenchTyped
        <3> QED
            BY <3>1, <3>2 DEF ProvenanceInv, BenchTyped
    <2>2. CASE ~recorder
        BY <2>2 DEF ProvenanceInv, BenchTyped, NothingNoted
    <2> QED
        BY <2>1, <2>2
<1>2. BenchTyped'
    BY <1>1 DEF ProvenanceInv, BenchTyped
<1>3. NothingNoted'
    BY DEF ProvenanceInv, NothingNoted
<1>4. OpenIsNoted'
    BY <1>1 DEF OpenIsNoted
<1>5. p \in drifted' \/ \A i \in DOMAIN digests : digests[i].task # p
    BY DEF Awaiting
<1>6. \A q : q # p /\ q \notin drifted' => q \notin drifted
    OBVIOUS
<1>7. OneAwaited'
    BY <1>5, <1>6 DEF ProvenanceInv, OneAwaited
<1>8. AwaitedCompletes'
    <2> SUFFICES ASSUME NEW i \in DOMAIN digests, digests[i].task \notin drifted'
                 PROVE  /\ digests[i].task \in DOMAIN documents'
                        /\ Fits(digests[i].edit, documents'[digests[i].task])
                        /\ Replace(documents'[digests[i].task], digests[i].edit) = text[digests[i].task]
        BY DEF AwaitedCompletes, Fits, Replace
    <2>1. digests[i].task # p /\ digests[i].task \notin drifted
        BY <1>5, <1>6
    <2>2. /\ digests[i].task \in DOMAIN documents
          /\ Fits(digests[i].edit, documents[digests[i].task])
          /\ Replace(documents[digests[i].task], digests[i].edit) = text[digests[i].task]
        BY <2>1 DEF ProvenanceInv, AwaitedCompletes
    <2>3. digests[i].task \in DOMAIN documents' /\ documents'[digests[i].task] = documents[digests[i].task]
        BY <1>1, <2>1, <2>2
    <2> QED
        BY <2>2, <2>3
<1>9. TextsKept'
    BY <1>1, <1>6 DEF ProvenanceInv, TextsKept, Awaiting
<1> QED
    BY <1>2, <1>3, <1>4, <1>7, <1>8, <1>9 DEF ProvenanceInv

LEMMA AcknowledgedKeeps ==
    ASSUME ProvenanceInv, Acknowledged
    PROVE  ProvenanceInv'
<1> USE DEF Acknowledged
<1>1. DOMAIN documents = {} /\ digests = << >> /\ DOMAIN digests = {}
    BY DEF ProvenanceInv, NothingNoted
<1>2. BenchTyped'
    BY DEF ProvenanceInv, BenchTyped
<1>3. OpenIsNoted'
    BY DEF ProvenanceInv, BenchTyped, OpenIsNoted
<1> QED
    BY <1>1, <1>2, <1>3
    DEF ProvenanceInv, NothingNoted, OneAwaited, AwaitedCompletes, TextsKept

\* The text of the problem that is open changes and the recorder does not hear of it as it
\* is: the problem is out of step, and of the others nothing changes.
LEMMA DriftKeeps ==
    ASSUME ProvenanceInv, open \in Tasks, open \in drifted', drifted \subseteq drifted',
           text' \in [Tasks -> Seq(Chars)], \A q \in Tasks \ {open} : text'[q] = text[q],
           TextsOf(documents'), DOMAIN documents' \subseteq Tasks,
           \A q \in DOMAIN documents \ {open} : q \in DOMAIN documents' /\ documents'[q] = documents[q],
           \A q \in DOMAIN documents' \ {open} : q \in DOMAIN documents,
           ~recorder => documents' = documents,
           UNCHANGED <<open, recorder, digests, verdict>>
    PROVE  ProvenanceInv'
<1>1. BenchTyped'
    BY DEF ProvenanceInv, BenchTyped
<1>2. NothingNoted' /\ OpenIsNoted'
    BY DEF ProvenanceInv, NothingNoted, OpenIsNoted
<1>3. OneAwaited'
    BY DEF ProvenanceInv, OneAwaited
<1>4. AwaitedCompletes'
    <2> SUFFICES ASSUME NEW i \in DOMAIN digests, digests[i].task \notin drifted'
                 PROVE  /\ digests[i].task \in DOMAIN documents'
                        /\ Fits(digests[i].edit, documents'[digests[i].task])
                        /\ Replace(documents'[digests[i].task], digests[i].edit) = text'[digests[i].task]
        BY DEF AwaitedCompletes, Fits, Replace
    <2>1. digests[i].task # open /\ digests[i].task \notin drifted
        OBVIOUS
    <2>2. /\ digests[i].task \in DOMAIN documents
          /\ Fits(digests[i].edit, documents[digests[i].task])
          /\ Replace(documents[digests[i].task], digests[i].edit) = text[digests[i].task]
        BY <2>1 DEF ProvenanceInv, AwaitedCompletes
    <2>3. digests[i].task \in Tasks
        BY <2>2 DEF ProvenanceInv, BenchTyped
    <2> QED
        BY <2>1, <2>2, <2>3
<1>5. TextsKept'
    BY DEF ProvenanceInv, BenchTyped, TextsKept, Awaiting
<1> QED
    BY <1>1, <1>2, <1>3, <1>4, <1>5 DEF ProvenanceInv

\* A problem is given its other starter: the same text, or a text nobody tells the recorder of.
LEMMA SwapKeeps ==
    ASSUME ProvenanceInv, NEW starter \in Starters, SwapStarter(starter)
    PROVE  ProvenanceInv'
<1> USE DEF SwapStarter
<1>1. open \in Tasks /\ text \in [Tasks -> Seq(Chars)] /\ starter \in Seq(Chars)
    BY ProvenanceAssumption DEF ProvenanceInv, BenchTyped
<1>2. text' \in [Tasks -> Seq(Chars)] /\ \A q \in Tasks \ {open} : text'[q] = text[q]
    BY <1>1
<1>3. CASE text'[open] # text[open]
    <2>1. open \in drifted' /\ drifted \subseteq drifted'
        BY <1>3
    <2>2. /\ TextsOf(documents')
          /\ DOMAIN documents' \subseteq Tasks
        BY DEF ProvenanceInv, BenchTyped
    <2> QED
        BY <1>1, <1>2, <2>1, <2>2, DriftKeeps
<1>4. CASE text'[open] = text[open]
    <2>1. text' = text /\ drifted' = drifted
        BY <1>1, <1>4
    <2> QED
        BY <2>1 DEF ProvenanceInv, BenchTyped, NothingNoted, OpenIsNoted, OneAwaited,
                    AwaitedCompletes, TextsKept, Awaiting, Fits, Replace
<1> QED
    BY <1>3, <1>4

\* One edit lies before another.
Before(first, second) == first.to <= second.from

LEMMA TwiceReplaced ==
    ASSUME NEW t \in Seq(Chars), NEW first \in EditOf, NEW second \in EditOf,
           Fits(first, t), Fits(second, t), Before(first, second)
    PROVE  Replace(Replace(t, second), first) \in Seq(Chars)
<1>1. /\ first.from \in Nat /\ first.to \in Nat /\ first.inserted \in Seq(Chars)
      /\ second.from \in Nat /\ second.to \in Nat /\ second.inserted \in Seq(Chars)
    BY DEF EditOf
<1>2. /\ Replace(t, second) \in Seq(Chars)
      /\ Len(Replace(t, second)) = second.from + Len(second.inserted) + (Len(t) - second.to)
    BY <1>1, ReplaceType
<1>3. Fits(first, Replace(t, second))
    <2>1. Len(t) \in Nat /\ Len(second.inserted) \in Nat
        BY <1>1
    <2> QED
        BY <1>1, <1>2, <2>1 DEF Fits, Before
<1> QED
    BY <1>1, <1>2, <1>3, ReplaceType

LEMMA TwiceApplied ==
    ASSUME NEW docs, TextsOf(docs), NEW p, NEW first \in EditOf, NEW second \in EditOf
    PROVE  /\ TextsOf(ApplyEdit(ApplyEdit(docs, p, first), p, second))
           /\ DOMAIN ApplyEdit(ApplyEdit(docs, p, first), p, second) = DOMAIN docs \cup {p}
           /\ \A q \in DOMAIN docs \ {p} :
                  ApplyEdit(ApplyEdit(docs, p, first), p, second)[q] = docs[q]
<1> DEFINE once == ApplyEdit(docs, p, first)
<1>1. /\ TextsOf(once)
      /\ DOMAIN once = DOMAIN docs \cup {p}
      /\ \A q \in DOMAIN docs \ {p} : once[q] = docs[q]
    BY ApplyType
<1> HIDE DEF once
<1>2. /\ TextsOf(ApplyEdit(once, p, second))
      /\ DOMAIN ApplyEdit(once, p, second) = DOMAIN once \cup {p}
      /\ \A q \in DOMAIN once \ {p} : ApplyEdit(once, p, second)[q] = once[q]
    BY <1>1, ApplyType
<1>3. \A q \in DOMAIN docs \ {p} : ApplyEdit(once, p, second)[q] = docs[q]
    BY <1>1, <1>2
<1>4. DOMAIN ApplyEdit(once, p, second) = DOMAIN docs \cup {p}
    BY <1>1, <1>2
<1> QED
    BY <1>2, <1>3, <1>4 DEF once

LEMMA EditTwiceKeeps ==
    ASSUME ProvenanceInv, EditTwice
    PROVE  ProvenanceInv'
<1>1. open # NoTask /\ UNCHANGED <<open, recorder, digests, verdict>>
    BY DEF EditTwice, Editing
<1>2. /\ open \in Tasks /\ text \in [Tasks -> Seq(Chars)] /\ text[open] \in Seq(Chars)
      /\ TextsOf(documents) /\ DOMAIN documents \subseteq Tasks
    BY <1>1 DEF ProvenanceInv, BenchTyped
<1>3. PICK first \in EditOf, second \in EditOf :
          /\ Fits(first, text[open]) /\ Fits(second, text[open]) /\ Before(first, second)
          /\ text' = [text EXCEPT ![open] = Replace(Replace(text[open], second), first)]
          /\ documents' = IF recorder
                          THEN ApplyEdit(ApplyEdit(documents, open, first), open, second)
                          ELSE documents
    <2>1. PICK i, j \in 0..Len(text[open]), c \in Chars :
              LET first == [from |-> i, to |-> i, inserted |-> <<c>>]
                  second == [from |-> j, to |-> j, inserted |-> <<c>>]
              IN  /\ i < j
                  /\ text' = [text EXCEPT ![open] = Replace(Replace(@, second), first)]
                  /\ documents' = IF recorder
                                  THEN ApplyEdit(ApplyEdit(documents, open, first), open, second)
                                  ELSE documents
        BY DEF EditTwice
    <2> DEFINE first == [from |-> i, to |-> i, inserted |-> <<c>>]
    <2> DEFINE second == [from |-> j, to |-> j, inserted |-> <<c>>]
    <2>2. i \in Nat /\ j \in Nat /\ i <= j /\ j <= Len(text[open]) /\ Len(text[open]) \in Nat
        BY <1>2, <2>1
    <2>3. first \in EditOf /\ second \in EditOf
        BY <2>2 DEF EditOf
    <2>4. first.from = i /\ first.to = i /\ second.from = j /\ second.to = j
        OBVIOUS
    <2>5. Fits(first, text[open]) /\ Fits(second, text[open]) /\ Before(first, second)
        BY <2>2, <2>4 DEF Fits, Before
    <2>6. /\ text' = [text EXCEPT ![open] = Replace(Replace(text[open], second), first)]
          /\ documents' = IF recorder
                          THEN ApplyEdit(ApplyEdit(documents, open, first), open, second)
                          ELSE documents
        BY <2>1
    <2> HIDE DEF first, second
    <2> QED
        BY <2>3, <2>5, <2>6
<1> DEFINE twice == ApplyEdit(ApplyEdit(documents, open, first), open, second)
<1>4. /\ Replace(Replace(text[open], second), first) \in Seq(Chars)
      /\ TextsOf(twice)
      /\ DOMAIN twice = DOMAIN documents \cup {open}
      /\ \A q \in DOMAIN documents \ {open} : twice[q] = documents[q]
    <2>1. Replace(Replace(text[open], second), first) \in Seq(Chars)
        BY <1>2, <1>3, TwiceReplaced
    <2>2. /\ TextsOf(twice)
          /\ DOMAIN twice = DOMAIN documents \cup {open}
          /\ \A q \in DOMAIN documents \ {open} : twice[q] = documents[q]
        BY <1>2, TwiceApplied
    <2> QED
        BY <2>1, <2>2
<1>5. documents' = IF recorder THEN twice ELSE documents
    BY <1>3
<1> HIDE DEF twice
<1>6. text' \in [Tasks -> Seq(Chars)] /\ \A q \in Tasks \ {open} : text'[q] = text[q]
    BY <1>2, <1>3, <1>4
<1>7. /\ TextsOf(documents')
      /\ DOMAIN documents' \subseteq Tasks
      /\ \A q \in DOMAIN documents \ {open} : q \in DOMAIN documents' /\ documents'[q] = documents[q]
      /\ \A q \in DOMAIN documents' \ {open} : q \in DOMAIN documents
      /\ ~recorder => documents' = documents
    BY <1>2, <1>4, <1>5
<1>8. open \in drifted' /\ drifted \subseteq drifted'
    BY DEF EditTwice
<1> QED
    BY <1>1, <1>2, <1>6, <1>7, <1>8, DriftKeeps

\* A digest is there: what the recorder has of its problem becomes what the editor shows.
LEMMA DigestKeeps ==
    ASSUME ProvenanceInv, Digest
    PROVE  ProvenanceInv'
<1>1. PICK i \in DOMAIN digests :
          /\ documents' = ApplyEdit(documents, digests[i].task, digests[i].edit)
          /\ digests' = RemoveAt(digests, i)
    BY DEF Digest
<1>2. UNCHANGED <<text, open, recorder, verdict, drifted>>
    BY DEF Digest
<1>3. digests \in Seq(DigestOf) /\ DOMAIN digests = 1..Len(digests) /\ Len(digests) \in Nat
    BY DEF ProvenanceInv, BenchTyped
<1> DEFINE p == digests[i].task
<1> DEFINE e == digests[i].edit
<1>4. p \in Tasks /\ e \in EditOf
    <2>1. digests[i] \in DigestOf
        BY <1>3, ElementOfSeq
    <2> QED
        BY <2>1 DEF DigestOf
<1>5. documents' = ApplyEdit(documents, p, e)
    BY <1>1
<1> HIDE DEF p, e
<1>6. /\ TextsOf(documents')
      /\ DOMAIN documents' = DOMAIN documents \cup {p}
      /\ \A q \in DOMAIN documents \ {p} : documents'[q] = documents[q]
    BY <1>4, <1>5, ApplyType DEF ProvenanceInv, BenchTyped
<1> DEFINE Was(k) == IF k < i THEN k ELSE k + 1
<1>7. /\ digests' \in Seq(DigestOf) /\ DOMAIN digests' = 1..(Len(digests) - 1)
      /\ \A k \in DOMAIN digests' : digests'[k] = digests[Was(k)]
    BY <1>1, <1>3, Removed
<1>8. \A k \in DOMAIN digests' : Was(k) \in DOMAIN digests \ {i}
    BY <1>3, <1>7
<1>9. \A k, m \in DOMAIN digests' : Was(k) = Was(m) => k = m
    BY <1>3, <1>7
<1>10. \A j \in DOMAIN digests \ {i} : \E k \in DOMAIN digests' : Was(k) = j
    <2> SUFFICES ASSUME NEW j \in DOMAIN digests \ {i}
                 PROVE  \E k \in DOMAIN digests' : Was(k) = j
        OBVIOUS
    <2> DEFINE k == IF j < i THEN j ELSE j - 1
    <2>1. k \in DOMAIN digests' /\ Was(k) = j
        BY <1>3, <1>7
    <2> QED
        BY <2>1
<1> HIDE DEF Was
<1>11. BenchTyped'
    BY <1>2, <1>4, <1>6, <1>7 DEF ProvenanceInv, BenchTyped
<1>12. recorder
    BY <1>1 DEF ProvenanceInv, NothingNoted
<1>13. NothingNoted' /\ OpenIsNoted'
    BY <1>2, <1>6, <1>12 DEF ProvenanceInv, NothingNoted, OpenIsNoted
<1>14. OneAwaited'
    BY <1>2, <1>7, <1>8, <1>9 DEF ProvenanceInv, OneAwaited
<1>15. AwaitedCompletes'
    <2> SUFFICES ASSUME NEW k \in DOMAIN digests', digests'[k].task \notin drifted
                 PROVE  /\ digests'[k].task \in DOMAIN documents'
                        /\ Fits(digests'[k].edit, documents'[digests'[k].task])
                        /\ Replace(documents'[digests'[k].task], digests'[k].edit) = text[digests'[k].task]
        BY <1>2 DEF AwaitedCompletes, Fits, Replace
    <2>1. Was(k) \in DOMAIN digests /\ Was(k) # i /\ digests'[k] = digests[Was(k)]
        BY <1>7, <1>8
    <2>2. digests'[k].task # p
        BY <2>1 DEF ProvenanceInv, OneAwaited, p
    <2>3. /\ digests'[k].task \in DOMAIN documents
          /\ Fits(digests'[k].edit, documents[digests'[k].task])
          /\ Replace(documents[digests'[k].task], digests'[k].edit) = text[digests'[k].task]
        BY <2>1 DEF ProvenanceInv, AwaitedCompletes
    <2> QED
        BY <1>6, <2>2, <2>3
<1>16. TextsKept'
    <2> SUFFICES ASSUME NEW q \in DOMAIN documents', q \notin drifted,
                        ~\E k \in DOMAIN digests' : digests'[k].task = q
                 PROVE  documents'[q] = text[q]
        BY <1>2 DEF TextsKept, Awaiting
    <2>1. CASE q = p
        <3>1. /\ p \in DOMAIN documents /\ Fits(e, documents[p])
              /\ Replace(documents[p], e) = text[p]
            BY <2>1 DEF ProvenanceInv, AwaitedCompletes, p, e
        <3>2. documents[p] \in Seq(Chars)
            BY <3>1 DEF ProvenanceInv, BenchTyped, TextsOf
        <3>3. documents'[p] = Replace(documents[p], e)
            BY <1>4, <1>5, <3>1, <3>2, ApplyFitting
        <3> QED
            BY <2>1, <3>1, <3>3
    <2>2. CASE q # p
        <3>1. ~Awaiting(q)
            BY <1>7, <1>10, <2>2 DEF Awaiting, p
        <3> QED
            BY <1>6, <2>2, <3>1 DEF ProvenanceInv, TextsKept
    <2> QED
        BY <2>1, <2>2
<1> QED
    BY <1>2, <1>11, <1>13, <1>14, <1>15, <1>16 DEF ProvenanceInv

\* While every text is known to be in step, the recorder's texts are the texts.
LEMMA JudgedRight ==
    ASSUME ProvenanceInv, NEW part
    PROVE  Judged(part).novel = Judged(part).new
<1>1. CASE InStep
    <2>1. documents = [p \in DOMAIN documents |-> documents[p]]
        BY DEF ProvenanceInv, BenchTyped, TextsOf
    <2>2. \A p \in DOMAIN documents : documents[p] = text[p]
        BY <1>1 DEF ProvenanceInv, TextsKept, InStep
    <2>3. documents = Opened
        BY <2>1, <2>2 DEF Opened
    <2> QED
        BY <2>3 DEF Judged
<1>2. CASE ~InStep
    BY <1>2 DEF Judged
<1> QED
    BY <1>1, <1>2

\* A paste is judged and waits; it completes what the recorder has of the problem.
LEMMA PasteKeeps ==
    ASSUME ProvenanceInv, recorder, open \in Tasks, NEW edit \in EditOf, Fits(edit, text[open]),
           text' = [text EXCEPT ![open] = Replace(text[open], edit)],
           text' \in [Tasks -> Seq(Chars)],
           verdict' = Judged(edit.inserted),
           digests' = Append(digests, [task |-> open, edit |-> edit]),
           drifted' = IF Awaiting(open) THEN drifted \cup {open} ELSE drifted,
           UNCHANGED <<open, recorder, documents>>
    PROVE  ProvenanceInv'
<1> DEFINE n == Len(digests)
<1>1. digests \in Seq(DigestOf) /\ n \in Nat /\ DOMAIN digests = 1..n
    BY DEF ProvenanceInv, BenchTyped
<1>2. open \in drifted \/ open \in DOMAIN documents
    BY ProvenanceAssumption DEF ProvenanceInv, OpenIsNoted
<1>3. text \in [Tasks -> Seq(Chars)]
    BY DEF ProvenanceInv, BenchTyped
<1>4. text'[open] = Replace(text[open], edit) /\ \A q \in Tasks \ {open} : text'[q] = text[q]
    BY <1>3
<1> DEFINE new == [task |-> open, edit |-> edit]
<1>5. new \in DigestOf /\ new.task = open /\ new.edit = edit
    BY DEF DigestOf
<1>6. digests' = Append(digests, new)
    OBVIOUS
<1> HIDE DEF new
<1>7. /\ digests' \in Seq(DigestOf) /\ DOMAIN digests' = 1..(n + 1)
      /\ \A i \in 1..n : digests'[i] = digests[i]
      /\ digests'[n + 1] = new
    BY <1>1, <1>5, <1>6, AppendProperties
<1>8. open \in drifted' \/ \A i \in DOMAIN digests : digests[i].task # open
    BY DEF Awaiting
<1>9. drifted \subseteq drifted' /\ \A q : q # open /\ q \in drifted' => q \in drifted
    OBVIOUS
<1> HIDE DEF n
<1>10. BenchTyped'
    BY <1>7 DEF ProvenanceInv, BenchTyped
<1>11. NothingNoted' /\ OpenIsNoted'
    BY <1>9 DEF ProvenanceInv, NothingNoted, OpenIsNoted
<1>12. OneAwaited'
    <2> SUFFICES ASSUME NEW i \in 1..(n + 1), NEW j \in 1..(n + 1),
                        digests'[i].task = digests'[j].task, digests'[i].task \notin drifted'
                 PROVE  i = j
        BY <1>7 DEF OneAwaited
    <2>1. CASE i \in 1..n /\ j \in 1..n
        BY <1>1, <1>7, <1>9, <2>1 DEF ProvenanceInv, OneAwaited
    <2>2. CASE i = n + 1 /\ j \in 1..n
        BY <1>1, <1>5, <1>7, <1>8, <2>2
    <2>3. CASE j = n + 1 /\ i \in 1..n
        BY <1>1, <1>5, <1>7, <1>8, <2>3
    <2> QED
        BY <1>1, <2>1, <2>2, <2>3
<1>13. AwaitedCompletes'
    <2> SUFFICES ASSUME NEW i \in 1..(n + 1), digests'[i].task \notin drifted'
                 PROVE  /\ digests'[i].task \in DOMAIN documents
                        /\ Fits(digests'[i].edit, documents[digests'[i].task])
                        /\ Replace(documents[digests'[i].task], digests'[i].edit) = text'[digests'[i].task]
        BY <1>7 DEF AwaitedCompletes, Fits, Replace
    <2>1. CASE i \in 1..n
        <3>1. /\ digests[i].task \in DOMAIN documents
              /\ Fits(digests[i].edit, documents[digests[i].task])
              /\ Replace(documents[digests[i].task], digests[i].edit) = text[digests[i].task]
            BY <1>1, <1>7, <1>9, <2>1 DEF ProvenanceInv, AwaitedCompletes
        <3>2. digests[i].task # open
            BY <1>1, <1>7, <1>8, <2>1
        <3>3. digests[i].task \in Tasks
            BY <3>1 DEF ProvenanceInv, BenchTyped
        <3> QED
            BY <1>4, <1>7, <2>1, <3>1, <3>2, <3>3
    <2>2. CASE i = n + 1
        <3>1. digests'[i].task = open /\ digests'[i].edit = edit
            BY <1>5, <1>7, <2>2
        <3>2. open \notin drifted /\ open \in DOMAIN documents /\ ~Awaiting(open)
            BY <1>2, <1>9, <3>1
        <3>3. documents[open] = text[open]
            BY <3>2 DEF ProvenanceInv, TextsKept
        <3> QED
            BY <1>4, <3>1, <3>2, <3>3
    <2> QED
        BY <1>1, <2>1, <2>2
<1>14. TextsKept'
    <2> SUFFICES ASSUME NEW q \in DOMAIN documents, q \notin drifted',
                        ~\E i \in 1..(n + 1) : digests'[i].task = q
                 PROVE  documents[q] = text'[q]
        BY <1>7 DEF TextsKept, Awaiting
    <2>1. q # open
        BY <1>1, <1>5, <1>7
    <2>2. ~Awaiting(q)
        BY <1>1, <1>7 DEF Awaiting
    <2>3. documents[q] = text[q] /\ q \in Tasks
        BY <1>9, <2>2 DEF ProvenanceInv, TextsKept, BenchTyped
    <2> QED
        BY <1>4, <2>1, <2>3
<1>15. (verdict.novel = verdict.new)'
    BY JudgedRight
<1> QED
    BY <1>10, <1>11, <1>12, <1>13, <1>14, <1>15 DEF ProvenanceInv

\* Another edit is applied at once: to the text before it, or, where a paste of the problem
\* still waits, to one that is out of step from here on.
LEMMA TypingKeeps ==
    ASSUME ProvenanceInv, recorder, open \in Tasks, NEW edit \in EditOf, Fits(edit, text[open]),
           text' = [text EXCEPT ![open] = Replace(text[open], edit)],
           text' \in [Tasks -> Seq(Chars)],
           documents' = ApplyEdit(documents, open, edit),
           drifted' = IF Awaiting(open) THEN drifted \cup {open} ELSE drifted,
           UNCHANGED <<open, recorder, digests, verdict>>
    PROVE  ProvenanceInv'
<1>1. /\ TextsOf(documents')
      /\ DOMAIN documents' = DOMAIN documents \cup {open}
      /\ \A q \in DOMAIN documents \ {open} : documents'[q] = documents[q]
    <2>1. TextsOf(documents)
        BY DEF ProvenanceInv, BenchTyped
    <2> QED
        <3>1. \A e \in EditOf, p \in Tasks :
                  /\ TextsOf(ApplyEdit(documents, p, e))
                  /\ DOMAIN ApplyEdit(documents, p, e) = DOMAIN documents \cup {p}
                  /\ \A q \in DOMAIN documents \ {p} : ApplyEdit(documents, p, e)[q] = documents[q]
            BY <2>1, ApplyType
        <3> QED
            BY <3>1
<1>2. text \in [Tasks -> Seq(Chars)]
    BY DEF ProvenanceInv, BenchTyped
<1>3. text'[open] = Replace(text[open], edit) /\ \A q \in Tasks \ {open} : text'[q] = text[q]
    BY <1>2
<1>4. DOMAIN documents' \subseteq Tasks
    BY <1>1 DEF ProvenanceInv, BenchTyped
<1>5. drifted \subseteq drifted'
    OBVIOUS
<1>6. CASE open \in drifted'
    BY <1>1, <1>3, <1>4, <1>5, <1>6, DriftKeeps
<1>7. CASE open \notin drifted'
    <2>1. drifted' = drifted /\ open \notin drifted /\ ~Awaiting(open)
        BY <1>7
    <2>2. open \in DOMAIN documents /\ documents[open] = text[open] /\ documents[open] \in Seq(Chars)
        BY <2>1, ProvenanceAssumption
        DEF ProvenanceInv, OpenIsNoted, BenchTyped, TextsKept, TextsOf
    <2>3. documents'[open] = Replace(documents[open], edit)
        BY <2>2, ApplyFitting
    <2>4. documents'[open] = text'[open]
        BY <1>3, <2>2, <2>3
    <2>5. BenchTyped'
        BY <1>1, <1>4 DEF ProvenanceInv, BenchTyped
    <2>6. NothingNoted' /\ OpenIsNoted' /\ OneAwaited'
        BY <1>1, <2>1 DEF ProvenanceInv, NothingNoted, OpenIsNoted, OneAwaited
    <2>7. AwaitedCompletes'
        <3> SUFFICES ASSUME NEW i \in DOMAIN digests, digests[i].task \notin drifted
                     PROVE  /\ digests[i].task \in DOMAIN documents'
                            /\ Fits(digests[i].edit, documents'[digests[i].task])
                            /\ Replace(documents'[digests[i].task], digests[i].edit) = text'[digests[i].task]
            BY <2>1 DEF AwaitedCompletes, Fits, Replace
        <3>1. digests[i].task # open
            BY <2>1 DEF Awaiting
        <3>2. /\ digests[i].task \in DOMAIN documents
              /\ Fits(digests[i].edit, documents[digests[i].task])
              /\ Replace(documents[digests[i].task], digests[i].edit) = text[digests[i].task]
            BY DEF ProvenanceInv, AwaitedCompletes
        <3>3. digests[i].task \in Tasks
            BY <3>2 DEF ProvenanceInv, BenchTyped
        <3> QED
            BY <1>1, <1>3, <3>1, <3>2, <3>3
    <2>8. TextsKept'
        BY <1>1, <1>3, <1>4, <2>1, <2>4 DEF ProvenanceInv, TextsKept, Awaiting
    <2> QED
        BY <2>5, <2>6, <2>7, <2>8 DEF ProvenanceInv
<1> QED
    BY <1>6, <1>7

LEMMA EditKeeps ==
    ASSUME ProvenanceInv, NEW pasted \in BOOLEAN, Edit(pasted)
    PROVE  ProvenanceInv'
<1>1. open # NoTask /\ UNCHANGED <<open, recorder>>
    BY DEF Edit, Editing
<1>2. /\ open \in Tasks /\ text \in [Tasks -> Seq(Chars)] /\ text[open] \in Seq(Chars)
    BY <1>1 DEF ProvenanceInv, BenchTyped
<1>3. drifted' = IF Awaiting(open) THEN drifted \cup {open} ELSE drifted
    BY DEF Edit
<1>4. PICK edit \in EditOf :
          /\ Fits(edit, text[open])
          /\ text' = [text EXCEPT ![open] = Replace(text[open], edit)]
          /\ IF recorder THEN RecordEdit(edit, pasted) ELSE UNCHANGED <<documents, digests, verdict>>
    <2>1. PICK range \in Ranges(text[open]), part \in BoundedSeq(Chars, MaxInserted) :
              LET edit == [from |-> range[1], to |-> range[2], inserted |-> part]
              IN  /\ text' = [text EXCEPT ![open] = Replace(@, edit)]
                  /\ IF recorder THEN RecordEdit(edit, pasted) ELSE UNCHANGED <<documents, digests, verdict>>
        BY DEF Edit
    <2> DEFINE edit == [from |-> range[1], to |-> range[2], inserted |-> part]
    <2>2. part \in Seq(Chars)
        BY DEF BoundedSeq, SeqOf
    <2>3. /\ range[1] \in Nat /\ range[2] \in Nat
          /\ range[1] <= range[2] /\ range[2] <= Len(text[open])
        BY <1>2 DEF Ranges
    <2>4. edit \in EditOf
        BY <2>2, <2>3 DEF EditOf
    <2>5. Fits(edit, text[open])
        BY <2>3 DEF Fits
    <2>6. /\ text' = [text EXCEPT ![open] = Replace(text[open], edit)]
          /\ IF recorder THEN RecordEdit(edit, pasted) ELSE UNCHANGED <<documents, digests, verdict>>
        BY <2>1
    <2> HIDE DEF edit
    <2> QED
        BY <2>4, <2>5, <2>6
<1>5. Replace(text[open], edit) \in Seq(Chars)
    <2>1. edit.from \in Nat /\ edit.to \in Nat /\ edit.inserted \in Seq(Chars)
        BY DEF EditOf
    <2> QED
        BY <1>2, <1>4, <2>1, ReplaceType
<1>6. text' \in [Tasks -> Seq(Chars)] /\ \A q \in Tasks \ {open} : text'[q] = text[q]
    BY <1>2, <1>4, <1>5
<1>7. CASE ~recorder
    <2>1. DOMAIN documents = {} /\ digests = << >> /\ DOMAIN digests = {}
        BY <1>7 DEF ProvenanceInv, NothingNoted
    <2>2. UNCHANGED <<documents, digests, verdict>>
        BY <1>4, <1>7
    <2>3. BenchTyped'
        BY <1>1, <1>6, <2>2 DEF ProvenanceInv, BenchTyped
    <2> QED
        BY <1>1, <1>7, <2>1, <2>2, <2>3
        DEF ProvenanceInv, NothingNoted, OpenIsNoted, OneAwaited, AwaitedCompletes, TextsKept
<1>8. CASE recorder /\ pasted /\ edit.inserted # << >>
    <2>1. /\ verdict' = Judged(edit.inserted)
          /\ digests' = Append(digests, [task |-> open, edit |-> edit])
          /\ UNCHANGED documents
        BY <1>4, <1>8 DEF RecordEdit
    <2> QED
        BY <1>1, <1>2, <1>3, <1>4, <1>6, <1>8, <2>1, PasteKeeps
<1>9. CASE recorder /\ ~(pasted /\ edit.inserted # << >>)
    <2>1. documents' = ApplyEdit(documents, open, edit) /\ UNCHANGED <<digests, verdict>>
        BY <1>4, <1>9 DEF RecordEdit
    <2> QED
        BY <1>1, <1>2, <1>3, <1>4, <1>6, <1>9, <2>1, TypingKeeps
<1> QED
    BY <1>7, <1>8, <1>9

LEMMA ProvenanceKeeps == ProvenanceInv /\ [ProvenanceNext]_provenanceVars => ProvenanceInv'
<1> SUFFICES ASSUME ProvenanceInv, [ProvenanceNext]_provenanceVars PROVE ProvenanceInv'
    OBVIOUS
<1>1. CASE UNCHANGED provenanceVars
    BY <1>1 DEF provenanceVars, ProvenanceInv, BenchTyped, NothingNoted, OpenIsNoted, OneAwaited,
                AwaitedCompletes, TextsKept, Awaiting, TextsOf, Fits, Replace
<1>2. ASSUME NEW p \in Tasks, OpenTask(p) PROVE ProvenanceInv'
    BY <1>2, OpenTaskKeeps
<1>3. CASE Acknowledged
    BY <1>3, AcknowledgedKeeps
<1>4. ASSUME NEW starter \in Starters, SwapStarter(starter) PROVE ProvenanceInv'
    BY <1>4, SwapKeeps
<1>5. ASSUME NEW pasted \in BOOLEAN, Edit(pasted) PROVE ProvenanceInv'
    BY <1>5, EditKeeps
<1>6. CASE EditTwice
    BY <1>6, EditTwiceKeeps
<1>7. CASE Digest
    BY <1>7, DigestKeeps
<1> QED
    BY <1>1, <1>2, <1>3, <1>4, <1>5, <1>6, <1>7 DEF ProvenanceNext

\* A paste is called novel exactly when no problem opened in the round contained it, and the
\* recorder's text of a problem is the problem's text once its pastes are applied, up to the
\* losses of step `drifted` names (recorder.ts 77-117, App.tsx 61-66): for every workspace,
\* every text and every length of edit.
THEOREM PastesAreJudgedRight == ProvenanceSpec => []NovelMeansNew
<1>1. ProvenanceInv => NovelMeansNew
    BY DEF ProvenanceInv, TextsKept, NovelMeansNew
<1> QED
    BY <1>1, ProvenanceStarts, ProvenanceKeeps, PTL DEF ProvenanceSpec

-----------------------------------------------------------------------------
(* Packs: the invariant, of a pack whose downloads, removals and looks have *)
(* not overlapped.                                                          *)

JobIs(j) ==
    /\ j = [at |-> j.at, pack |-> j.pack, file |-> j.file, gone |-> j.gone, rest |-> j.rest]
    /\ j.at \in {"ask", "fetch", "put"}
    /\ j.pack \in Packs => j.file \in 1..Files[j.pack]
    /\ j.at = "ask" => j.file = 1 /\ j.gone = FALSE

PacksTyped ==
    /\ cached \in [Packs -> SUBSET Nat] /\ \A p \in Packs : cached[p] \subseteq 1..Files[p]
    /\ \A w \in DOMAIN jobs : JobIs(jobs[w])
    /\ DOMAIN ready = Packs
    /\ probing \in [Packs -> SUBSET (BOOLEAN \cup {None})]
    /\ surveys \subseteq {None} \cup [Packs -> BOOLEAN]
    /\ view \in {None} \cup [Packs -> BOOLEAN]

\* Files are put in order: with the last of them the pack is there.
LastIsAll(p) == Files[p] \in cached[p] => Ready(p)

\* A download past its question is of a pack that is not there, and has put what it has fetched.
Downloading(p) ==
    \A w \in JobsOn(p) : jobs[w].at # "ask" =>
        /\ ~jobs[w].gone /\ ~Ready(p)
        /\ 1..(jobs[w].file - 1) \subseteq cached[p]

\* What the panel shows is there, unless a look is under way;
ShownIsReady(p) == Shown(p) => Ready(p) \/ surveys # {}

\* and what is to be removed and still there, it shows.
RemovedIsShown(p) == p \in removing /\ Ready(p) => Shown(p)

\* The bar is right, or about to look, or about to be told by the panel that it should.
BarIsTold(p) ==
    \/ ready[p] = Ready(p)
    \/ probing[p] # {}
    \/ Shown(p) # Ready(p) /\ (surveys # {} \/ All \in DOMAIN jobs \/ One \in DOMAIN jobs)

PackKept(p) ==
    /\ LastIsAll(p) /\ ~Crowded(p) /\ Downloading(p)
    /\ ~OldLook(p) /\ ShownIsReady(p) /\ RemovedIsShown(p) /\ BarIsTold(p)

PacksInv == PacksTyped /\ \A p \in Packs \ raced : PackKept(p)

LEMMA FilesType == \A p \in Packs : Files[p] \in Nat /\ Files[p] >= 1
    BY PacksAssumption

LEMMA NothingUnderWay == DOMAIN << >> = {}
    OBVIOUS

\* A step that leaves a pack out of `raced` made no two things overlap on it.
LEMMA NotRaced ==
    ASSUME NEW p \in Packs, NEW missed, Watched(missed), p \notin raced'
    PROVE  /\ p \notin raced /\ (p \in missed => ~Mistaken(p)')
           /\ ~Crowded(p)'
           /\ Ready(p)' # Ready(p) => ~OldLook(p)' /\ surveys = {}
    BY DEF Watched, Contended

\* Looks stay true while the cache does.
LEMMA LooksStay ==
    ASSUME PacksTyped, NEW p \in Packs, ~OldLook(p), Ready(p)' = Ready(p),
           \A a \in probing'[p] : a \in probing[p] \/ a = None \/ a = Ready(p),
           \A seen \in surveys' : seen \in surveys \/ seen = None \/ seen = Looked
    PROVE  ~OldLook(p)'
<1>1. Ready(p) \in BOOLEAN /\ (~Ready(p)) # None /\ (~Ready(p)) # Ready(p)
    BY PacksAssumption DEF Ready
<1>2. Looked[p] = Ready(p)
    BY DEF Looked
<1>3. ((~Ready(p)) \notin probing'[p])
    BY <1>1 DEF OldLook
<1>4. \A seen \in surveys' \ {None} : seen[p] # ~Ready(p)
    BY <1>1, <1>2 DEF OldLook
<1> QED
    BY <1>3, <1>4 DEF OldLook

\* So do the downloads.
LEMMA DownloadsStay ==
    ASSUME NEW p \in Packs, LastIsAll(p), Downloading(p), cached'[p] = cached[p],
           \A w \in DOMAIN jobs' : jobs'[w].pack = p /\ jobs'[w].at # "ask" =>
               w \in DOMAIN jobs /\ jobs'[w] = jobs[w]
    PROVE  LastIsAll(p)' /\ Downloading(p)' /\ Ready(p)' = Ready(p)
<1>1. Ready(p)' = Ready(p)
    BY DEF Ready
<1>2. LastIsAll(p)'
    BY <1>1 DEF LastIsAll
<1>3. Downloading(p)'
    BY <1>1 DEF Downloading, JobsOn
<1> QED
    BY <1>1, <1>2, <1>3

LEMMA PacksStart == PacksInit => PacksInv
<1> SUFFICES ASSUME PacksInit PROVE PacksInv
    OBVIOUS
<1> USE DEF PacksInit
<1>1. DOMAIN jobs = {}
    BY NothingUnderWay
<1>2. PacksTyped
    BY <1>1 DEF PacksTyped
<1>3. ASSUME NEW p \in Packs PROVE PackKept(p)
    <2>1. cached[p] = {} /\ ~Ready(p)
        <3>1. 1 \in 1..Files[p]
            BY FilesType
        <3> QED
            BY <3>1 DEF Ready
    <2>2. JobsOn(p) = {}
        BY <1>1 DEF JobsOn
    <2>3. ~OldLook(p)
        BY <2>1, PacksAssumption DEF OldLook
    <2> QED
        BY <2>1, <2>2, <2>3
        DEF PackKept, LastIsAll, Crowded, Downloading, ShownIsReady, RemovedIsShown, BarIsTold, Shown
<1> QED
    BY <1>2, <1>3 DEF PacksInv

-----------------------------------------------------------------------------
(* Packs: downloads that are asked for.                                     *)

\* At most one download more, which has asked nothing yet.
Started ==
    /\ \A w \in DOMAIN jobs : w \in DOMAIN jobs' /\ jobs'[w] = jobs[w]
    /\ \A w \in DOMAIN jobs' \ DOMAIN jobs :
           jobs'[w] = Job(jobs'[w].pack, jobs'[w].rest)

LEMMA JobIsJob == \A q, r : JobIs(Job(q, r)) /\ Job(q, r).at = "ask" /\ Job(q, r).pack = q /\ Job(q, r).rest = r
    BY FilesType DEF Job, JobIs

LEMMA WithStarts ==
    ASSUME NEW w, w \notin DOMAIN jobs, NEW q, NEW r, jobs' = With(w, Job(q, r))
    PROVE  Started
<1>1. DOMAIN jobs' = DOMAIN jobs \cup {w} /\ jobs'[w] = Job(q, r)
    BY DEF With
<1>2. \A v \in DOMAIN jobs : jobs'[v] = jobs[v]
    BY DEF With
<1>3. jobs'[w] = Job(jobs'[w].pack, jobs'[w].rest)
    BY <1>1, JobIsJob
<1> QED
    BY <1>1, <1>2, <1>3 DEF Started

LEMMA StartedStay ==
    ASSUME PacksTyped, Started, cached' = cached
    PROVE  /\ \A w \in DOMAIN jobs' : JobIs(jobs'[w])
           /\ \A p \in Packs : LastIsAll(p) /\ Downloading(p) =>
                  LastIsAll(p)' /\ Downloading(p)' /\ Ready(p)' = Ready(p)
<1>1. \A w \in DOMAIN jobs' \ DOMAIN jobs : JobIs(jobs'[w]) /\ jobs'[w].at = "ask"
    BY JobIsJob DEF Started
<1>2. \A w \in DOMAIN jobs' : JobIs(jobs'[w])
    BY <1>1 DEF Started, PacksTyped
<1>3. ASSUME NEW p \in Packs, LastIsAll(p), Downloading(p)
      PROVE  LastIsAll(p)' /\ Downloading(p)' /\ Ready(p)' = Ready(p)
    BY <1>1, <1>3, DownloadsStay DEF Started
<1> QED
    BY <1>2, <1>3

\* Nothing but a download more.
LEMMA OnlyStartsKeep ==
    ASSUME PacksInv, NEW missed, Watched(missed), Started,
           UNCHANGED <<cached, ready, probing, view, surveys, removing>>
    PROVE  PacksInv'
<1>1. PacksTyped'
    BY StartedStay DEF PacksInv, PacksTyped
<1>2. ASSUME NEW p \in Packs, p \notin raced' PROVE PackKept(p)'
    <2>1. PackKept(p) /\ ~Crowded(p)'
        BY <1>2, NotRaced DEF PacksInv
    <2>2. LastIsAll(p)' /\ Downloading(p)' /\ Ready(p)' = Ready(p)
        BY <2>1, StartedStay DEF PacksInv, PackKept
    <2>3. ~OldLook(p)'
        BY <2>1, <2>2, LooksStay DEF PacksInv, PackKept
    <2>4. ShownIsReady(p)' /\ RemovedIsShown(p)'
        BY <2>1, <2>2 DEF PackKept, ShownIsReady, RemovedIsShown, Shown
    <2>5. BarIsTold(p)'
        BY <2>1, <2>2 DEF PackKept, BarIsTold, Shown, Started
    <2> QED
        BY <2>1, <2>2, <2>3, <2>4, <2>5 DEF PackKept
<1> QED
    BY <1>1, <1>2 DEF PacksInv

LEMMA AskedKeeps ==
    ASSUME PacksInv, NEW missed, Watched(missed), NEW p \in Packs, BarDownload(p) \/ PanelDownload(p) \/ DownloadAll \/ SetAutoDownload
    PROVE  PacksInv'
<1>1. Started
    <2>1. CASE BarDownload(p)
        BY <2>1, WithStarts DEF BarDownload, CanStart
    <2>2. CASE PanelDownload(p)
        BY <2>2, WithStarts DEF PanelDownload, CanStart
    <2>3. CASE DownloadAll
        BY <2>3, WithStarts DEF DownloadAll, StartAll, CanStart
    <2>4. CASE SetAutoDownload
        BY <2>4, WithStarts DEF SetAutoDownload, StartAutomatically, StartAll, CanStart, Started
    <2> QED
        BY <2>1, <2>2, <2>3, <2>4
<1>2. UNCHANGED <<cached, ready, probing, view, surveys, removing>>
    BY DEF BarDownload, PanelDownload, DownloadAll, SetAutoDownload, idle
<1> QED
    BY <1>1, <1>2, OnlyStartsKeep

-----------------------------------------------------------------------------
(* Packs: looks, removals and reloads.                                      *)

LEMMA LookKeeps ==
    ASSUME PacksInv, NEW missed, Watched(missed), NEW q \in Packs,
           LookBar(q) \/ LandBar(q) \/ LookPanel \/ ClosePanel \/ PanelRemove(q)
    PROVE  PacksInv'
<1>1. UNCHANGED <<cached, jobs, view>>
    BY DEF LookBar, LandBar, LookPanel, ClosePanel, PanelRemove
<1>2. \A p \in Packs : Ready(p) \in BOOLEAN
    BY DEF Ready
<1>3. Looked \in [Packs -> BOOLEAN]
    BY <1>2 DEF Looked
<1>4. PacksTyped'
    <2>1. CASE LookBar(q)
        BY <1>1, <1>2, <2>1 DEF LookBar, PacksInv, PacksTyped
    <2>2. CASE LandBar(q)
        BY <1>1, <2>2 DEF LandBar, PacksInv, PacksTyped
    <2>3. CASE LookPanel
        BY <1>1, <1>3, <2>3 DEF LookPanel, PacksInv, PacksTyped
    <2>4. CASE ClosePanel
        BY <1>1, <2>4 DEF ClosePanel, PacksInv, PacksTyped
    <2>5. CASE PanelRemove(q)
        BY <1>1, <2>5 DEF PanelRemove, PacksInv, PacksTyped
    <2> QED
        BY <2>1, <2>2, <2>3, <2>4, <2>5
<1>5. ASSUME NEW p \in Packs, p \notin raced' PROVE PackKept(p)'
    <2>1. PackKept(p) /\ ~Crowded(p)'
        BY <1>5, NotRaced DEF PacksInv
    <2>2. LastIsAll(p)' /\ Downloading(p)' /\ Ready(p)' = Ready(p)
        BY <1>1, <2>1, DownloadsStay DEF PackKept
    <2>3. \A a \in probing'[p] : a \in probing[p] \/ a = None \/ a = Ready(p)
        BY DEF LookBar, LandBar, LookPanel, ClosePanel, PanelRemove, PacksInv, PacksTyped
    <2>4. \A seen \in surveys' : seen \in surveys \/ seen = None \/ seen = Looked
        BY DEF LookBar, LandBar, LookPanel, ClosePanel, PanelRemove
    <2>5. ~OldLook(p)'
        BY <2>1, <2>2, <2>3, <2>4, LooksStay DEF PacksInv, PackKept
    <2>6. surveys # {} => surveys' # {}
        BY DEF LookBar, LandBar, LookPanel, ClosePanel, PanelRemove
    <2>7. Shown(p)' = Shown(p)
        BY <1>1 DEF Shown
    <2>8. ShownIsReady(p)'
        BY <2>1, <2>2, <2>6, <2>7 DEF PackKept, ShownIsReady
    <2>9. RemovedIsShown(p)'
        BY <2>1, <2>2, <2>7
        DEF PackKept, RemovedIsShown, LookBar, LandBar, LookPanel, ClosePanel, PanelRemove
    <2>10. BarIsTold(p)'
        <3>1. CASE LandBar(q) /\ p = q
            <4>1. PICK a \in probing[q] \ {None} : ready' = [ready EXCEPT ![q] = a]
                BY <3>1 DEF LandBar
            <4>2. a \in BOOLEAN /\ a # ~Ready(p)
                BY <2>1, <3>1, <4>1 DEF PackKept, OldLook, PacksInv, PacksTyped
            <4>3. a = Ready(p)
                BY <1>2, <4>2
            <4>4. ready'[p] = a
                BY <3>1, <4>1 DEF PacksInv, PacksTyped
            <4> QED
                BY <2>2, <4>3, <4>4 DEF BarIsTold
        <3>2. CASE ~(LandBar(q) /\ p = q)
            <4>1. ready'[p] = ready[p] /\ (probing[p] # {} => probing'[p] # {})
                BY <3>2 DEF LookBar, LandBar, LookPanel, ClosePanel, PanelRemove, PacksInv, PacksTyped
            <4> QED
                BY <1>1, <2>1, <2>2, <2>6, <2>7, <4>1 DEF PackKept, BarIsTold
        <3> QED
            BY <3>1, <3>2
    <2> QED
        BY <2>1, <2>2, <2>5, <2>8, <2>9, <2>10 DEF PackKept
<1> QED
    BY <1>4, <1>5 DEF PacksInv

\* A look that throws: where it was awaited the pack is as the bar and the panel have it,
\* or is excepted.
LEMMA LookFailsKeeps ==
    ASSUME PacksInv, NEW missed, Watched(missed), NEW q \in Packs,
           (LookBarFails(q) /\ q \in missed) \/ (LookPanelFails /\ missed = Packs) \/ RemoveFails(q)
    PROVE  PacksInv'
<1>1. UNCHANGED <<cached, jobs, view>>
    BY DEF LookBarFails, LookPanelFails, RemoveFails
<1>2. PacksTyped'
    <2>1. DOMAIN ready' = Packs
        BY DEF LookBarFails, LookPanelFails, RemoveFails, PacksInv, PacksTyped
    <2>2. probing' \in [Packs -> SUBSET (BOOLEAN \cup {None})]
        BY DEF LookBarFails, LookPanelFails, RemoveFails, PacksInv, PacksTyped
    <2>3. surveys' \subseteq {None} \cup [Packs -> BOOLEAN]
        BY DEF LookBarFails, LookPanelFails, RemoveFails, LookAgain, PacksInv, PacksTyped
    <2> QED
        BY <1>1, <2>1, <2>2, <2>3 DEF PacksInv, PacksTyped
<1>3. ASSUME NEW p \in Packs, p \notin raced' PROVE PackKept(p)'
    <2>1. PackKept(p) /\ ~Crowded(p)' /\ (p \in missed => ~Mistaken(p)')
        BY <1>3, NotRaced DEF PacksInv
    <2>2. LastIsAll(p)' /\ Downloading(p)' /\ Ready(p)' = Ready(p)
        BY <1>1, <2>1, DownloadsStay DEF PackKept
    <2>3. \A a \in probing'[p] : a \in probing[p] \/ a = None \/ a = Ready(p)
        BY DEF LookBarFails, LookPanelFails, RemoveFails, PacksInv, PacksTyped
    <2>4. \A seen \in surveys' : seen \in surveys \/ seen = None \/ seen = Looked
        BY DEF LookBarFails, LookPanelFails, RemoveFails, LookAgain
    <2>5. ~OldLook(p)'
        BY <2>1, <2>2, <2>3, <2>4, LooksStay DEF PacksInv, PackKept
    <2>6. Shown(p)' = Shown(p)
        BY <1>1 DEF Shown
    <2>7. Ready(p) \in BOOLEAN
        BY DEF Ready
    <2>8. CASE LookPanelFails /\ missed = Packs
        <3>1. Shown(p) = Ready(p)
            BY <2>1, <2>2, <2>6, <2>8 DEF Mistaken
        <3>2. UNCHANGED <<ready, probing, removing>>
            BY <2>8 DEF LookPanelFails
        <3> QED
            BY <2>1, <2>2, <2>5, <2>6, <3>1, <3>2
            DEF PackKept, ShownIsReady, RemovedIsShown, BarIsTold
    <2>9. CASE RemoveFails(q)
        <3>1. /\ UNCHANGED <<ready, probing>> /\ removing' \subseteq removing /\ surveys' # {}
            BY <2>9 DEF RemoveFails, LookAgain
        <3>2. ShownIsReady(p)' /\ RemovedIsShown(p)'
            BY <2>1, <2>2, <2>6, <3>1 DEF PackKept, ShownIsReady, RemovedIsShown
        <3>3. BarIsTold(p)'
            BY <1>1, <2>1, <2>2, <2>6, <3>1 DEF PackKept, BarIsTold
        <3> QED
            BY <2>1, <2>2, <2>5, <3>2, <3>3 DEF PackKept
    <2>10. CASE LookBarFails(q) /\ q \in missed
        <3>1. UNCHANGED <<surveys, removing>>
            BY <2>10 DEF LookBarFails
        <3>2. ShownIsReady(p)' /\ RemovedIsShown(p)'
            BY <2>1, <2>2, <2>6, <3>1 DEF PackKept, ShownIsReady, RemovedIsShown
        <3>3. BarIsTold(p)'
            <4>1. CASE p # q
                <5>1. ready'[p] = ready[p] /\ probing'[p] = probing[p]
                    BY <2>10, <4>1 DEF LookBarFails, PacksInv, PacksTyped
                <5> QED
                    BY <1>1, <2>1, <2>2, <2>6, <3>1, <5>1 DEF PackKept, BarIsTold
            <4>2. CASE p = q
                <5>1. ready'[p] = IF ready[p] = None THEN FALSE ELSE ready[p]
                    BY <2>10, <4>2 DEF LookBarFails, PacksInv, PacksTyped
                <5>2. ready'[p] \in {Ready(p)', None} /\ ready'[p] # None
                    BY <2>1, <2>10, <4>2, <5>1, PacksAssumption DEF Mistaken
                <5> QED
                    BY <5>2 DEF BarIsTold
            <4> QED
                BY <4>1, <4>2
        <3> QED
            BY <2>1, <2>2, <2>5, <3>2, <3>3 DEF PackKept
    <2> QED
        BY <2>8, <2>9, <2>10
<1> QED
    BY <1>2, <1>3 DEF PacksInv

\* The panel's view lands; where it says something new the bars look again.
LEMMA LandPanelKeeps ==
    ASSUME PacksInv, NEW missed, Watched(missed), LandPanel
    PROVE  PacksInv'
<1>1. PICK seen \in surveys \ {None} :
          /\ view' = seen
          /\ surveys' = surveys \ {seen}
          /\ probing' = IF \A p \in Packs : Shown(p) = seen[p] THEN probing
                        ELSE [p \in Packs |-> probing[p] \cup {None}]
          /\ StartAutomatically(autoDownload, seen)
    BY DEF LandPanel
<1>2. UNCHANGED <<cached, ready, removing>>
    BY DEF LandPanel
<1>3. Started
    BY <1>1, WithStarts DEF StartAutomatically, StartAll, CanStart, Started
<1>4. seen \in [Packs -> BOOLEAN] /\ seen # None
    BY <1>1 DEF PacksInv, PacksTyped
<1>5. PacksTyped'
    BY <1>1, <1>2, <1>3, <1>4, StartedStay DEF PacksInv, PacksTyped
<1>6. \A p \in Packs : Shown(p)' = seen[p]
    BY <1>1, <1>4 DEF Shown
<1>7. ASSUME NEW p \in Packs, p \notin raced' PROVE PackKept(p)'
    <2>1. PackKept(p) /\ ~Crowded(p)'
        BY <1>7, NotRaced DEF PacksInv
    <2>2. LastIsAll(p)' /\ Downloading(p)' /\ Ready(p)' = Ready(p)
        BY <1>2, <1>3, <2>1, StartedStay DEF PacksInv, PackKept
    <2>3. \A a \in probing'[p] : a \in probing[p] \/ a = None \/ a = Ready(p)
        BY <1>1
    <2>4. \A s \in surveys' : s \in surveys \/ s = None \/ s = Looked
        BY <1>1
    <2>5. ~OldLook(p)'
        BY <2>1, <2>2, <2>3, <2>4, LooksStay DEF PacksInv, PackKept
    <2>6. seen[p] \in BOOLEAN /\ seen[p] # ~Ready(p) /\ Ready(p) \in BOOLEAN
        BY <1>1, <1>4, <2>1 DEF PackKept, OldLook, Ready
    <2>7. seen[p] = Ready(p)
        BY <2>6
    <2>8. ShownIsReady(p)' /\ RemovedIsShown(p)'
        BY <1>6, <2>2, <2>7 DEF ShownIsReady, RemovedIsShown
    <2>9. BarIsTold(p)'
        <3>1. CASE Shown(p) = seen[p]
            <4>1. ready[p] = Ready(p) \/ probing[p] # {}
                BY <2>1, <2>7, <3>1 DEF PackKept, BarIsTold
            <4>2. probing[p] # {} => probing'[p] # {}
                BY <1>1
            <4> QED
                BY <1>2, <2>2, <4>1, <4>2 DEF BarIsTold
        <3>2. CASE Shown(p) # seen[p]
            <4>1. probing'[p] # {}
                BY <1>1, <3>2
            <4> QED
                BY <4>1 DEF BarIsTold
        <3> QED
            BY <3>1, <3>2
    <2> QED
        BY <2>1, <2>2, <2>5, <2>8, <2>9 DEF PackKept
<1> QED
    BY <1>5, <1>7 DEF PacksInv

\* A pack is gone: the panel showed it and will look, so the bar will be told.
LEMMA DeletedKeeps ==
    ASSUME PacksInv, NEW missed, Watched(missed), NEW q \in Packs, Deleted(q)
    PROVE  PacksInv'
<1>1. /\ q \in removing /\ removing' = removing \ {q}
      /\ cached' = [cached EXCEPT ![q] = {}]
      /\ surveys' = surveys \cup {None}
      /\ UNCHANGED <<ready, probing, view>>
    BY DEF Deleted, LookAgain
<1>2. /\ DOMAIN jobs' = DOMAIN jobs
      /\ \A w \in DOMAIN jobs :
             jobs'[w] = IF jobs[w].pack = q /\ jobs[w].at # "ask" THEN [jobs[w] EXCEPT !.gone = TRUE]
                        ELSE jobs[w]
    BY DEF Deleted
<1>3. ASSUME NEW w \in DOMAIN jobs
      PROVE  JobIs(jobs'[w]) /\ jobs'[w].pack = jobs[w].pack
    <2>1. JobIs(jobs[w])
        BY DEF PacksInv, PacksTyped
    <2>2. CASE jobs[w].pack = q /\ jobs[w].at # "ask"
        BY <1>2, <2>1, <2>2 DEF JobIs
    <2>3. CASE ~(jobs[w].pack = q /\ jobs[w].at # "ask")
        BY <1>2, <2>1, <2>3
    <2> QED
        BY <2>2, <2>3
<1>4. PacksTyped'
    BY <1>1, <1>2, <1>3 DEF PacksInv, PacksTyped
<1>5. ASSUME NEW p \in Packs, p \notin raced' PROVE PackKept(p)'
    <2>1. /\ PackKept(p) /\ ~Crowded(p)'
          /\ Ready(p)' # Ready(p) => ~OldLook(p)' /\ surveys = {}
        BY <1>5, NotRaced DEF PacksInv
    <2>2. Shown(p)' = Shown(p) /\ surveys' # {}
        BY <1>1 DEF Shown
    <2>3. Ready(p)' # Ready(p) \/ ~OldLook(p)'
        <3>1. \A a \in probing'[p] : a \in probing[p] \/ a = None \/ a = Ready(p)
            BY <1>1
        <3>2. \A seen \in surveys' : seen \in surveys \/ seen = None \/ seen = Looked
            BY <1>1
        <3> QED
            BY <2>1, <3>1, <3>2, LooksStay DEF PacksInv, PackKept
    <2>4. ~OldLook(p)'
        BY <2>1, <2>3
    <2>5. CASE p = q
        <3>1. cached'[p] = {}
            BY <1>1, <2>5 DEF PacksInv, PacksTyped
        <3>2. ~Ready(p)' /\ Files[p] \notin cached'[p]
            BY <3>1, FilesType DEF Ready
        <3>3. JobsOn(p)' = {}
            <4>1. JobsOn(p) = {}
                BY <1>1, <2>1, <2>5 DEF PackKept, Crowded
            <4> QED
                BY <1>2, <1>3, <4>1 DEF JobsOn
        <3>4. LastIsAll(p)' /\ Downloading(p)'
            BY <3>2, <3>3 DEF LastIsAll, Downloading
        <3>5. ShownIsReady(p)' /\ RemovedIsShown(p)'
            BY <2>2, <3>2 DEF ShownIsReady, RemovedIsShown
        <3>6. BarIsTold(p)'
            <4>1. Ready(p) \in BOOLEAN /\ Ready(p)' \in BOOLEAN
                BY DEF Ready
            <4>2. CASE Ready(p)
                BY <1>1, <2>1, <2>2, <2>5, <3>2, <4>2 DEF PackKept, RemovedIsShown, BarIsTold
            <4>3. CASE ~Ready(p)
                <5>1. Ready(p)' = Ready(p)
                    BY <3>2, <4>1, <4>3
                <5> QED
                    BY <1>1, <1>2, <2>1, <2>2, <5>1 DEF PackKept, BarIsTold
            <4> QED
                BY <4>2, <4>3
        <3> QED
            BY <2>1, <2>4, <3>4, <3>5, <3>6 DEF PackKept
    <2>6. CASE p # q
        <3>1. cached'[p] = cached[p]
            BY <1>1, <2>6 DEF PacksInv, PacksTyped
        <3>2. \A w \in DOMAIN jobs' : jobs'[w].pack = p => w \in DOMAIN jobs /\ jobs'[w] = jobs[w]
            BY <1>2, <1>3, <2>6
        <3>3. LastIsAll(p)' /\ Downloading(p)' /\ Ready(p)' = Ready(p)
            BY <2>1, <3>1, <3>2, DownloadsStay DEF PackKept
        <3>4. ShownIsReady(p)' /\ RemovedIsShown(p)'
            BY <1>1, <2>1, <2>2, <3>3 DEF PackKept, ShownIsReady, RemovedIsShown
        <3>5. BarIsTold(p)'
            BY <1>1, <2>1, <2>2, <3>3 DEF PackKept, BarIsTold
        <3> QED
            BY <2>1, <2>4, <3>3, <3>4, <3>5 DEF PackKept
    <2> QED
        BY <2>5, <2>6
<1> QED
    BY <1>4, <1>5 DEF PacksInv

\* A page begins again with whatever is in the cache.
LEMMA ReloadKeeps ==
    ASSUME PacksInv, NEW missed, Watched(missed), Reload
    PROVE  PacksInv'
<1>1. PICK gone \in SUBSET removing :
          cached' = [p \in Packs |-> IF p \in gone THEN {} ELSE cached[p]]
    BY DEF Reload
<1>2. /\ ready' = [p \in Packs |-> None] /\ probing' = [p \in Packs |-> {None}]
      /\ view' = None /\ surveys' = {None} /\ jobs' = << >> /\ removing' = {}
    BY DEF Reload
<1>3. DOMAIN jobs' = {}
    BY <1>2, NothingUnderWay
<1>4. PacksTyped'
    BY <1>1, <1>2, <1>3 DEF PacksInv, PacksTyped
<1>5. ASSUME NEW p \in Packs, p \notin raced' PROVE PackKept(p)'
    <2>1. PackKept(p) /\ ~Crowded(p)'
        BY <1>5, NotRaced DEF PacksInv
    <2>2. LastIsAll(p)'
        <3>1. cached'[p] = {} \/ cached'[p] = cached[p]
            BY <1>1
        <3> QED
            BY <2>1, <3>1 DEF PackKept, LastIsAll, Ready
    <2>3. Downloading(p)'
        BY <1>3 DEF Downloading, JobsOn
    <2>4. ~OldLook(p)'
        <3>1. (~Ready(p)') # None
            BY PacksAssumption
        <3> QED
            BY <1>2, <3>1 DEF OldLook
    <2>5. ShownIsReady(p)' /\ RemovedIsShown(p)' /\ BarIsTold(p)'
        BY <1>2 DEF ShownIsReady, RemovedIsShown, BarIsTold
    <2> QED
        BY <2>1, <2>2, <2>3, <2>4, <2>5 DEF PackKept
<1> QED
    BY <1>4, <1>5 DEF PacksInv

-----------------------------------------------------------------------------
(* Packs: a download goes on.                                               *)

\* What the end of a download leaves: of the others nothing changes; the panel's goes on
\* with another pack or looks, a bar takes the outcome for the truth.
LEMMA OverLeaves ==
    ASSUME NEW w \in DOMAIN jobs, NEW ok \in BOOLEAN, Over(w, ok)
    PROVE  /\ \A v \in DOMAIN jobs \ {w} : v \in DOMAIN jobs' /\ jobs'[v] = jobs[v]
           /\ DOMAIN jobs' \subseteq DOMAIN jobs
           /\ w \in DOMAIN jobs' => jobs'[w] = Job(jobs'[w].pack, jobs'[w].rest)
           /\ surveys \subseteq surveys' /\ surveys' \subseteq surveys \cup {None}
           /\ w \in {All, One} => ready' = ready /\ (w \in DOMAIN jobs' \/ surveys' # {})
           /\ w \notin {All, One} => ready' = [ready EXCEPT ![jobs[w].pack] = ok]
<1>1. CASE w = All /\ jobs[w].rest # << >>
    <2> DEFINE job == Job(Head(jobs[w].rest), Tail(jobs[w].rest))
    <2>1. jobs' = With(w, job) /\ UNCHANGED <<surveys, ready>>
        BY <1>1 DEF Over
    <2>2. job = Job(job.pack, job.rest)
        BY JobIsJob
    <2> HIDE DEF job
    <2>3. DOMAIN jobs' = DOMAIN jobs /\ jobs'[w] = job /\ \A v \in DOMAIN jobs \ {w} : jobs'[v] = jobs[v]
        BY <2>1 DEF With
    <2> QED
        BY <1>1, <2>1, <2>2, <2>3
<1>2. CASE ~(w = All /\ jobs[w].rest # << >>)
    <2>1. /\ jobs' = Without(w)
          /\ w \in {All, One} => surveys' = surveys \cup {None} /\ ready' = ready
          /\ w \notin {All, One} => ready' = [ready EXCEPT ![jobs[w].pack] = ok] /\ surveys' = surveys
        BY <1>2 DEF Over, LookAgain
    <2>2. DOMAIN jobs' = DOMAIN jobs \ {w} /\ \A v \in DOMAIN jobs \ {w} : jobs'[v] = jobs[v]
        BY <2>1 DEF Without
    <2> QED
        BY <2>1, <2>2
<1> QED
    BY <1>1, <1>2

\* A step of download w of pack p: its own pack's cache grows by the file it put, which is
\* the next one, and if the step is its last the outcome is what the cache says.
Proceeds(w, p) ==
    /\ \A v \in DOMAIN jobs \ {w} : v \in DOMAIN jobs' /\ jobs'[v] = jobs[v]
    /\ DOMAIN jobs' \subseteq DOMAIN jobs
    /\ \A q \in Packs \ {p} : cached'[q] = cached[q] /\ ready'[q] = ready[q]
    /\ w \in DOMAIN jobs' =>
           /\ JobIs(jobs'[w])
           /\ jobs'[w].at # "ask" => jobs'[w].pack = p /\ jobs'[w].gone = jobs[w].gone
    /\ surveys \subseteq surveys' /\ surveys' \subseteq surveys \cup {None}
    /\ w \in {All, One} => ready' = ready /\ (w \in DOMAIN jobs' \/ surveys' # {})

LEMMA OverProceeds ==
    ASSUME PacksTyped, NEW w \in DOMAIN jobs, NEW ok \in BOOLEAN, Over(w, ok),
           \A q \in Packs \ {jobs[w].pack} : cached'[q] = cached[q]
    PROVE  /\ Proceeds(w, jobs[w].pack)
           /\ w \in DOMAIN jobs' => jobs'[w].at = "ask"
<1> DEFINE p == jobs[w].pack
<1>1. /\ \A v \in DOMAIN jobs \ {w} : v \in DOMAIN jobs' /\ jobs'[v] = jobs[v]
      /\ DOMAIN jobs' \subseteq DOMAIN jobs
      /\ w \in DOMAIN jobs' => jobs'[w] = Job(jobs'[w].pack, jobs'[w].rest)
      /\ surveys \subseteq surveys' /\ surveys' \subseteq surveys \cup {None}
      /\ w \in {All, One} => ready' = ready /\ (w \in DOMAIN jobs' \/ surveys' # {})
      /\ w \notin {All, One} => ready' = [ready EXCEPT ![p] = ok]
    BY OverLeaves
<1>2. w \in DOMAIN jobs' => JobIs(jobs'[w]) /\ jobs'[w].at = "ask"
    BY <1>1, JobIsJob
<1> HIDE DEF p
<1>3. \A q \in Packs \ {p} : ready'[q] = ready[q]
    BY <1>1 DEF PacksTyped
<1>4. \A q \in Packs \ {p} : cached'[q] = cached[q]
    BY DEF p
<1>5. Proceeds(w, p)
    BY <1>1, <1>2, <1>3, <1>4 DEF Proceeds
<1> QED
    BY <1>2, <1>5 DEF p

\* The bars and the panel where a download proceeds: nothing changes for another pack, and
\* where the pack itself becomes ready the panel has not shown it.
LEMMA ProceedsKeeps ==
    ASSUME PacksInv, NEW missed, Watched(missed), NEW w \in DOMAIN jobs, NEW m, m = jobs[w].pack, Proceeds(w, m),
           UNCHANGED <<probing, view, removing>>,
           \A p \in Packs : cached'[p] \subseteq 1..Files[p],
           cached' \in [Packs -> SUBSET Nat], DOMAIN ready' = Packs,
           m \in Packs \ (raced \cup raced') =>
               /\ LastIsAll(m)' /\ Downloading(m)'
               /\ Ready(m) => Ready(m)'
               /\ \/ w \in {All, One}
                  \/ ready'[m] = Ready(m)'
                  \/ ready' = ready /\ Ready(m)' = Ready(m)
    PROVE  PacksInv'
<1>1. PacksTyped'
    <2>1. \A v \in DOMAIN jobs' : JobIs(jobs'[v])
        BY DEF Proceeds, PacksInv, PacksTyped
    <2>2. surveys' \subseteq {None} \cup [Packs -> BOOLEAN]
        BY DEF Proceeds, PacksInv, PacksTyped
    <2> QED
        BY <2>1, <2>2 DEF PacksInv, PacksTyped
<1>2. ASSUME NEW p \in Packs, p \notin raced' PROVE PackKept(p)'
    <2>1. /\ PackKept(p) /\ ~Crowded(p)' /\ p \notin raced
          /\ Ready(p)' # Ready(p) => ~OldLook(p)' /\ surveys = {}
        BY <1>2, NotRaced DEF PacksInv
    <2>2. Shown(p)' = Shown(p)
        BY DEF Shown
    <2>3. surveys # {} => surveys' # {}
        BY DEF Proceeds
    <2>4. LastIsAll(p)' /\ Downloading(p)'
        <3>1. CASE p = m
            BY <1>2, <2>1, <3>1
        <3>2. CASE p # m
            <4>1. cached'[p] = cached[p]
                BY <3>2 DEF Proceeds
            <4>2. \A v \in DOMAIN jobs' : jobs'[v].pack = p /\ jobs'[v].at # "ask" =>
                     v \in DOMAIN jobs /\ jobs'[v] = jobs[v]
                BY <3>2 DEF Proceeds
            <4> QED
                BY <2>1, <4>1, <4>2, DownloadsStay DEF PackKept
        <3> QED
            BY <3>1, <3>2
    <2>5. Ready(p) => Ready(p)'
        <3>1. CASE p = m
            BY <1>2, <2>1, <3>1
        <3>2. CASE p # m
            BY <3>2 DEF Proceeds, Ready
        <3> QED
            BY <3>1, <3>2
    <2>6. Ready(p) \in BOOLEAN /\ Ready(p)' \in BOOLEAN
        BY DEF Ready
    <2>7. Shown(p) \in BOOLEAN
        BY DEF Shown, PacksInv, PacksTyped
    <2>8. ~OldLook(p)'
        <3>1. \A a \in probing'[p] : a \in probing[p] \/ a = None \/ a = Ready(p)
            OBVIOUS
        <3>2. \A seen \in surveys' : seen \in surveys \/ seen = None \/ seen = Looked
            BY DEF Proceeds
        <3> QED
            BY <2>1, <3>1, <3>2, LooksStay DEF PacksInv, PackKept
    <2>9. ShownIsReady(p)'
        BY <2>1, <2>2, <2>3, <2>5 DEF PackKept, ShownIsReady
    <2>10. RemovedIsShown(p)'
        <3>1. CASE Ready(p)' = Ready(p)
            BY <2>1, <2>2, <3>1 DEF PackKept, RemovedIsShown
        <3>2. CASE Ready(p)' # Ready(p)
            <4>1. p = m
                BY <3>2 DEF Proceeds, Ready
            <4>2. w \in JobsOn(p)
                BY <4>1 DEF JobsOn
            <4>3. p \notin removing
                BY <2>1, <4>2 DEF PackKept, Crowded
            <4> QED
                BY <4>3 DEF RemovedIsShown
        <3> QED
            BY <3>1, <3>2
    <2>11. BarIsTold(p)'
        <3>1. CASE p # m \/ (ready' = ready /\ Ready(p)' = Ready(p))
            <4>1. ready'[p] = ready[p] /\ Ready(p)' = Ready(p)
                BY <3>1 DEF Proceeds, Ready
            <4>2. Ready(p)' # Shown(p)' /\ (surveys # {} \/ All \in DOMAIN jobs \/ One \in DOMAIN jobs)
                     => surveys' # {} \/ All \in DOMAIN jobs' \/ One \in DOMAIN jobs'
                BY <2>3 DEF Proceeds
            <4> QED
                BY <2>1, <2>2, <4>1, <4>2 DEF PackKept, BarIsTold
        <3>2. CASE p = m /\ ready'[p] = Ready(p)'
            BY <3>2 DEF BarIsTold
        <3>3. CASE p = m /\ w \in {All, One}
            <4>1. ready' = ready /\ (surveys' # {} \/ All \in DOMAIN jobs' \/ One \in DOMAIN jobs')
                BY <3>3 DEF Proceeds
            <4>2. CASE Ready(p)' = Ready(p)
                BY <2>1, <2>2, <4>1, <4>2 DEF PackKept, BarIsTold
            <4>3. CASE Ready(p)' # Ready(p)
                <5>1. ~Shown(p) /\ Ready(p)'
                    BY <2>1, <2>5, <2>6, <4>3 DEF PackKept, ShownIsReady
                <5>2. Shown(p)' # Ready(p)'
                    BY <2>2, <2>6, <2>7, <5>1
                <5> QED
                    BY <4>1, <5>2 DEF BarIsTold
            <4> QED
                BY <4>2, <4>3
        <3> QED
            BY <1>2, <2>1, <3>1, <3>2, <3>3
    <2> QED
        BY <2>1, <2>4, <2>8, <2>9, <2>10, <2>11 DEF PackKept
<1> QED
    BY <1>1, <1>2 DEF PacksInv

\* A download on to its next point, with nothing of any other changed.
Moves(w, at, file) ==
    /\ jobs' = [jobs EXCEPT ![w].at = at, ![w].file = file]
    /\ UNCHANGED <<surveys, ready>>

LEMMA MovesProceeds ==
    ASSUME PacksTyped, NEW w \in DOMAIN jobs, NEW at \in {"fetch", "put"}, NEW file, Moves(w, at, file),
           jobs[w].pack \in Packs => file \in 1..Files[jobs[w].pack],
           \A q \in Packs \ {jobs[w].pack} : cached'[q] = cached[q]
    PROVE  /\ Proceeds(w, jobs[w].pack)
           /\ DOMAIN jobs' = DOMAIN jobs
           /\ \A v \in DOMAIN jobs : jobs'[v].pack = jobs[v].pack
           /\ jobs'[w].at = at /\ jobs'[w].file = file /\ jobs'[w].gone = jobs[w].gone
           /\ ready' = ready
<1>1. JobIs(jobs[w])
    BY DEF PacksTyped
<1>2. jobs[w] = [at |-> jobs[w].at, pack |-> jobs[w].pack, file |-> jobs[w].file,
                 gone |-> jobs[w].gone, rest |-> jobs[w].rest]
    BY <1>1 DEF JobIs
<1>3. /\ DOMAIN jobs' = DOMAIN jobs
      /\ jobs'[w] = [at |-> at, pack |-> jobs[w].pack, file |-> file,
                     gone |-> jobs[w].gone, rest |-> jobs[w].rest]
      /\ \A v \in DOMAIN jobs \ {w} : jobs'[v] = jobs[v]
    BY <1>2 DEF Moves
<1>4. JobIs(jobs'[w])
    BY <1>3 DEF JobIs
<1>5. Proceeds(w, jobs[w].pack)
    BY <1>3, <1>4 DEF Proceeds, Moves
<1> QED
    BY <1>3, <1>5 DEF Moves

LEMMA AskKeeps ==
    ASSUME PacksInv, NEW missed, Watched(missed), NEW w \in DOMAIN jobs, AskReady(w)
    PROVE  PacksInv'
<1>1. /\ jobs[w].at = "ask" /\ cached' = cached
      /\ UNCHANGED <<probing, view, removing>>
    BY DEF AskReady, idle
<1>2. PacksTyped /\ JobIs(jobs[w])
    BY DEF PacksInv, PacksTyped
<1>3. PICK m : m = jobs[w].pack
    OBVIOUS
<1>4. cached' \in [Packs -> SUBSET Nat] /\ \A p \in Packs : cached'[p] \subseteq 1..Files[p]
    BY <1>1, <1>2 DEF PacksTyped
<1>5. CASE Ready(m)
    <2>1. Over(w, TRUE)
        BY <1>3, <1>5 DEF AskReady
    <2>2. Proceeds(w, m) /\ (w \in DOMAIN jobs' => jobs'[w].at = "ask")
        BY <1>1, <1>2, <1>3, <2>1, OverProceeds
    <2>3. w \notin {All, One} => ready' = [ready EXCEPT ![m] = TRUE]
        BY <1>3, <2>1, OverLeaves
    <2>4. DOMAIN ready' = Packs
        BY <1>2, <2>2, <2>3 DEF Proceeds, PacksTyped
    <2>5. ASSUME m \in Packs \ raced
          PROVE  /\ LastIsAll(m)' /\ Downloading(m)' /\ Ready(m)' = Ready(m)
                 /\ w \in {All, One} \/ ready'[m] = Ready(m)'
        <3>1. PackKept(m)
            BY <2>5 DEF PacksInv
        <3>2. \A v \in DOMAIN jobs' : jobs'[v].pack = m /\ jobs'[v].at # "ask" =>
                 v \in DOMAIN jobs /\ jobs'[v] = jobs[v]
            BY <2>2 DEF Proceeds
        <3>3. LastIsAll(m)' /\ Downloading(m)' /\ Ready(m)' = Ready(m)
            BY <1>1, <2>5, <3>1, <3>2, DownloadsStay DEF PackKept
        <3>4. Ready(m) = TRUE
            BY <1>5 DEF Ready
        <3> QED
            BY <1>2, <2>3, <2>5, <3>3, <3>4 DEF PacksTyped
    <2> QED
        BY <1>1, <1>3, <1>4, <2>2, <2>4, <2>5, ProceedsKeeps
<1>6. CASE ~Ready(m)
    <2>1. jobs' = [jobs EXCEPT ![w].at = "fetch"] /\ UNCHANGED <<surveys, ready>>
        BY <1>3, <1>6 DEF AskReady
    <2>2. Moves(w, "fetch", jobs[w].file)
        <3>1. [jobs EXCEPT ![w].at = "fetch"] = [jobs EXCEPT ![w].at = "fetch", ![w].file = jobs[w].file]
            BY <1>2 DEF JobIs
        <3> QED
            BY <2>1, <3>1 DEF Moves
    <2>3. jobs[w].file = 1 /\ jobs[w].gone = FALSE
        BY <1>1, <1>2 DEF JobIs
    <2>4. m \in Packs => jobs[w].file \in 1..Files[m]
        BY <1>2, <1>3 DEF JobIs
    <2>5. /\ Proceeds(w, m) /\ ready' = ready
          /\ jobs'[w].file = 1 /\ jobs'[w].gone = FALSE
        BY <1>1, <1>2, <1>3, <2>2, <2>3, <2>4, MovesProceeds
    <2>6. ASSUME m \in Packs \ raced
          PROVE  LastIsAll(m)' /\ Downloading(m)' /\ Ready(m)' = Ready(m)
        <3>1. PackKept(m)
            BY <2>6 DEF PacksInv
        <3>2. Ready(m)' = Ready(m)
            BY <1>1 DEF Ready
        <3>3. Downloading(m)'
            BY <1>1, <1>6, <2>5, <3>1, <3>2 DEF PackKept, Downloading, JobsOn, Proceeds
        <3> QED
            BY <1>1, <3>1, <3>2, <3>3 DEF PackKept, LastIsAll
    <2> QED
        BY <1>1, <1>2, <1>3, <1>4, <2>5, <2>6, ProceedsKeeps DEF PacksTyped
<1> QED
    BY <1>5, <1>6

\* A download fails, at whatever point: one that has only asked may leave its bar wrong,
\* but then its pack is excepted.
LEMMA FailKeeps ==
    ASSUME PacksInv, NEW missed, Watched(missed), NEW w \in DOMAIN jobs, Over(w, FALSE),
           UNCHANGED <<cached, probing, view, removing>>, jobs[w].at = "ask" => jobs[w].pack \in missed
    PROVE  PacksInv'
<1>1. PacksTyped /\ JobIs(jobs[w])
    BY DEF PacksInv, PacksTyped
<1>2. PICK m : m = jobs[w].pack
    OBVIOUS
<1>3. cached' \in [Packs -> SUBSET Nat] /\ \A p \in Packs : cached'[p] \subseteq 1..Files[p]
    BY <1>1 DEF PacksTyped
<1>4. Proceeds(w, m) /\ (w \in DOMAIN jobs' => jobs'[w].at = "ask")
    BY <1>1, <1>2, OverProceeds
<1>5. w \notin {All, One} => ready' = [ready EXCEPT ![m] = FALSE]
    BY <1>2, OverLeaves
<1>6. DOMAIN ready' = Packs
    BY <1>1, <1>4, <1>5 DEF Proceeds, PacksTyped
<1>7. ASSUME m \in Packs \ (raced \cup raced')
      PROVE  /\ LastIsAll(m)' /\ Downloading(m)' /\ Ready(m)' = Ready(m)
             /\ w \in {All, One} \/ ready'[m] = Ready(m)'
    <2>1. PackKept(m)
        BY <1>7 DEF PacksInv
    <2>2. \A v \in DOMAIN jobs' : jobs'[v].pack = m /\ jobs'[v].at # "ask" =>
             v \in DOMAIN jobs /\ jobs'[v] = jobs[v]
        BY <1>4 DEF Proceeds
    <2>3. LastIsAll(m)' /\ Downloading(m)' /\ Ready(m)' = Ready(m)
        BY <1>7, <2>1, <2>2, DownloadsStay DEF PackKept
    <2>4. w \notin {All, One} => ready'[m] = FALSE
        BY <1>1, <1>5, <1>7 DEF PacksTyped
    <2>5. Ready(m) \in BOOLEAN
        BY DEF Ready
    <2>6. CASE jobs[w].at = "ask"
        <3>1. ready'[m] \in {Ready(m)', None}
            BY <1>2, <1>7, <2>6, NotRaced DEF Mistaken
        <3>2. FALSE # None
            BY PacksAssumption
        <3> QED
            BY <2>3, <2>4, <3>1, <3>2
    <2>7. CASE jobs[w].at # "ask"
        <3>1. ~Ready(m)
            BY <1>2, <2>1, <2>7 DEF PackKept, Downloading, JobsOn
        <3>2. Ready(m) = FALSE
            BY <3>1, <2>5
        <3> QED
            BY <2>3, <2>4, <3>2
    <2> QED
        BY <2>6, <2>7
<1> QED
    BY <1>2, <1>3, <1>4, <1>6, <1>7, ProceedsKeeps

\* The loop of downloadAll dies at its own check: what its packs' bars should have been
\* told they are not, and these packs are excepted.
LEMMA LoopDiesKeeps ==
    ASSUME PacksInv, Watched(Packs), LoopDies
    PROVE  PacksInv'
<1>1. /\ All \in DOMAIN jobs /\ jobs' = Without(All)
      /\ UNCHANGED <<cached, ready, probing, view, surveys, removing>>
    BY DEF LoopDies, idle
<1>2. \A v \in DOMAIN jobs' : v \in DOMAIN jobs /\ jobs'[v] = jobs[v]
    BY <1>1 DEF Without
<1>3. PacksTyped'
    BY <1>1, <1>2 DEF PacksInv, PacksTyped
<1>4. ASSUME NEW p \in Packs, p \notin raced' PROVE PackKept(p)'
    <2>1. PackKept(p) /\ ~Crowded(p)' /\ ~Mistaken(p)'
        BY <1>4, NotRaced DEF PacksInv
    <2>2. LastIsAll(p)' /\ Downloading(p)' /\ Ready(p)' = Ready(p)
        BY <1>1, <1>2, <2>1, DownloadsStay DEF PackKept
    <2>3. ~OldLook(p)'
        BY <1>1, <2>1, <2>2, LooksStay DEF PacksInv, PackKept
    <2>4. ShownIsReady(p)' /\ RemovedIsShown(p)'
        BY <2>1 DEF Mistaken, ShownIsReady, RemovedIsShown
    <2>5. Shown(p)' = Shown(p)
        BY <1>1 DEF Shown
    <2>6. BarIsTold(p)'
        BY <1>1, <2>1, <2>2, <2>5 DEF PackKept, BarIsTold, Mistaken
    <2> QED
        BY <2>1, <2>2, <2>3, <2>4, <2>6 DEF PackKept
<1> QED
    BY <1>3, <1>4 DEF PacksInv

LEMMA FetchKeeps ==
    ASSUME PacksInv, NEW missed, Watched(missed), NEW w \in DOMAIN jobs, FetchFile(w)
    PROVE  PacksInv'
<1>1. /\ jobs[w].at = "fetch" /\ cached' = cached
      /\ UNCHANGED <<probing, view, removing>>
    BY DEF FetchFile, idle
<1>2. PacksTyped /\ JobIs(jobs[w])
    BY DEF PacksInv, PacksTyped
<1>3. PICK m : m = jobs[w].pack
    OBVIOUS
<1>4. cached' \in [Packs -> SUBSET Nat] /\ \A p \in Packs : cached'[p] \subseteq 1..Files[p]
    BY <1>1, <1>2 DEF PacksTyped
<1>5. CASE Over(w, FALSE)
    BY <1>1, <1>5, FailKeeps
<1>6. CASE jobs' = [jobs EXCEPT ![w].at = "put"] /\ UNCHANGED <<surveys, ready>>
    <2>2. Moves(w, "put", jobs[w].file)
        <3>1. [jobs EXCEPT ![w].at = "put"] = [jobs EXCEPT ![w].at = "put", ![w].file = jobs[w].file]
            BY <1>2 DEF JobIs
        <3> QED
            BY <1>6, <3>1 DEF Moves
    <2>4. m \in Packs => jobs[w].file \in 1..Files[m]
        BY <1>2, <1>3 DEF JobIs
    <2>5. /\ Proceeds(w, m) /\ ready' = ready
          /\ jobs'[w].file = jobs[w].file /\ jobs'[w].gone = jobs[w].gone
        BY <1>1, <1>2, <1>3, <2>2, <2>4, MovesProceeds
    <2>6. ASSUME m \in Packs \ raced
          PROVE  LastIsAll(m)' /\ Downloading(m)' /\ Ready(m)' = Ready(m)
        <3>1. PackKept(m)
            BY <2>6 DEF PacksInv
        <3>2. Ready(m)' = Ready(m)
            BY <1>1 DEF Ready
        <3>3. Downloading(m)'
            BY <1>1, <1>3, <2>5, <3>1, <3>2 DEF PackKept, Downloading, JobsOn, Proceeds
        <3> QED
            BY <1>1, <3>1, <3>2, <3>3 DEF PackKept, LastIsAll
    <2> QED
        BY <1>1, <1>2, <1>3, <1>4, <2>5, <2>6, ProceedsKeeps DEF PacksTyped
<1> QED
    BY <1>5, <1>6 DEF FetchFile

LEMMA PutKeeps ==
    ASSUME PacksInv, NEW missed, Watched(missed), NEW w \in DOMAIN jobs, PutFile(w)
    PROVE  PacksInv'
<1>1. PICK m, f : m = jobs[w].pack /\ f = jobs[w].file
    OBVIOUS
<1>0. CASE Over(w, FALSE) /\ UNCHANGED cached
    BY <1>0, FailKeeps DEF PutFile, idle
<1> SUFFICES ASSUME ~(Over(w, FALSE) /\ UNCHANGED cached) PROVE PacksInv'
    BY <1>0
<1>2. /\ jobs[w].at = "put"
      /\ cached' = IF jobs[w].gone THEN cached ELSE [cached EXCEPT ![m] = @ \cup {f}]
      /\ UNCHANGED <<probing, view, removing>>
    BY <1>1 DEF PutFile, idle
<1>3. PacksTyped /\ JobIs(jobs[w])
    BY DEF PacksInv, PacksTyped
<1>4. m \in Packs => f \in 1..Files[m] /\ f \in Nat /\ Files[m] \in Nat
    BY <1>1, <1>3, FilesType DEF JobIs
<1>5. /\ cached' \in [Packs -> SUBSET Nat]
      /\ \A p \in Packs \ {m} : cached'[p] = cached[p]
      /\ m \in Packs => cached'[m] = IF jobs[w].gone THEN cached[m] ELSE cached[m] \cup {f}
    BY <1>2, <1>3, <1>4 DEF PacksTyped
<1>6. \A p \in Packs : cached'[p] \subseteq 1..Files[p]
    BY <1>3, <1>4, <1>5 DEF PacksTyped
<1>7. ASSUME m \in Packs \ raced
      PROVE  /\ cached'[m] = cached[m] \cup {f} /\ 1..(f - 1) \subseteq cached[m]
             /\ Files[m] \notin cached[m] /\ ~Ready(m)
             /\ \A v \in DOMAIN jobs \ {w} : jobs[v].pack # m
    <2>1. PackKept(m)
        BY <1>7 DEF PacksInv
    <2>2. w \in JobsOn(m)
        BY <1>1 DEF JobsOn
    <2>3. ~jobs[w].gone /\ ~Ready(m) /\ 1..(f - 1) \subseteq cached[m]
        BY <1>1, <1>2, <2>1, <2>2 DEF PackKept, Downloading
    <2>4. \A v \in DOMAIN jobs \ {w} : jobs[v].pack # m
        BY <2>1, <2>2 DEF PackKept, Crowded, JobsOn
    <2> QED
        BY <1>5, <1>7, <2>1, <2>3, <2>4 DEF PackKept, LastIsAll
<1>8. CASE f = Files[m]
    <2>1. Over(w, TRUE)
        BY <1>1, <1>8 DEF PutFile
    <2>2. Proceeds(w, m) /\ (w \in DOMAIN jobs' => jobs'[w].at = "ask")
        BY <1>1, <1>3, <1>5, <2>1, OverProceeds
    <2>3. w \notin {All, One} => ready' = [ready EXCEPT ![m] = TRUE]
        BY <1>1, <2>1, OverLeaves
    <2>4. DOMAIN ready' = Packs
        BY <1>3, <2>2, <2>3 DEF Proceeds, PacksTyped
    <2>5. ASSUME m \in Packs \ raced
          PROVE  /\ LastIsAll(m)' /\ Downloading(m)' /\ Ready(m)'
                 /\ w \in {All, One} \/ ready'[m] = Ready(m)'
        <3>1. cached'[m] = 1..Files[m]
            <4>1. \A n \in 1..Files[m] : n \in 1..(f - 1) \/ n = f
                BY <1>4, <1>8, <2>5
            <4> QED
                BY <1>6, <1>7, <2>5, <4>1
        <3>2. Ready(m)' /\ Ready(m)' = TRUE
            BY <3>1 DEF Ready
        <3>3. Downloading(m)'
            BY <1>7, <2>2, <2>5 DEF Downloading, JobsOn, Proceeds
        <3>4. w \notin {All, One} => ready'[m] = TRUE
            BY <1>3, <2>3, <2>5 DEF PacksTyped
        <3> QED
            BY <3>2, <3>3, <3>4 DEF LastIsAll
    <2> QED
        BY <1>1, <1>2, <1>5, <1>6, <2>2, <2>4, <2>5, ProceedsKeeps
<1>9. CASE f # Files[m]
    <2>1. /\ jobs' = [jobs EXCEPT ![w].at = "fetch", ![w].file = @ + 1]
          /\ UNCHANGED <<busy, surveys, ready>>
        BY <1>1, <1>9 DEF PutFile
    <2>2. Moves(w, "fetch", f + 1)
        <3>1. [jobs EXCEPT ![w].at = "fetch", ![w].file = @ + 1] =
                  [jobs EXCEPT ![w].at = "fetch", ![w].file = f + 1]
            BY <1>1, <1>3 DEF JobIs
        <3> QED
            BY <2>1, <3>1 DEF Moves
    <2>3. m \in Packs => f + 1 \in 1..Files[m]
        BY <1>4, <1>9
    <2>4. /\ Proceeds(w, m) /\ ready' = ready
          /\ jobs'[w].file = f + 1 /\ jobs'[w].gone = jobs[w].gone
        BY <1>1, <1>3, <1>5, <2>2, <2>3, MovesProceeds
    <2>5. ASSUME m \in Packs \ raced
          PROVE  LastIsAll(m)' /\ Downloading(m)' /\ Ready(m)' = Ready(m)
        <3>1. Files[m] \notin cached'[m]
            BY <1>7, <1>9, <2>5
        <3>2. Ready(m)' = FALSE /\ Ready(m) = FALSE
            BY <1>7, <2>5, <3>1, FilesType DEF Ready
        <3>3. 1..f \subseteq cached'[m]
            <4>1. \A n \in 1..f : n \in 1..(f - 1) \/ n = f
                BY <1>4, <2>5
            <4> QED
                BY <1>7, <2>5, <4>1
        <3>4. ~jobs[w].gone
            BY <1>1, <1>2, <2>5 DEF PacksInv, PackKept, Downloading, JobsOn
        <3>5. (f + 1) - 1 = f
            BY <1>4, <2>5
        <3>6. Downloading(m)'
            BY <1>7, <2>4, <2>5, <3>2, <3>3, <3>4, <3>5 DEF Downloading, JobsOn, Proceeds
        <3> QED
            BY <3>1, <3>2, <3>6 DEF LastIsAll
    <2> QED
        BY <1>1, <1>2, <1>3, <1>5, <1>6, <2>4, <2>5, ProceedsKeeps DEF PacksTyped
<1> QED
    BY <1>8, <1>9

LEMMA PacksKeep == PacksInv /\ [PacksNext]_packVars => PacksInv'
<1> SUFFICES ASSUME PacksInv, [PacksNext]_packVars PROVE PacksInv'
    OBVIOUS
<1>1. CASE UNCHANGED packVars
    <2>1. PacksTyped'
        BY <1>1 DEF packVars, PacksInv, PacksTyped
    <2>2. ASSUME NEW p \in Packs \ raced PROVE PackKept(p)'
        <3>1. PackKept(p)
            BY <2>2 DEF PacksInv
        <3>2. Ready(p)' = Ready(p) /\ JobsOn(p)' = JobsOn(p) /\ Shown(p)' = Shown(p)
            BY <1>1 DEF packVars, Ready, JobsOn, Shown
        <3>3. LastIsAll(p)' /\ ~Crowded(p)' /\ Downloading(p)'
            BY <1>1, <3>1, <3>2 DEF packVars, PackKept, LastIsAll, Crowded, Downloading
        <3>4. ~OldLook(p)'
            BY <1>1, <3>1, <3>2 DEF packVars, PackKept, OldLook
        <3>5. ShownIsReady(p)' /\ RemovedIsShown(p)' /\ BarIsTold(p)'
            BY <1>1, <3>1, <3>2 DEF packVars, PackKept, ShownIsReady, RemovedIsShown, BarIsTold
        <3> QED
            BY <3>3, <3>4, <3>5 DEF PackKept
    <2> QED
        BY <1>1, <2>1, <2>2 DEF packVars, PacksInv
<1>2. ASSUME Watched({}), NEW w \in Who, Download(w) PROVE PacksInv'
    BY <1>2, AskKeeps, FetchKeeps, PutKeeps DEF Download
<1>3. ASSUME Watched({}), NEW p \in Packs, BarDownload(p) \/ PanelDownload(p) PROVE PacksInv'
    BY <1>3, AskedKeeps
<1>4. CASE Watched({}) /\ (DownloadAll \/ SetAutoDownload)
    <2>1. CASE Packs # {}
        BY <1>4, <2>1, AskedKeeps
    <2>2. CASE Packs = {}
        <3>1. Started
            BY <1>4, <2>2, WithStarts
            DEF DownloadAll, SetAutoDownload, StartAutomatically, StartAll, CanStart, Started
        <3>2. UNCHANGED <<cached, ready, probing, view, surveys, removing>>
            BY <1>4 DEF DownloadAll, SetAutoDownload, idle
        <3> QED
            BY <1>4, <3>1, <3>2, OnlyStartsKeep
    <2> QED
        BY <2>1, <2>2
<1>5. ASSUME Watched({}), NEW p \in Packs, PanelRemove(p) \/ LookBar(p) \/ LandBar(p) PROVE PacksInv'
    BY <1>5, LookKeeps
<1>6. CASE Watched({}) /\ (LookPanel \/ ClosePanel)
    <2>1. CASE Packs # {}
        BY <1>6, <2>1, LookKeeps
    <2>2. CASE Packs = {}
        BY <1>6, <2>2 DEF LookPanel, ClosePanel, PacksInv, PacksTyped, Looked
    <2> QED
        BY <2>1, <2>2
<1>7. CASE Watched({}) /\ LandPanel
    BY <1>7, LandPanelKeeps
<1>8. ASSUME Watched({}), NEW p \in Packs, Deleted(p) PROVE PacksInv'
    BY <1>8, DeletedKeeps
<1>9. CASE Watched({}) /\ Reload
    BY <1>9, ReloadKeeps
<1>10. CASE Throw
    <2>1. ASSUME NEW w \in DOMAIN jobs, AskFails(w), Watched({jobs[w].pack}) PROVE PacksInv'
        BY <2>1, FailKeeps DEF AskFails, idle
    <2>2. CASE LookPanelFails /\ Watched(Packs)
        <3>1. CASE Packs # {}
            BY <2>2, <3>1, LookFailsKeeps
        <3>2. CASE Packs = {}
            BY <2>2, <3>2 DEF LookPanelFails, PacksInv, PacksTyped
        <3> QED
            BY <3>1, <3>2
    <2> QED
        BY <1>10, <2>1, <2>2, LoopDiesKeeps, LookFailsKeeps DEF Throw
<1> QED
    BY <1>1, <1>2, <1>3, <1>4, <1>5, <1>6, <1>7, <1>8, <1>9, <1>10 DEF PacksNext, User, Work

\* With nothing under way the run button is right: a pack is called ready exactly when every
\* file of it is in the cache, whoever downloaded or removed it and however pages came and
\* went (App.tsx 40-51), unless downloads, removals and looks at that pack overlapped, or
\* the cache threw while the bar or the panel was wrong about it: for any packs of any size
\* and any number of clicks, downloads and failures.
THEOREM RunButtonIsRight == PacksSpec => []ReadyIsTrue
<1>1. PacksInv => ReadyIsTrue
    <2> SUFFICES ASSUME PacksInv, AtRest, NEW p \in Packs \ raced PROVE ready[p] = Ready(p)
        BY DEF ReadyIsTrue
    <2>1. DOMAIN jobs = {} /\ surveys = {} /\ probing[p] = {}
        BY NothingUnderWay DEF AtRest
    <2> QED
        BY <2>1 DEF PacksInv, PackKept, BarIsTold
<1> QED
    BY <1>1, PacksStart, PacksKeep, PTL DEF PacksSpec

-----------------------------------------------------------------------------
(* SysrootImage: the image of the toolchain's files.                         *)

-----------------------------------------------------------------------------
(* Folds.  FoldSet takes an element that CHOOSE gives, so each fold is the  *)
(* value at the whole set of a function on its subsets.                     *)

AnyOf(s) == CHOOSE x \in s : TRUE

EmptyImage == [files |-> Nothing, directories |-> {<<"sysroot">>}, data |-> << >>]

PacksAll(g, S) ==
    g = [s \in SUBSET S |-> IF s = {} THEN EmptyImage
                            ELSE PackEntry(AnyOf(s), g[s \ {AnyOf(s)}])]

MakesAll(g, S) ==
    g = [s \in SUBSET S |-> IF s = {} THEN Nothing
                            ELSE EnsureDirectory(g[s \ {AnyOf(s)}], Tail(AnyOf(s)))]

SetsAll(g, tree, S) ==
    g = [s \in SUBSET S |-> IF s = {} THEN tree
                            ELSE SetFile(AnyOf(s), g[s \ {AnyOf(s)}])]

WritesAll(g, S) ==
    g = [s \in SUBSET S |-> IF s = {} THEN Nothing
                            ELSE WriteOut(AnyOf(s), g[s \ {AnyOf(s)}])]

LEMMA PackIsFold == \A S : FoldSet(PackEntry, EmptyImage, S) = (CHOOSE g : PacksAll(g, S))[S]
    BY DEF FoldSet, MapThenFoldSet, PacksAll, AnyOf

LEMMA MakeIsFold ==
    \A S : FoldSet(LAMBDA d, t : EnsureDirectory(t, Tail(d)), Nothing, S)
              = (CHOOSE g : MakesAll(g, S))[S]
    BY DEF FoldSet, MapThenFoldSet, MakesAll, AnyOf

LEMMA SetIsFold ==
    \A S, tree : FoldSet(SetFile, tree, S) = (CHOOSE g : SetsAll(g, tree, S))[S]
    BY DEF FoldSet, MapThenFoldSet, SetsAll, AnyOf

LEMMA WriteIsFold == \A S : FoldSet(WriteOut, Nothing, S) = (CHOOSE g : WritesAll(g, S))[S]
    BY DEF FoldSet, MapThenFoldSet, WritesAll, AnyOf

-----------------------------------------------------------------------------
(* What is collected.                                                       *)

Segments == Names \cup {"sysroot", "include", "lib", "c++", "v1", "clang", "noeh", "gnu",
                        "libclang_rt.builtins.a"}
Paths == Seq(Segments)

\* What a path in the image looks like: under /sysroot, in a directory.
Mountable == {p \in Paths : Len(p) >= 3 /\ p[1] = "sysroot"}

LEMMA SourcesTyped ==
    ASSUME sdk \in SUBSET Sdk
    PROVE  /\ IsFiniteSet(sdk) /\ IsFiniteSet(Sources)
           /\ Sources \subseteq Paths
           /\ \A source \in Sources : Length(source) \in Nat
<1>1. IsFiniteSet(sdk)
    BY SysrootAssumption, FS_Subset
<1>2. IsFiniteSet(Sources)
    <2> DEFINE f == [x \in sdk |-> x.path]
    <2>1. IsFiniteSet({f[x] : x \in sdk})
        BY <1>1, FiniteImage
    <2>2. Sources = {f[x] : x \in sdk}
        BY DEF Sources
    <2> QED
        BY <2>1, <2>2
<1>3. Sources \subseteq Paths
    BY SysrootAssumption DEF Sources, Paths, Segments
<1>4. ASSUME NEW source \in Sources PROVE Length(source) \in Nat
    <2>1. \E f \in sdk : f.path = source
        BY DEF Sources
    <2>2. (CHOOSE f \in sdk : f.path = source) \in sdk
        BY <2>1
    <2> QED
        BY <2>2, SysrootAssumption DEF Length
<1> QED
    BY <1>1, <1>2, <1>3, <1>4

\* A walk gives what is below the directory, by paths that are not empty.
LEMMA WalkTyped ==
    ASSUME sdk \in SUBSET Sdk, NEW dir \in Paths
    PROVE  /\ IsFiniteSet(Walk(dir))
           /\ \A rel \in Walk(dir) : rel \in Paths /\ Len(rel) >= 1 /\ dir \o rel \in Sources
<1> DEFINE G == {g \in Sources : IsStrictPrefix(dir, g)}
<1> DEFINE h == [f \in G |-> SubSeq(f, Len(dir) + 1, Len(f))]
<1>1. IsFiniteSet(G)
    BY SourcesTyped, FS_Subset
<1>2. Walk(dir) = {h[f] : f \in G}
    BY DEF Walk
<1>3. IsFiniteSet(Walk(dir))
    <2> HIDE DEF h, G
    <2> QED
        BY <1>1, <1>2, FiniteImage
<1>4. ASSUME NEW rel \in Walk(dir)
      PROVE  rel \in Paths /\ Len(rel) >= 1 /\ dir \o rel \in Sources
    <2>1. PICK f \in Sources : IsStrictPrefix(dir, f) /\ rel = SubSeq(f, Len(dir) + 1, Len(f))
        BY DEF Walk
    <2>2. f \in Paths /\ Len(f) \in Nat /\ Len(dir) \in Nat
        BY SourcesTyped, LenProperties DEF Paths
    <2>3. Len(dir) <= Len(f) /\ SubSeq(dir, 1, Len(dir)) = SubSeq(f, 1, Len(dir)) /\ dir # f
        BY <2>1 DEF IsStrictPrefix, IsPrefix
    <2>4. SubSeq(dir, 1, Len(dir)) = dir /\ SubSeq(f, 1, Len(f)) = f
        BY <2>2, SubSeqFull DEF Paths
    <2>5. Len(dir) # Len(f)
        BY <2>3, <2>4
    <2>6. \A i \in (Len(dir) + 1)..Len(f) : f[i] \in Segments
        BY <2>2, ElementOfSeq DEF Paths
    <2>7. /\ rel \in Paths
          /\ Len(rel) = IF Len(dir) + 1 <= Len(f) THEN Len(f) - (Len(dir) + 1) + 1 ELSE 0
        BY <2>1, <2>2, <2>6, SubSeqProperties DEF Paths
    <2>8. dir \o rel = f
        <3>1. /\ 1 \in 1..Len(f)+1 /\ Len(dir) \in (1 - 1)..Len(f) /\ Len(f) \in Len(dir)..Len(f)
            BY <2>2, <2>3
        <3>2. SubSeq(f, 1, Len(dir)) \o SubSeq(f, Len(dir) + 1, Len(f)) = SubSeq(f, 1, Len(f))
            BY <2>2, <3>1, ConcatAdjacentSubSeq DEF Paths
        <3> QED
            BY <2>1, <2>3, <2>4, <3>2
    <2> QED
        BY <2>2, <2>3, <2>5, <2>7, <2>8
<1> QED
    BY <1>3, <1>4

Entries == [source: Sources, path: Mountable]

LEMMA PathConcat ==
    ASSUME NEW s \in Paths, NEW t \in Paths, Len(s) >= 2, s[1] = "sysroot", Len(t) >= 1
    PROVE  s \o t \in Mountable
<1>1. /\ s \o t \in Paths /\ Len(s \o t) = Len(s) + Len(t)
      /\ \A i \in 1..Len(s) + Len(t) : (s \o t)[i] = IF i <= Len(s) THEN s[i] ELSE t[i - Len(s)]
    BY ConcatProperties DEF Paths
<1>2. Len(s) \in Nat /\ Len(t) \in Nat
    BY LenProperties DEF Paths
<1>3. (s \o t)[1] = s[1]
    BY <1>1, <1>2
<1>4. Len(s \o t) >= 3
    BY <1>1, <1>2
<1> HIDE DEF Paths
<1> QED
    BY <1>1, <1>3, <1>4 DEF Mountable

LEMMA PlacedTyped ==
    ASSUME sdk \in SUBSET Sdk, NEW dir \in Paths, NEW target \in Paths,
           Len(target) >= 2, target[1] = "sysroot", NEW W \in SUBSET Walk(dir)
    PROVE  /\ IsFiniteSet({[source |-> dir \o rel, path |-> target \o rel] : rel \in W})
           /\ {[source |-> dir \o rel, path |-> target \o rel] : rel \in W} \subseteq Entries
<1> DEFINE f == [rel \in W |-> [source |-> dir \o rel, path |-> target \o rel]]
<1>1. IsFiniteSet(W)
    BY WalkTyped, FS_Subset
<1>2. IsFiniteSet({f[rel] : rel \in W})
    <2> HIDE DEF f
    <2> QED
        BY <1>1, FiniteImage
<1>3. ASSUME NEW rel \in W
      PROVE  [source |-> dir \o rel, path |-> target \o rel] \in Entries
    <2>1. rel \in Paths /\ Len(rel) >= 1 /\ dir \o rel \in Sources
        BY WalkTyped
    <2>2. target \o rel \in Mountable
        BY <2>1, PathConcat
    <2> QED
        BY <2>1, <2>2 DEF Entries
<1>4. {f[rel] : rel \in W} = {[source |-> dir \o rel, path |-> target \o rel] : rel \in W}
    OBVIOUS
<1> QED
    BY <1>2, <1>3, <1>4

LEMMA LibrariesTyped ==
    ASSUME sdk \in SUBSET Sdk
    PROVE  /\ IsFiniteSet({[source |-> l.from, path |-> <<"sysroot", "lib", l.to>>] :
                              l \in {k \in Libraries : k.from \in Sources}})
           /\ {[source |-> l.from, path |-> <<"sysroot", "lib", l.to>>] :
                              l \in {k \in Libraries : k.from \in Sources}} \subseteq Entries
<1> DEFINE L == {k \in Libraries : k.from \in Sources}
<1> DEFINE f == [l \in L |-> [source |-> l.from, path |-> <<"sysroot", "lib", l.to>>]]
<1>1. IsFiniteSet(L)
    BY SysrootAssumption, FS_Subset
<1>2. IsFiniteSet({f[l] : l \in L})
    <2> HIDE DEF f, L
    <2> QED
        BY <1>1, FiniteImage
<1>3. ASSUME NEW l \in L PROVE [source |-> l.from, path |-> <<"sysroot", "lib", l.to>>] \in Entries
    <2>1. l.to \in Segments
        BY SysrootAssumption DEF Segments
    <2>2. <<"sysroot", "lib", l.to>> \in Mountable
        BY <2>1 DEF Mountable, Paths, Segments
    <2> QED
        BY <2>2 DEF Entries
<1>4. {f[l] : l \in L} = {[source |-> l.from, path |-> <<"sysroot", "lib", l.to>>] : l \in L}
    OBVIOUS
<1> QED
    BY <1>2, <1>3, <1>4

LEMMA BuiltinsTyped == IsFiniteSet(FirstOf(Builtins)) /\ FirstOf(Builtins) \subseteq Entries
<1> DEFINE I == {j \in DOMAIN Builtins : /\ Builtins[j] \in Sources
                                         /\ \A k \in 1..(j - 1) : Builtins[k] \notin Sources}
<1> DEFINE f == [i \in I |-> [source |-> Builtins[i],
                              path |-> <<"sysroot", "lib", "libclang_rt.builtins.a">>]]
<1>1. IsFiniteSet(I)
    <2>1. Len(Builtins) \in Nat /\ DOMAIN Builtins = 1..Len(Builtins)
        BY SysrootAssumption, LenProperties
    <2>2. IsFiniteSet(1..Len(Builtins))
        BY <2>1, FS_Interval
    <2>3. I \subseteq 1..Len(Builtins)
        BY <2>1
    <2> HIDE DEF I
    <2> QED
        BY <2>2, <2>3, FS_Subset
<1>2. IsFiniteSet({f[i] : i \in I})
    <2> HIDE DEF f, I
    <2> QED
        BY <1>1, FiniteImage
<1>3. <<"sysroot", "lib", "libclang_rt.builtins.a">> \in Mountable
    BY DEF Mountable, Paths, Segments
<1>4. {f[i] : i \in I} \subseteq Entries
    <2> SUFFICES ASSUME NEW i \in I PROVE f[i] \in Entries
        OBVIOUS
    <2>1. Builtins[i] \in Sources /\ f[i] = [source |-> Builtins[i],
                                path |-> <<"sysroot", "lib", "libclang_rt.builtins.a">>]
        OBVIOUS
    <2> HIDE DEF f
    <2> QED
        BY <1>3, <2>1 DEF Entries
<1>5. FirstOf(Builtins) = {f[i] : i \in I}
    BY DEF FirstOf
<1> QED
    BY <1>2, <1>4, <1>5

\* What is collected is finitely many sources, each with a path under /sysroot.
LEMMA CollectTyped ==
    ASSUME sdk \in SUBSET Sdk
    PROVE  IsFiniteSet(Collect) /\ Collect \subseteq Entries
<1> DEFINE Good(P) == IsFiniteSet(P) /\ P \subseteq Entries
<1> DEFINE Put(dir, target, W) == {[source |-> dir \o rel, path |-> target \o rel] : rel \in W}
<1>1. \A dir \in Paths, target \in Paths :
         Len(target) >= 2 /\ target[1] = "sysroot" =>
            \A W \in SUBSET Walk(dir) : Good(Put(dir, target, W))
    BY PlacedTyped
<1>2. /\ Cxx \in Paths /\ <<"include">> \in Paths /\ <<"clang", "include">> \in Paths
      /\ <<"gnu">> \in Paths
    BY DEF Cxx, Paths, Segments
<1>3. /\ <<"sysroot", "include", "c++", "v1">> \in Paths
      /\ <<"sysroot", "include">> \in Paths
      /\ <<"sysroot", "include", "clang">> \in Paths
      /\ Len(<<"sysroot", "include">>) = 2 /\ <<"sysroot", "include">>[1] = "sysroot"
      /\ Len(<<"sysroot", "include", "clang">>) = 3
      /\ <<"sysroot", "include", "clang">>[1] = "sysroot"
    BY DEF Paths, Segments
<1>4. \A s, t : Good(s) /\ Good(t) => Good(s \cup t)
    BY FS_Union
<1> DEFINE A == Put(Cxx, <<"sysroot", "include", "c++", "v1">>, {r \in Walk(Cxx) : r[1] # "__cxx03"})
<1> DEFINE B == Put(<<"include">>, <<"sysroot", "include">>,
                    {r \in Walk(<<"include">>) : r[1] \notin {"eh", "noeh"}})
<1> DEFINE C == {[source |-> l.from, path |-> <<"sysroot", "lib", l.to>>] :
                              l \in {k \in Libraries : k.from \in Sources}}
<1> DEFINE D == Put(<<"clang", "include">>, <<"sysroot", "include", "clang">>,
                    {r \in Walk(<<"clang", "include">>) :
                        Len(r) = 1 /\ (r[1] \in KeepAnyway \/ r[1] \notin ArchSpecific)})
<1> DEFINE E == Put(<<"gnu">>, <<"sysroot", "include">>, Walk(<<"gnu">>))
<1>5. Collect = A \cup B \cup C \cup FirstOf(Builtins) \cup D \cup E
    BY DEF Collect, Placed
<1> HIDE DEF Good, Put
<1>6. Good(A)
    BY <1>1, <1>2, <1>3
<1>7. Good(B)
    <2>1. {r \in Walk(<<"include">>) : r[1] \notin {"eh", "noeh"}} \in SUBSET Walk(<<"include">>)
        OBVIOUS
    <2>2. <<"include">> \in Paths /\ <<"sysroot", "include">> \in Paths
          /\ Len(<<"sysroot", "include">>) >= 2 /\ <<"sysroot", "include">>[1] = "sysroot"
        BY <1>2, <1>3
    <2> QED
        BY <1>1, <2>1, <2>2
<1>8. Good(C) /\ Good(FirstOf(Builtins))
    BY LibrariesTyped, BuiltinsTyped DEF Good
<1>9. Good(D)
    <2>1. {r \in Walk(<<"clang", "include">>) :
              Len(r) = 1 /\ (r[1] \in KeepAnyway \/ r[1] \notin ArchSpecific)}
             \in SUBSET Walk(<<"clang", "include">>)
        OBVIOUS
    <2>2. <<"clang", "include">> \in Paths /\ <<"sysroot", "include", "clang">> \in Paths
          /\ Len(<<"sysroot", "include", "clang">>) >= 2
          /\ <<"sysroot", "include", "clang">>[1] = "sysroot"
        BY <1>2, <1>3
    <2> QED
        BY <1>1, <2>1, <2>2
<1>10. Good(E)
    <2>1. Walk(<<"gnu">>) \in SUBSET Walk(<<"gnu">>)
        OBVIOUS
    <2>2. <<"gnu">> \in Paths /\ <<"sysroot", "include">> \in Paths
          /\ Len(<<"sysroot", "include">>) >= 2 /\ <<"sysroot", "include">>[1] = "sysroot"
        BY <1>2, <1>3
    <2> QED
        BY <1>1, <2>1, <2>2
<1> HIDE DEF A, B, C, D, E
<1>11. Good(Collect)
    BY <1>4, <1>5, <1>6, <1>7, <1>8, <1>9, <1>10
<1> QED
    BY <1>11 DEF Good

-----------------------------------------------------------------------------
(* The image: every entry's bytes are where the manifest says.              *)

Byte == Sources \X Nat

\* The directories on the way to a path.
FoldersOn(p) == {SubSeq(p, 1, n) : n \in 1..(Len(p) - 1)}

\* The image of some entries.
Holds(img, s) ==
    /\ img = [files |-> img.files, directories |-> img.directories, data |-> img.data]
    /\ img.files = [p \in {e.path : e \in s} |-> img.files[p]]
    /\ img.directories = {<<"sysroot">>} \cup UNION {FoldersOn(e.path) : e \in s}
    /\ img.data \in Seq(Byte)
    /\ \A e \in s :
          /\ img.files[e.path][1] \in Nat
          /\ img.files[e.path][2] = Length(e.source)
          /\ img.files[e.path][1] + Length(e.source) <= Len(img.data)
          /\ SubSeq(img.data, img.files[e.path][1] + 1, img.files[e.path][1] + Length(e.source))
                = Bytes(e.source)

LEMMA PathTyped ==
    ASSUME NEW p \in Mountable
    PROVE  p \in Paths /\ Len(p) \in Nat /\ Len(p) >= 3 /\ p[1] = "sysroot"
    BY LenProperties DEF Mountable, Paths

LEMMA Prefix ==
    ASSUME NEW p \in Paths, NEW n \in 1..Len(p)
    PROVE  /\ SubSeq(p, 1, n) \in Paths /\ Len(SubSeq(p, 1, n)) = n
           /\ \A i \in 1..n : SubSeq(p, 1, n)[i] = p[i]
           /\ \A m \in 1..n : SubSeq(SubSeq(p, 1, n), 1, m) = SubSeq(p, 1, m)
<1>1. Len(p) \in Nat /\ \A i \in 1..n : p[i] \in Segments
    BY LenProperties, ElementOfSeq DEF Paths
<1>2. /\ SubSeq(p, 1, n) \in Seq(Segments)
      /\ Len(SubSeq(p, 1, n)) = IF 1 <= n THEN n - 1 + 1 ELSE 0
      /\ \A i \in 1..(n - 1 + 1) : SubSeq(p, 1, n)[i] = p[1 + i - 1]
    BY <1>1, SubSeqProperties
<1>3. ASSUME NEW m \in 1..n PROVE SubSeq(SubSeq(p, 1, n), 1, m) = SubSeq(p, 1, m)
    <2>1. /\ 1 \in 1..Len(p) /\ n \in 1..Len(p) /\ 1 \in 1..(n - 1 + 1) /\ m \in 1..(n - 1 + 1)
          /\ 1 + 1 - 1 = 1 /\ 1 + m - 1 = m
        BY <1>1
    <2>2. SubSeq(SubSeq(p, 1, n), 1, m) = SubSeq(p, 1 + 1 - 1, 1 + m - 1)
        BY <2>1, SubSeqOfSubSeq DEF Paths
    <2> QED
        BY <2>1, <2>2
<1> QED
    BY <1>1, <1>2, <1>3 DEF Paths

\* The way up stops where everything above is there already.
LEMMA AncestorsAdded ==
    ASSUME NEW dirs, NEW p \in Mountable,
           \A q \in Paths : q \in dirs => \A m \in 1..Len(q) : SubSeq(q, 1, m) \in dirs
    PROVE  AddAncestors(dirs, Front(p)) = dirs \cup FoldersOn(p)
<1> DEFINE d == Front(p)
<1> DEFINE new == {m \in 1..Len(d) : \A k \in m..Len(d) : SubSeq(d, 1, k) \notin dirs}
<1>1. Len(p) \in Nat /\ Len(p) >= 3 /\ p \in Paths /\ Len(p) - 1 \in 1..Len(p)
    BY PathTyped
<1>2. d \in Paths /\ Len(d) = Len(p) - 1
    BY <1>1, Prefix DEF Front
<1>3. \A n \in 1..(Len(p) - 1) : SubSeq(d, 1, n) = SubSeq(p, 1, n)
    BY <1>1, Prefix DEF Front
<1>4. AddAncestors(dirs, d) = dirs \cup {SubSeq(d, 1, n) : n \in new}
    BY DEF AddAncestors
<1>5. ASSUME NEW n \in 1..Len(d), SubSeq(d, 1, n) \notin dirs PROVE n \in new
    <2> SUFFICES ASSUME NEW k \in n..Len(d), SubSeq(d, 1, k) \in dirs PROVE FALSE
        OBVIOUS
    <2>1. k \in 1..Len(d) /\ n \in 1..k
        BY <1>1, <1>2
    <2>2. /\ SubSeq(d, 1, k) \in Paths /\ Len(SubSeq(d, 1, k)) = k
          /\ SubSeq(SubSeq(d, 1, k), 1, n) = SubSeq(d, 1, n)
        BY <1>2, <2>1, Prefix
    <2> QED
        BY <1>5, <2>1, <2>2
<1> HIDE DEF new, d
<1>6. new \subseteq 1..Len(d)
    BY DEF new
<1>7. dirs \cup {SubSeq(d, 1, n) : n \in new} = dirs \cup {SubSeq(d, 1, n) : n \in 1..Len(d)}
    BY <1>5, <1>6
<1>8. {SubSeq(d, 1, n) : n \in 1..Len(d)} = FoldersOn(p)
    BY <1>2, <1>3 DEF FoldersOn
<1> QED
    BY <1>4, <1>7, <1>8 DEF d

LEMMA AboveClosed ==
    ASSUME NEW s \in SUBSET Entries,
           NEW q \in {<<"sysroot">>} \cup UNION {FoldersOn(e.path) : e \in s}, q \in Paths,
           NEW m \in 1..Len(q)
    PROVE  SubSeq(q, 1, m) \in {<<"sysroot">>} \cup UNION {FoldersOn(e.path) : e \in s}
<1>1. CASE q = <<"sysroot">>
    <2>1. Len(q) = 1 /\ SubSeq(q, 1, Len(q)) = q
        BY <1>1, SubSeqFull DEF Paths
    <2>2. m = 1
        BY <2>1
    <2> QED
        BY <1>1, <2>1, <2>2
<1>2. CASE q # <<"sysroot">>
    <2>1. PICK e \in s : q \in FoldersOn(e.path)
        BY <1>2
    <2>2. PICK n \in 1..(Len(e.path) - 1) : q = SubSeq(e.path, 1, n)
        BY <2>1 DEF FoldersOn
    <2>3. e.path \in Mountable
        BY DEF Entries
    <2>4. e.path \in Paths /\ n \in 1..Len(e.path) /\ Len(e.path) \in Nat
        BY <2>3, PathTyped
    <2>5. Len(q) = n /\ SubSeq(q, 1, m) = SubSeq(e.path, 1, m)
        BY <2>2, <2>4, Prefix
    <2>6. m \in 1..(Len(e.path) - 1)
        BY <2>4, <2>5
    <2>7. SubSeq(q, 1, m) \in FoldersOn(e.path)
        BY <2>5, <2>6 DEF FoldersOn
    <2> QED
        BY <2>7
<1> QED
    BY <1>1, <1>2

LEMMA BytesTyped ==
    ASSUME sdk \in SUBSET Sdk, NEW source \in Sources
    PROVE  Bytes(source) \in Seq(Byte) /\ Len(Bytes(source)) = Length(source)
<1>1. Length(source) \in Nat
    BY SourcesTyped
<1>2. \A i \in 1..Length(source) : <<source, i>> \in Byte
    BY <1>1 DEF Byte
<1> QED
    BY <1>1, <1>2 DEF Bytes

\* One more entry: its bytes come after all the others, which stay where they are.
LEMMA EntryPacked ==
    ASSUME sdk \in SUBSET Sdk, NEW s \in SUBSET Entries, NEW e \in Entries,
           \A f \in s : f.path # e.path,
           NEW img, Holds(img, s)
    PROVE  Holds(PackEntry(e, img), s \cup {e})
<1> DEFINE new == PackEntry(e, img)
<1> DEFINE at == Len(img.data)
<1>1. /\ e.source \in Sources /\ e.path \in Mountable
      /\ \A f \in s : f.source \in Sources /\ f.path \in Mountable
    BY DEF Entries
<1>2. /\ Length(e.source) \in Nat /\ Bytes(e.source) \in Seq(Byte)
      /\ Len(Bytes(e.source)) = Length(e.source)
      /\ \A f \in s : Length(f.source) \in Nat
    BY <1>1, SourcesTyped, BytesTyped
<1>3. at \in Nat /\ img.data \in Seq(Byte)
    BY LenProperties DEF Holds
<1>4. /\ new.files = Extend(img.files, e.path, <<at, Length(e.source)>>)
      /\ new.directories = AddAncestors(img.directories, Front(e.path))
      /\ new.data = img.data \o Bytes(e.source)
      /\ new = [files |-> new.files, directories |-> new.directories, data |-> new.data]
    BY DEF PackEntry
<1> HIDE DEF new
<1>5. /\ new.data \in Seq(Byte) /\ Len(new.data) = at + Length(e.source)
      /\ SubSeq(new.data, at + 1, at + Length(e.source)) = Bytes(e.source)
      /\ \A m, n \in Nat : n <= at => SubSeq(new.data, m + 1, n) = SubSeq(img.data, m + 1, n)
    <2> DEFINE d == img.data
    <2> DEFINE b == Bytes(e.source)
    <2>1. d \in Seq(Byte) /\ b \in Seq(Byte)
        BY <1>2, <1>3
    <2> HIDE DEF d, b
    <2>2. /\ d \o b \in Seq(Byte) /\ Len(d \o b) = Len(d) + Len(b)
          /\ SubSeq(d \o b, Len(d) + 1, Len(d) + Len(b)) = b
          /\ \A m, n \in Nat : n <= Len(d) => SubSeq(d \o b, m + 1, n) = SubSeq(d, m + 1, n)
        BY <2>1, JoinedParts
    <2>3. Len(d) = at /\ Len(b) = Length(e.source) /\ new.data = d \o b /\ img.data = d
          /\ Bytes(e.source) = b
        BY <1>2, <1>4 DEF d, b
    <2> QED
        BY <2>2, <2>3
<1>6. new.files = [p \in {f.path : f \in s \cup {e}} |-> new.files[p]]
    <2>1. DOMAIN img.files = {f.path : f \in s}
        BY DEF Holds
    <2>2. new.files = [p \in {f.path : f \in s} \cup {e.path} |->
                          IF p = e.path THEN <<at, Length(e.source)>> ELSE img.files[p]]
        BY <1>4, <2>1 DEF Extend
    <2> QED
        BY <2>2
<1>7. new.files[e.path] = <<at, Length(e.source)>>
      /\ \A f \in s : new.files[f.path] = img.files[f.path]
    <2>1. DOMAIN img.files = {f.path : f \in s}
        BY DEF Holds
    <2> QED
        BY <1>4, <2>1 DEF Extend
<1>8. new.directories = {<<"sysroot">>} \cup UNION {FoldersOn(f.path) : f \in s \cup {e}}
    <2> DEFINE dirs == {<<"sysroot">>} \cup UNION {FoldersOn(f.path) : f \in s}
    <2>1. img.directories = dirs
        BY DEF Holds
    <2>2. \A q \in Paths : q \in dirs => \A m \in 1..Len(q) : SubSeq(q, 1, m) \in dirs
        BY AboveClosed
    <2> HIDE DEF dirs
    <2>3. new.directories = dirs \cup FoldersOn(e.path)
        BY <1>1, <1>4, <2>1, <2>2, AncestorsAdded
    <2> QED
        BY <2>3 DEF dirs
<1>9. ASSUME NEW f \in s
      PROVE  /\ new.files[f.path][1] \in Nat
             /\ new.files[f.path][2] = Length(f.source)
             /\ new.files[f.path][1] + Length(f.source) <= Len(new.data)
             /\ SubSeq(new.data, new.files[f.path][1] + 1, new.files[f.path][1] + Length(f.source))
                   = Bytes(f.source)
    <2>1. /\ img.files[f.path][1] \in Nat
          /\ img.files[f.path][2] = Length(f.source)
          /\ img.files[f.path][1] + Length(f.source) <= at
          /\ SubSeq(img.data, img.files[f.path][1] + 1, img.files[f.path][1] + Length(f.source))
                = Bytes(f.source)
        BY DEF Holds
    <2>2. img.files[f.path][1] + Length(f.source) \in Nat
        BY <1>2, <2>1
    <2> HIDE DEF at
    <2>3. SubSeq(new.data, img.files[f.path][1] + 1, img.files[f.path][1] + Length(f.source))
             = Bytes(f.source)
        BY <1>5, <2>1, <2>2
    <2>4. img.files[f.path][1] + Length(f.source) <= Len(new.data)
        BY <1>2, <1>3, <1>5, <2>1, <2>2
    <2> QED
        BY <1>7, <2>1, <2>3, <2>4
<1>10. /\ new.files[e.path][1] = at /\ new.files[e.path][2] = Length(e.source)
       /\ at + Length(e.source) <= Len(new.data)
    BY <1>2, <1>3, <1>5, <1>7
<1> HIDE DEF at
<1>11. \A f \in s \cup {e} :
          /\ new.files[f.path][1] \in Nat
          /\ new.files[f.path][2] = Length(f.source)
          /\ new.files[f.path][1] + Length(f.source) <= Len(new.data)
          /\ SubSeq(new.data, new.files[f.path][1] + 1, new.files[f.path][1] + Length(f.source))
                = Bytes(f.source)
    BY <1>3, <1>5, <1>9, <1>10
<1>12. Holds(new, s \cup {e})
    BY <1>4, <1>5, <1>6, <1>8, <1>11 DEF Holds
<1> QED
    BY <1>12 DEF new

LEMMA PickedIn == \A s : s # {} => AnyOf(s) \in s
    BY DEF AnyOf

\* The fold is well defined: as far as the subsets of n elements, then of one more.
LEMMA PackFoldExists ==
    ASSUME NEW S, IsFiniteSet(S)
    PROVE  \E g : PacksAll(g, S)
<1> DEFINE Step(g, s) == IF s = {} THEN EmptyImage ELSE PackEntry(AnyOf(s), g[s \ {AnyOf(s)}])
<1> DEFINE Upto(g, n) == \A s \in SUBSET S : Cardinality(s) <= n => g[s] = Step(g, s)
<1> DEFINE Bad == {n \in Nat : ~\E g : g = [s \in SUBSET S |-> g[s]] /\ Upto(g, n)}
<1>1. \A s \in SUBSET S : IsFiniteSet(s) /\ Cardinality(s) \in Nat
    BY FS_Subset, FS_CardinalityType
<1>2. \A s \in SUBSET S : s # {} => /\ s \ {AnyOf(s)} \in SUBSET S
                                   /\ Cardinality(s \ {AnyOf(s)}) = Cardinality(s) - 1
    BY <1>1, PickedIn, FS_RemoveElement
<1>3. Bad = {}
    <2> SUFFICES ASSUME Bad # {} PROVE FALSE
        OBVIOUS
    <2>1. PICK n \in Bad : \A k \in Bad : n <= k
        <3>1. Bad \in SUBSET Nat
            OBVIOUS
        <3> HIDE DEF Bad
        <3> QED
            BY <3>1, LeastNumber
    <2>2. n \in Nat /\ ~\E g : g = [s \in SUBSET S |-> g[s]] /\ Upto(g, n)
        BY <2>1
    <2>3. \E g : g = [s \in SUBSET S |-> g[s]] /\ \A s \in SUBSET S : Cardinality(s) <= n - 1 => g[s] = Step(g, s)
        <3>1. CASE n = 0
            <4> DEFINE g == [s \in SUBSET S |-> EmptyImage]
            <4>1. g = [s \in SUBSET S |-> g[s]]
                OBVIOUS
            <4>2. \A s \in SUBSET S : ~(Cardinality(s) <= n - 1)
                BY <1>1, <3>1
            <4> HIDE DEF g, Step
            <4> QED
                BY <4>1, <4>2
        <3>2. CASE n # 0
            <4>1. n - 1 \in Nat /\ ~(n <= n - 1)
                BY <2>2, <3>2
            <4>2. n - 1 \notin Bad
                <5> HIDE DEF Bad
                <5> QED
                    BY <2>1, <4>1
            <4> QED
                BY <4>1, <4>2
        <3> QED
            BY <3>1, <3>2
    <2>4. PICK g : g = [s \in SUBSET S |-> g[s]] /\ \A s \in SUBSET S : Cardinality(s) <= n - 1 => g[s] = Step(g, s)
        BY <2>3
    <2> DEFINE h == [s \in SUBSET S |-> IF Cardinality(s) <= n - 1 THEN g[s] ELSE Step(g, s)]
    <2>5. h = [s \in SUBSET S |-> h[s]]
        OBVIOUS
    <2>6. \A s \in SUBSET S : h[s] = IF Cardinality(s) <= n - 1 THEN g[s] ELSE Step(g, s)
        OBVIOUS
    <2> HIDE DEF h
    <2>7. ASSUME NEW s \in SUBSET S, Cardinality(s) <= n PROVE h[s] = Step(h, s)
        <3>1. h[s] = Step(g, s)
            BY <2>4, <2>6
        <3>2. CASE s = {}
            BY <3>1, <3>2
        <3>3. CASE s # {}
            <4>1. /\ s \ {AnyOf(s)} \in SUBSET S
                  /\ Cardinality(s \ {AnyOf(s)}) <= n - 1
                BY <1>1, <1>2, <2>2, <2>7, <3>3
            <4>2. h[s \ {AnyOf(s)}] = g[s \ {AnyOf(s)}]
                BY <2>6, <4>1
            <4> QED
                BY <3>1, <3>3, <4>2
        <3> QED
            BY <3>2, <3>3
    <2> HIDE DEF Step
    <2> QED
        BY <2>2, <2>5, <2>7
<1>4. Cardinality(S) \in Nat
    BY FS_CardinalityType
<1>5. PICK g : g = [s \in SUBSET S |-> g[s]] /\ Upto(g, Cardinality(S))
    <2>1. Cardinality(S) \notin Bad
        <3> HIDE DEF Bad
        <3> QED
            BY <1>3
    <2> QED
        BY <1>4, <2>1
<1>6. \A s \in SUBSET S : g[s] = Step(g, s)
    BY <1>5, FS_Subset
<1>7. g = [s \in SUBSET S |-> Step(g, s)]
    <2> HIDE DEF Step
    <2> QED
        BY <1>5, <1>6
<1> QED
    BY <1>7 DEF PacksAll

LEMMA PackedHolds ==
    ASSUME sdk \in SUBSET Sdk, NEW S \in SUBSET Entries, IsFiniteSet(S),
           \A e, f \in S : e # f => e.path # f.path
    PROVE  Holds(FoldSet(PackEntry, EmptyImage, S), S)
<1>1. PICK g : /\ FoldSet(PackEntry, EmptyImage, S) = g[S]
               /\ PacksAll(g, S)
    BY PackIsFold, PackFoldExists
<1>2. \A s \in SUBSET S : g[s] = IF s = {} THEN EmptyImage
                                 ELSE PackEntry(AnyOf(s), g[s \ {AnyOf(s)}])
    BY <1>1 DEF PacksAll
<1> DEFINE Bad == {s \in SUBSET S : ~Holds(g[s], s)}
<1>3. Bad = {}
    <2> SUFFICES ASSUME Bad # {} PROVE FALSE
        OBVIOUS
    <2>1. PICK s \in Bad : \A t \in Bad : t \subseteq s => t = s
        <3>1. Bad \subseteq SUBSET S
            OBVIOUS
        <3> HIDE DEF Bad
        <3> QED
            BY <3>1, SmallestSubset
    <2>2. s \in SUBSET S /\ ~Holds(g[s], s)
        OBVIOUS
    <2>3. CASE s = {}
        <3>1. g[s] = EmptyImage
            BY <1>2, <2>3
        <3>2. Holds(EmptyImage, {})
            BY DEF Holds, EmptyImage, Nothing
        <3> QED
            BY <2>2, <2>3, <3>1, <3>2
    <2>4. CASE s # {}
        <3> DEFINE e == AnyOf(s)
        <3> DEFINE t == s \ {e}
        <3>1. e \in s /\ t \in SUBSET S /\ t # s /\ t \subseteq s
            BY <2>2, <2>4, PickedIn
        <3>2. g[s] = PackEntry(e, g[t])
            BY <1>2, <2>2, <2>4
        <3>3. Holds(g[t], t)
            BY <2>1, <3>1
        <3>4. e \in Entries /\ t \in SUBSET Entries /\ \A f \in t : f.path # e.path
            BY <2>2, <3>1
        <3> HIDE DEF e, Bad
        <3>5. Holds(PackEntry(e, g[t]), t \cup {e})
            <4> HIDE DEF t
            <4> QED
                BY <3>3, <3>4, EntryPacked
        <3>6. t \cup {e} = s
            BY <3>1
        <3> QED
            BY <2>2, <3>2, <3>5, <3>6
    <2> QED
        BY <2>3, <2>4
<1>4. S \notin Bad
    <2> HIDE DEF Bad
    <2> QED
        BY <1>3
<1> QED
    BY <1>1, <1>4

-----------------------------------------------------------------------------
(* Paths under the mount point.                                             *)

\* The directories of the tree on the way to a path.
FoldersUnder(p) == {SubSeq(p, 2, n) : n \in 2..(Len(p) - 1)}

Links(dir) == {SubSeq(dir, 1, n) : n \in 1..Len(dir)}

LEMMA SubPath ==
    ASSUME NEW p \in Paths, NEW m \in 1..Len(p), NEW n \in m..Len(p)
    PROVE  /\ SubSeq(p, m, n) \in Paths /\ Len(SubSeq(p, m, n)) = n - m + 1
           /\ \A i \in 1..(n - m + 1) : SubSeq(p, m, n)[i] = p[m + i - 1]
    BY Piece DEF Paths

LEMMA PathTail ==
    ASSUME NEW p \in Paths, Len(p) >= 1
    PROVE  /\ Tail(p) = SubSeq(p, 2, Len(p)) /\ Tail(p) \in Paths /\ Len(Tail(p)) = Len(p) - 1
           /\ \A i \in 1..(Len(p) - 1) : Tail(p)[i] = p[i + 1]
    BY TailPiece DEF Paths

\* A path is known by what is below the mount point.
LEMMA TailKnows ==
    ASSUME NEW p \in Mountable, NEW q \in Mountable, Tail(p) = Tail(q)
    PROVE  p = q
<1>1. /\ p \in Paths /\ Len(p) \in Nat /\ Len(p) >= 3 /\ p[1] = "sysroot"
      /\ q \in Paths /\ Len(q) \in Nat /\ Len(q) >= 3 /\ q[1] = "sysroot"
    BY PathTyped
<1>2. /\ Len(Tail(p)) = Len(p) - 1 /\ \A i \in 1..(Len(p) - 1) : Tail(p)[i] = p[i + 1]
      /\ Len(Tail(q)) = Len(q) - 1 /\ \A i \in 1..(Len(q) - 1) : Tail(q)[i] = q[i + 1]
    BY <1>1, PathTail
<1>3. Len(p) = Len(q)
    BY <1>1, <1>2
<1>4. ASSUME NEW i \in 1..Len(p) PROVE p[i] = q[i]
    <2>1. CASE i = 1
        BY <1>1, <2>1
    <2>2. CASE i # 1
        <3>1. i - 1 \in 1..(Len(p) - 1) /\ (i - 1) + 1 = i
            BY <1>1, <2>2
        <3> QED
            BY <1>2, <1>3, <3>1
    <2> QED
        BY <2>1, <2>2
<1> QED
    BY <1>1, <1>3, <1>4, SeqEqual DEF Paths

LEMMA StrictPrefix ==
    ASSUME NEW s \in Paths, NEW t \in Paths
    PROVE  IsStrictPrefix(s, t) <=> Len(s) < Len(t) /\ \A i \in 1..Len(s) : s[i] = t[i]
<1>1. Len(s) \in Nat /\ Len(t) \in Nat /\ SubSeq(s, 1, Len(s)) = s /\ SubSeq(t, 1, Len(t)) = t
    BY LenProperties, SubSeqFull DEF Paths
<1>2. CASE Len(s) = 0
    <2>1. s = << >> /\ SubSeq(t, 1, Len(s)) = << >>
        BY <1>1, <1>2, EmptySeq, SubSeqEmpty DEF Paths
    <2>2. t # s <=> Len(t) # 0
        BY <2>1, EmptySeq DEF Paths
    <2> QED
        BY <1>1, <1>2, <2>1, <2>2 DEF IsStrictPrefix, IsPrefix
<1>3. CASE Len(s) # 0
    <2>1. ASSUME IsStrictPrefix(s, t)
          PROVE  Len(s) < Len(t) /\ \A i \in 1..Len(s) : s[i] = t[i]
        <3>1. Len(s) <= Len(t) /\ s = SubSeq(t, 1, Len(s)) /\ s # t
            BY <1>1, <2>1 DEF IsStrictPrefix, IsPrefix
        <3>2. Len(s) \in 1..Len(t)
            BY <1>1, <1>3, <3>1
        <3>3. \A i \in 1..Len(s) : SubSeq(t, 1, Len(s))[i] = t[i]
            BY <3>2, Prefix
        <3>4. Len(s) # Len(t)
            BY <1>1, <3>1
        <3>5. Len(s) < Len(t)
            <4>1. Len(s) \in Nat /\ Len(t) \in Nat /\ Len(s) <= Len(t)
                BY <1>1, <3>1
            <4> QED
                BY <3>4, <4>1
        <3>6. ASSUME NEW i \in 1..Len(s) PROVE s[i] = t[i]
            <4> DEFINE u == SubSeq(t, 1, Len(s))
            <4>1. s = u /\ u[i] = t[i]
                BY <3>1, <3>3
            <4> HIDE DEF u
            <4> QED
                BY <4>1
        <3> QED
            BY <3>5, <3>6
    <2>2. ASSUME Len(s) < Len(t), \A i \in 1..Len(s) : s[i] = t[i]
          PROVE  IsStrictPrefix(s, t)
        <3>1. Len(s) \in 1..Len(t)
            BY <1>1, <1>3, <2>2
        <3>2. /\ SubSeq(t, 1, Len(s)) \in Paths /\ Len(SubSeq(t, 1, Len(s))) = Len(s)
              /\ \A i \in 1..Len(s) : SubSeq(t, 1, Len(s))[i] = t[i]
            BY <3>1, Prefix
        <3>3. SubSeq(t, 1, Len(s)) = s
            <4> DEFINE u == SubSeq(t, 1, Len(s))
            <4>1. u \in Seq(Segments) /\ s \in Seq(Segments) /\ Len(u) = Len(s) /\ \A i \in 1..Len(u) : u[i] = s[i]
                BY <2>2, <3>2 DEF Paths
            <4> HIDE DEF u
            <4> QED
                BY <4>1, SeqEqual DEF u
        <3>4. s # t
            BY <1>1, <2>2
        <3> QED
            BY <1>1, <2>2, <3>3, <3>4 DEF IsStrictPrefix, IsPrefix
    <2> QED
        BY <2>1, <2>2
<1> QED
    BY <1>2, <1>3

\* What reaches into the tree along a path, or beyond it, reaches into the image so.
LEMMA ReachesInto ==
    ASSUME NEW p \in Mountable, NEW f \in Mountable, NEW n \in 2..Len(f)
    PROVE  /\ IsStrictPrefix(Tail(p), SubSeq(f, 2, n)) => IsStrictPrefix(p, f)
           /\ Tail(p) = SubSeq(f, 2, n) /\ n < Len(f) => IsStrictPrefix(p, f)
<1>1. /\ p \in Paths /\ Len(p) \in Nat /\ Len(p) >= 3 /\ p[1] = "sysroot"
      /\ f \in Paths /\ Len(f) \in Nat /\ Len(f) >= 3 /\ f[1] = "sysroot"
    BY PathTyped
<1>2. /\ Tail(p) \in Paths /\ Len(Tail(p)) = Len(p) - 1
      /\ \A i \in 1..(Len(p) - 1) : Tail(p)[i] = p[i + 1]
    BY <1>1, PathTail
<1> DEFINE q == SubSeq(f, 2, n)
<1>3. q \in Paths /\ Len(q) = n - 1 /\ \A i \in 1..(n - 1) : q[i] = f[i + 1]
    <2>1. 2 \in 1..Len(f) /\ n - 2 + 1 = n - 1 /\ \A i \in 1..(n - 1) : 2 + i - 1 = i + 1
        BY <1>1
    <2> QED
        BY <1>1, <2>1, SubPath
<1> HIDE DEF q
<1>4. ASSUME Len(p) < Len(f), Len(p) - 1 <= n - 1, \A i \in 1..(Len(p) - 1) : Tail(p)[i] = q[i]
      PROVE  IsStrictPrefix(p, f)
    <2>1. ASSUME NEW i \in 1..Len(p) PROVE p[i] = f[i]
        <3>1. CASE i = 1
            BY <1>1, <3>1
        <3>2. CASE i # 1
            <4>1. i - 1 \in 1..(Len(p) - 1) /\ i - 1 \in 1..(n - 1) /\ (i - 1) + 1 = i
                BY <1>1, <1>4, <3>2
            <4> QED
                BY <1>2, <1>3, <1>4, <4>1
        <3> QED
            BY <3>1, <3>2
    <2> QED
        BY <1>1, <1>4, <2>1, StrictPrefix
<1>5. IsStrictPrefix(Tail(p), q) => IsStrictPrefix(p, f)
    <2> SUFFICES ASSUME IsStrictPrefix(Tail(p), q) PROVE IsStrictPrefix(p, f)
        OBVIOUS
    <2>1. Len(Tail(p)) < Len(q) /\ \A i \in 1..Len(Tail(p)) : Tail(p)[i] = q[i]
        BY <1>2, <1>3, StrictPrefix
    <2> QED
        BY <1>1, <1>2, <1>3, <1>4, <2>1
<1>6. Tail(p) = q /\ n < Len(f) => IsStrictPrefix(p, f)
    <2> SUFFICES ASSUME Tail(p) = q, n < Len(f) PROVE IsStrictPrefix(p, f)
        OBVIOUS
    <2>1. Len(p) - 1 = n - 1
        BY <1>2, <1>3
    <2>2. Len(p) < Len(f) /\ Len(p) - 1 <= n - 1
        BY <1>1, <2>1
    <2> QED
        BY <1>4, <2>2
<1> QED
    BY <1>5, <1>6 DEF q

\* The directories a file is put below are those on its way.
LEMMA LinksToFile ==
    ASSUME NEW p \in Mountable
    PROVE  Links(Front(Tail(p))) = FoldersUnder(p)
<1>1. p \in Paths /\ Len(p) \in Nat /\ Len(p) >= 3
    BY PathTyped
<1> DEFINE t == Tail(p)
<1>2. t \in Paths /\ Len(t) = Len(p) - 1 /\ t = SubSeq(p, 2, Len(p))
    BY <1>1, PathTail
<1> DEFINE d == Front(t)
<1>3. /\ d \in Paths /\ Len(d) = Len(p) - 2
      /\ \A m \in 1..(Len(p) - 2) : SubSeq(d, 1, m) = SubSeq(t, 1, m)
    <2>1. Len(t) - 1 \in 1..Len(t) /\ Len(t) - 1 = Len(p) - 2
        BY <1>1, <1>2
    <2> HIDE DEF t
    <2> QED
        BY <1>2, <2>1, Prefix DEF Front
<1>4. ASSUME NEW m \in 1..(Len(p) - 2) PROVE SubSeq(d, 1, m) = SubSeq(p, 2, m + 1)
    <2>1. /\ 2 \in 1..Len(p) /\ Len(p) \in 1..Len(p) /\ 1 \in 1..(Len(p) - 2 + 1)
          /\ m \in 1..(Len(p) - 2 + 1) /\ 2 + 1 - 1 = 2 /\ 2 + m - 1 = m + 1
        BY <1>1
    <2>2. SubSeq(SubSeq(p, 2, Len(p)), 1, m) = SubSeq(p, 2 + 1 - 1, 2 + m - 1)
        BY <1>1, <2>1, SubSeqOfSubSeq DEF Paths
    <2> QED
        BY <1>2, <1>3, <2>1, <2>2
<1> HIDE DEF d, t
<1>5. Links(d) = {SubSeq(p, 2, m + 1) : m \in 1..(Len(p) - 2)}
    BY <1>3, <1>4 DEF Links
<1>6. {SubSeq(p, 2, m + 1) : m \in 1..(Len(p) - 2)} = FoldersUnder(p)
    <2>1. \A m \in 1..(Len(p) - 2) : m + 1 \in 2..(Len(p) - 1)
        BY <1>1
    <2>2. \A n \in 2..(Len(p) - 1) : n - 1 \in 1..(Len(p) - 2) /\ (n - 1) + 1 = n
        BY <1>1
    <2>3. \A n \in 2..(Len(p) - 1) : SubSeq(p, 2, n) \in {SubSeq(p, 2, m + 1) : m \in 1..(Len(p) - 2)}
        <3> SUFFICES ASSUME NEW n \in 2..(Len(p) - 1)
                     PROVE  \E m \in 1..(Len(p) - 2) : SubSeq(p, 2, n) = SubSeq(p, 2, m + 1)
            OBVIOUS
        <3>1. n - 1 \in 1..(Len(p) - 2) /\ SubSeq(p, 2, n) = SubSeq(p, 2, (n - 1) + 1)
            BY <2>2
        <3> QED
            BY <3>1
    <2> QED
        BY <2>1, <2>3 DEF FoldersUnder
<1> QED
    BY <1>5, <1>6 DEF d, t

\* A directory of the manifest brings those above it.
LEMMA LinksToDirectory ==
    ASSUME NEW p \in Mountable, NEW n \in 1..(Len(p) - 1)
    PROVE  Links(Tail(SubSeq(p, 1, n))) = {SubSeq(p, 2, k) : k \in 2..n}
<1>1. p \in Paths /\ Len(p) \in Nat /\ Len(p) >= 3 /\ n \in 1..Len(p)
    BY PathTyped
<1> DEFINE q == SubSeq(p, 1, n)
<1>2. q \in Paths /\ Len(q) = n
    BY <1>1, Prefix
<1>3. CASE n = 1
    <2>1. Tail(q) \in Paths /\ Len(Tail(q)) = 0
        <3> HIDE DEF q
        <3>1. Len(q) >= 1 /\ Len(q) - 1 = 0
            BY <1>2, <1>3
        <3> QED
            BY <1>2, <3>1, PathTail
    <2>2. Links(Tail(q)) = {}
        <3> HIDE DEF q
        <3> QED
            BY <2>1 DEF Links
    <2> QED
        BY <1>3, <2>2
<1>4. CASE n # 1
    <2>1. 2 \in 1..n /\ n \in 1..n /\ n \in Nat
        BY <1>1, <1>4
    <2>2. Tail(q) = SubSeq(q, 2, n) /\ Len(Tail(q)) = n - 1
        BY <1>2, <2>1, PathTail
    <2>3. Tail(q) = SubSeq(p, 2, n)
        <3>1. /\ 1 \in 1..Len(p) /\ n \in 1..Len(p) /\ 2 \in 1..(n - 1 + 1) /\ n \in 1..(n - 1 + 1)
              /\ 1 + 2 - 1 = 2 /\ 1 + n - 1 = n
            BY <1>1, <2>1
        <3>2. SubSeq(SubSeq(p, 1, n), 2, n) = SubSeq(p, 1 + 2 - 1, 1 + n - 1)
            BY <1>1, <3>1, SubSeqOfSubSeq DEF Paths
        <3> QED
            BY <2>2, <3>1, <3>2
    <2>4. ASSUME NEW m \in 1..(n - 1) PROVE SubSeq(Tail(q), 1, m) = SubSeq(p, 2, m + 1)
        <3>1. /\ 2 \in 1..Len(p) /\ n \in 1..Len(p) /\ 1 \in 1..(n - 2 + 1) /\ m \in 1..(n - 2 + 1)
              /\ 2 + 1 - 1 = 2 /\ 2 + m - 1 = m + 1
            BY <1>1, <2>1
        <3>2. SubSeq(SubSeq(p, 2, n), 1, m) = SubSeq(p, 2 + 1 - 1, 2 + m - 1)
            BY <1>1, <3>1, SubSeqOfSubSeq DEF Paths
        <3> QED
            BY <2>3, <3>1, <3>2
    <2> HIDE DEF q
    <2>5. Links(Tail(q)) = {SubSeq(p, 2, m + 1) : m \in 1..(n - 1)}
        BY <2>2, <2>4 DEF Links
    <2>6. \A k \in 2..n : k - 1 \in 1..(n - 1) /\ (k - 1) + 1 = k
        BY <2>1
    <2>7. ASSUME NEW k \in 2..n
          PROVE  \E m \in 1..(n - 1) : SubSeq(p, 2, k) = SubSeq(p, 2, m + 1)
        <3>1. k - 1 \in 1..(n - 1) /\ SubSeq(p, 2, k) = SubSeq(p, 2, (k - 1) + 1)
            BY <2>6
        <3> QED
            BY <3>1
    <2>8. \A m \in 1..(n - 1) : m + 1 \in 2..n
        BY <2>1
    <2> QED
        BY <2>5, <2>7, <2>8 DEF q
<1> QED
    BY <1>3, <1>4

-----------------------------------------------------------------------------
(* The tree and the disk: the same function of the files, whatever order    *)
(* the readers take them in.                                                *)

\* The directories made for some directories of the manifest.
Made(s) == [p \in UNION {Links(Tail(d)) : d \in s} |-> Folder]

LEMMA MadeStep ==
    ASSUME NEW s, NEW d \in s
    PROVE  EnsureDirectory(Made(s \ {d}), Tail(d)) = Made(s)
<1> DEFINE links == Links(Tail(d))
<1> DEFINE less == UNION {Links(Tail(c)) : c \in s \ {d}}
<1> DEFINE all == UNION {Links(Tail(c)) : c \in s}
<1>1. EnsureDirectory(Made(s \ {d}), Tail(d))
         = [p \in DOMAIN Made(s \ {d}) \cup links |-> IF p \in links THEN Folder ELSE Made(s \ {d})[p]]
    BY DEF EnsureDirectory, Links
<1>2. less \cup links = all
    OBVIOUS
<1> HIDE DEF links
<1>3. Made(s \ {d}) = [p \in less |-> Folder] /\ Made(s) = [p \in all |-> Folder]
    BY DEF Made
<1> HIDE DEF less, all
<1> QED
    BY <1>1, <1>2, <1>3

LEMMA MadeAll ==
    ASSUME NEW S, IsFiniteSet(S)
    PROVE  FoldSet(LAMBDA d, t : EnsureDirectory(t, Tail(d)), Nothing, S) = Made(S)
<1> DEFINE h == [s \in SUBSET S |-> Made(s)]
<1>1. MakesAll(h, S)
    <2> DEFINE Step(s) == IF s = {} THEN Nothing
                          ELSE EnsureDirectory(h[s \ {AnyOf(s)}], Tail(AnyOf(s)))
    <2>1. ASSUME NEW s \in SUBSET S PROVE Made(s) = Step(s)
        <3>1. CASE s = {}
            BY <3>1 DEF Made, Nothing
        <3>2. CASE s # {}
            <4>1. AnyOf(s) \in s /\ h[s \ {AnyOf(s)}] = Made(s \ {AnyOf(s)})
                BY <3>2, PickedIn
            <4>2. EnsureDirectory(Made(s \ {AnyOf(s)}), Tail(AnyOf(s))) = Made(s)
                BY <4>1, MadeStep
            <4> QED
                BY <3>2, <4>1, <4>2
        <3> QED
            BY <3>1, <3>2
    <2>2. h = [s \in SUBSET S |-> Step(s)]
        <3> HIDE DEF Step
        <3> QED
            BY <2>1
    <2> HIDE DEF h
    <2> QED
        BY <2>2 DEF MakesAll
<1>2. PICK g : /\ FoldSet(LAMBDA d, t : EnsureDirectory(t, Tail(d)), Nothing, S) = g[S]
               /\ MakesAll(g, S)
    BY <1>1, MakeIsFold
<1>3. \A s \in SUBSET S : g[s] = IF s = {} THEN Nothing
                                 ELSE EnsureDirectory(g[s \ {AnyOf(s)}], Tail(AnyOf(s)))
    BY <1>2 DEF MakesAll
<1> DEFINE Bad == {s \in SUBSET S : g[s] # Made(s)}
<1>4. Bad = {}
    <2> SUFFICES ASSUME Bad # {} PROVE FALSE
        OBVIOUS
    <2>1. PICK s \in Bad : \A t \in Bad : t \subseteq s => t = s
        <3>1. Bad \subseteq SUBSET S
            OBVIOUS
        <3> HIDE DEF Bad
        <3> QED
            BY <3>1, SmallestSubset
    <2>2. s \in SUBSET S /\ g[s] # Made(s)
        OBVIOUS
    <2>3. CASE s = {}
        BY <1>3, <2>2, <2>3 DEF Made, Nothing
    <2>4. CASE s # {}
        <3> DEFINE d == AnyOf(s)
        <3> DEFINE t == s \ {d}
        <3>1. d \in s /\ t \in SUBSET S /\ t # s /\ t \subseteq s
            BY <2>2, <2>4, PickedIn
        <3>2. g[t] = Made(t)
            BY <2>1, <3>1
        <3>3. g[s] = EnsureDirectory(g[t], Tail(d))
            BY <1>3, <2>2, <2>4
        <3> HIDE DEF d, Bad
        <3> QED
            BY <2>2, <3>1, <3>2, <3>3, MadeStep
    <2> QED
        BY <2>3, <2>4
<1>5. S \notin Bad
    <2> HIDE DEF Bad
    <2> QED
        BY <1>4
<1> QED
    BY <1>2, <1>5

DirsOf(s) == UNION {FoldersUnder(f) : f \in s}

\* No file is where a directory has to be.
Separate(F) == F \subseteq Mountable /\ \A p, f \in F : ~IsStrictPrefix(p, f)

Leaf(F, p) == Content(CHOOSE f \in F : Tail(f) = p)

\* Some of the directories and some of the files of a tree.
Grown(F, dirs, s) ==
    [p \in dirs \cup {Tail(f) : f \in s} |-> IF p \in DirsOf(F) THEN Folder ELSE Leaf(F, p)]

LEMMA FilesApart ==
    ASSUME NEW F, Separate(F), NEW path \in F
    PROVE  /\ Tail(path) \notin DirsOf(F)
           /\ \A q \in DirsOf(F) \cup {Tail(f) : f \in F} : ~IsStrictPrefix(Tail(path), q)
           /\ Leaf(F, Tail(path)) = Content(path)
<1>1. path \in Mountable /\ \A f \in F : f \in Mountable /\ ~IsStrictPrefix(path, f)
    BY DEF Separate
<1>2. ASSUME NEW f \in F, NEW n \in 2..(Len(f) - 1)
      PROVE  ~IsStrictPrefix(Tail(path), SubSeq(f, 2, n)) /\ Tail(path) # SubSeq(f, 2, n)
    <2>1. n \in 2..Len(f) /\ n < Len(f)
        BY <1>1, PathTyped
    <2> QED
        BY <1>1, <2>1, ReachesInto
<1>3. ASSUME NEW f \in F PROVE ~IsStrictPrefix(Tail(path), Tail(f))
    <2>1. f \in Paths /\ Len(f) \in 2..Len(f) /\ Len(f) >= 1
        BY <1>1, PathTyped
    <2>2. Tail(f) = SubSeq(f, 2, Len(f))
        BY <2>1, PathTail
    <2> QED
        BY <1>1, <2>1, <2>2, ReachesInto
<1>4. (CHOOSE f \in F : Tail(f) = Tail(path)) = path
    <2> DEFINE c == CHOOSE f \in F : Tail(f) = Tail(path)
    <2>1. c \in F /\ Tail(c) = Tail(path)
        OBVIOUS
    <2> HIDE DEF c
    <2>2. c = path
        BY <1>1, <2>1, TailKnows
    <2> QED
        BY <2>2 DEF c
<1> QED
    BY <1>2, <1>3, <1>4 DEF DirsOf, FoldersUnder, Leaf

LEMMA GrownTyped ==
    ASSUME NEW F, NEW dirs, NEW s
    PROVE  /\ DOMAIN Grown(F, dirs, s) = dirs \cup {Tail(f) : f \in s}
           /\ \A p \in dirs \cup {Tail(f) : f \in s} :
                 Grown(F, dirs, s)[p] = IF p \in DirsOf(F) THEN Folder ELSE Leaf(F, p)
    BY DEF Grown

\* The directories on a file's way, in a tree that has them or not.
LEMMA DirsAdded ==
    ASSUME NEW F, Separate(F), NEW path \in F, NEW dirs \in SUBSET DirsOf(F), NEW s \in SUBSET F
    PROVE  EnsureDirectory(Grown(F, dirs, s), Front(Tail(path))) = Grown(F, dirs \cup FoldersUnder(path), s)
<1> DEFINE files == {Tail(f) : f \in s}
<1> DEFINE links == FoldersUnder(path)
<1>2. links \subseteq DirsOf(F)
    BY DEF DirsOf
<1>3. Links(Front(Tail(path))) = links
    BY LinksToFile DEF Separate
<1>5. EnsureDirectory(Grown(F, dirs, s), Front(Tail(path))) = Grown(F, dirs \cup links, s)
    <2>1. EnsureDirectory(Grown(F, dirs, s), Front(Tail(path)))
             = [p \in DOMAIN Grown(F, dirs, s) \cup links |->
                   IF p \in links THEN Folder ELSE Grown(F, dirs, s)[p]]
        BY <1>3 DEF EnsureDirectory, Links
    <2>2. Grown(F, dirs \cup links, s)
             = [p \in (dirs \cup links) \cup files |-> IF p \in DirsOf(F) THEN Folder ELSE Leaf(F, p)]
        BY DEF Grown
    <2>3. /\ DOMAIN Grown(F, dirs, s) = dirs \cup files
          /\ \A p \in dirs \cup files : Grown(F, dirs, s)[p] = IF p \in DirsOf(F) THEN Folder ELSE Leaf(F, p)
        BY GrownTyped
    <2> HIDE DEF files, links
    <2>4. (dirs \cup files) \cup links = (dirs \cup links) \cup files
        OBVIOUS
    <2>5. \A p \in (dirs \cup links) \cup files :
             (IF p \in links THEN Folder ELSE Grown(F, dirs, s)[p])
                = IF p \in DirsOf(F) THEN Folder ELSE Leaf(F, p)
        BY <1>2, <2>3
    <2> QED
        BY <2>1, <2>2, <2>3, <2>4, <2>5
<1> QED
    BY <1>5

\* And the file itself.
LEMMA FileAdded ==
    ASSUME NEW F, Separate(F), NEW path \in F, NEW dirs \in SUBSET DirsOf(F), NEW s \in SUBSET F
    PROVE  Extend(Grown(F, dirs, s), Tail(path), Content(path)) = Grown(F, dirs, s \cup {path})
<1> DEFINE files == {Tail(f) : f \in s}
<1>1. Tail(path) \notin DirsOf(F) /\ Leaf(F, Tail(path)) = Content(path)
    BY FilesApart
<1>4. {Tail(f) : f \in s \cup {path}} = files \cup {Tail(path)}
    OBVIOUS
<1>6. Extend(Grown(F, dirs, s), Tail(path), Content(path)) = Grown(F, dirs, s \cup {path})
    <2>1. /\ DOMAIN Grown(F, dirs, s) = dirs \cup files
          /\ \A p \in dirs \cup files : Grown(F, dirs, s)[p] = IF p \in DirsOf(F) THEN Folder ELSE Leaf(F, p)
        BY GrownTyped
    <2>2. Extend(Grown(F, dirs, s), Tail(path), Content(path))
             = [p \in (dirs \cup files) \cup {Tail(path)} |->
                   IF p = Tail(path) THEN Content(path) ELSE Grown(F, dirs, s)[p]]
        BY <2>1 DEF Extend
    <2>3. Grown(F, dirs, s \cup {path})
             = [p \in dirs \cup (files \cup {Tail(path)}) |->
                   IF p \in DirsOf(F) THEN Folder ELSE Leaf(F, p)]
        BY <1>4 DEF Grown
    <2> HIDE DEF files
    <2>4. \A p \in (dirs \cup files) \cup {Tail(path)} :
             (IF p = Tail(path) THEN Content(path) ELSE Grown(F, dirs, s)[p])
                = IF p \in DirsOf(F) THEN Folder ELSE Leaf(F, p)
        BY <1>1, <2>1
    <2>5. (dirs \cup files) \cup {Tail(path)} = dirs \cup (files \cup {Tail(path)})
        OBVIOUS
    <2> QED
        BY <2>2, <2>3, <2>4, <2>5
<1> QED
    BY <1>6

LEMMA FileSet ==
    ASSUME NEW F, Separate(F), NEW s \in SUBSET F, NEW path \in F
    PROVE  SetFile(path, Grown(F, DirsOf(F), s)) = Grown(F, DirsOf(F), s \cup {path})
<1> DEFINE tree == Grown(F, DirsOf(F), s)
<1>0. /\ DirsOf(F) \in SUBSET DirsOf(F)
      /\ EnsureDirectory(Grown(F, DirsOf(F), s), Front(Tail(path)))
            = Grown(F, DirsOf(F) \cup FoldersUnder(path), s)
      /\ Extend(Grown(F, DirsOf(F), s), Tail(path), Content(path))
            = Grown(F, DirsOf(F), s \cup {path})
    <2> DEFINE dirs == DirsOf(F)
    <2>1. dirs \in SUBSET DirsOf(F)
        OBVIOUS
    <2> HIDE DEF dirs
    <2>2. /\ EnsureDirectory(Grown(F, dirs, s), Front(Tail(path))) = Grown(F, dirs \cup FoldersUnder(path), s)
          /\ Extend(Grown(F, dirs, s), Tail(path), Content(path)) = Grown(F, dirs, s \cup {path})
        BY <2>1, FileAdded, DirsAdded
    <2> QED
        BY <2>1, <2>2 DEF dirs
<1>1. EnsureDirectory(tree, Front(Tail(path))) = tree
    <2>1. DirsOf(F) \cup FoldersUnder(path) = DirsOf(F)
        BY DEF DirsOf
    <2>2. EnsureDirectory(tree, Front(Tail(path))) = Grown(F, DirsOf(F) \cup FoldersUnder(path), s)
        BY <1>0
    <2> QED
        BY <2>1, <2>2
<1>2. \A q \in DOMAIN tree : ~IsStrictPrefix(Tail(path), q)
    <2>1. DOMAIN tree = DirsOf(F) \cup {Tail(f) : f \in s}
        BY DEF Grown
    <2>2. DOMAIN tree \subseteq DirsOf(F) \cup {Tail(f) : f \in F}
        BY <2>1
    <2> HIDE DEF tree
    <2> QED
        BY <2>2, FilesApart
<1>3. Extend(tree, Tail(path), Content(path)) = Grown(F, DirsOf(F), s \cup {path})
    BY <1>0
<1>4. tree = [p \in DOMAIN tree |-> tree[p]]
    BY DEF Grown
<1> HIDE DEF tree
<1>5. {q \in DOMAIN tree : ~IsStrictPrefix(Tail(path), q)} = DOMAIN tree
    BY <1>2
<1>6. SetFile(path, tree)
         = Extend([p \in {q \in DOMAIN tree : ~IsStrictPrefix(Tail(path), q)} |-> tree[p]],
                  Tail(path), Content(path))
    BY <1>1 DEF SetFile
<1>7. SetFile(path, tree) = Extend(tree, Tail(path), Content(path))
    BY <1>4, <1>5, <1>6
<1> QED
    BY <1>3, <1>7 DEF tree

\* Values that stand for something else are no functions.
IsFunction(f) == f = [x \in DOMAIN f |-> f[x]]

LEMMA FileWritten ==
    ASSUME NEW F, Separate(F), NEW s \in SUBSET F, NEW path \in F, path \notin s,
           ~IsFunction(Refused)
    PROVE  WriteOut(path, Grown(F, DirsOf(s), s))
              = Grown(F, DirsOf(s \cup {path}), s \cup {path})
<1> DEFINE out == Grown(F, DirsOf(s), s)
<1>1. DirsOf(s) \subseteq DirsOf(F) /\ FoldersUnder(path) \subseteq DirsOf(F)
      /\ DirsOf(s) \cup FoldersUnder(path) = DirsOf(s \cup {path})
    BY DEF DirsOf
<1>2. /\ DOMAIN out = DirsOf(s) \cup {Tail(f) : f \in s}
      /\ \A p \in DirsOf(s) \cup {Tail(f) : f \in s} :
            out[p] = IF p \in DirsOf(F) THEN Folder ELSE Leaf(F, p)
    BY GrownTyped
<1>3. out # Refused
    <2>1. out = [p \in DOMAIN out |-> out[p]]
        BY DEF Grown
    <2> HIDE DEF out
    <2> QED
        BY <2>1 DEF IsFunction
<1>4. ~\E d \in FoldersUnder(path) : d \in DOMAIN out /\ out[d] # Folder
    BY <1>1, <1>2
<1>5. Tail(path) \notin DOMAIN out
    <2>1. Tail(path) \notin DirsOf(s)
        BY <1>1, FilesApart
    <2>2. \A f \in s : Tail(path) # Tail(f)
        BY TailKnows DEF Separate
    <2> QED
        BY <1>2, <2>1, <2>2
<1>6. Extend(EnsureDirectory(out, Front(Tail(path))), Tail(path), Content(path))
         = Grown(F, DirsOf(s \cup {path}), s \cup {path})
    <2>1. EnsureDirectory(out, Front(Tail(path))) = Grown(F, DirsOf(s) \cup FoldersUnder(path), s)
        BY <1>1, DirsAdded
    <2> DEFINE dirs == DirsOf(s) \cup FoldersUnder(path)
    <2>2. dirs \in SUBSET DirsOf(F)
        BY <1>1
    <2>3. Extend(Grown(F, dirs, s), Tail(path), Content(path)) = Grown(F, dirs, s \cup {path})
        <3> HIDE DEF dirs
        <3> QED
            BY <2>2, FileAdded
    <2> QED
        BY <1>1, <2>1, <2>3
<1> HIDE DEF out
<1>7. WriteOut(path, out) = Extend(EnsureDirectory(out, Front(Tail(path))), Tail(path), Content(path))
    BY <1>3, <1>4, <1>5 DEF WriteOut, FoldersUnder
<1> QED
    BY <1>6, <1>7 DEF out

\* The tree, whatever order the files come in.
LEMMA TreeGrown ==
    ASSUME NEW F, IsFiniteSet(F), Separate(F)
    PROVE  FoldSet(SetFile, Grown(F, DirsOf(F), {}), F) = Grown(F, DirsOf(F), F)
<1> DEFINE h == [s \in SUBSET F |-> Grown(F, DirsOf(F), s)]
<1>1. SetsAll(h, Grown(F, DirsOf(F), {}), F)
    <2> DEFINE Step(s) == IF s = {} THEN Grown(F, DirsOf(F), {})
                          ELSE SetFile(AnyOf(s), h[s \ {AnyOf(s)}])
    <2>1. ASSUME NEW s \in SUBSET F PROVE Grown(F, DirsOf(F), s) = Step(s)
        <3>1. CASE s = {}
            BY <3>1
        <3>2. CASE s # {}
            <4> DEFINE t == s \ {AnyOf(s)}
            <4>1. /\ AnyOf(s) \in s /\ AnyOf(s) \in F /\ t \in SUBSET F /\ AnyOf(s) \notin t
                  /\ t \cup {AnyOf(s)} = s /\ h[t] = Grown(F, DirsOf(F), t)
                BY <3>2, PickedIn
            <4>2. SetFile(AnyOf(s), Grown(F, DirsOf(F), t)) = Grown(F, DirsOf(F), t \cup {AnyOf(s)})
                <5> HIDE DEF t, h
                <5> QED
                    BY <4>1, FileSet
            <4> QED
                BY <3>2, <4>1, <4>2
        <3> QED
            BY <3>1, <3>2
    <2>2. h = [s \in SUBSET F |-> Step(s)]
        <3> HIDE DEF Step
        <3> QED
            BY <2>1
    <2> HIDE DEF h
    <2> QED
        BY <2>2 DEF SetsAll
<1>2. PICK g : FoldSet(SetFile, Grown(F, DirsOf(F), {}), F) = g[F] /\ SetsAll(g, Grown(F, DirsOf(F), {}), F)
    BY <1>1, SetIsFold
<1>3. \A s \in SUBSET F : g[s] = IF s = {} THEN Grown(F, DirsOf(F), {})
                                 ELSE SetFile(AnyOf(s), g[s \ {AnyOf(s)}])
    BY <1>2 DEF SetsAll
<1> DEFINE Bad == {s \in SUBSET F : g[s] # Grown(F, DirsOf(F), s)}
<1>4. Bad = {}
    <2> SUFFICES ASSUME Bad # {} PROVE FALSE
        OBVIOUS
    <2>1. PICK s \in Bad : \A t \in Bad : t \subseteq s => t = s
        <3>1. Bad \subseteq SUBSET F
            OBVIOUS
        <3> HIDE DEF Bad
        <3> QED
            BY <3>1, SmallestSubset
    <2>2. s \in SUBSET F /\ g[s] # Grown(F, DirsOf(F), s)
        OBVIOUS
    <2>3. CASE s = {}
        BY <1>3, <2>2, <2>3
    <2>4. CASE s # {}
        <3> DEFINE e == AnyOf(s)
        <3> DEFINE t == s \ {e}
        <3>1. /\ e \in s /\ e \in F /\ t \in SUBSET F /\ t # s /\ t \subseteq s /\ e \notin t
              /\ t \cup {e} = s
            BY <2>2, <2>4, PickedIn
        <3>2. g[t] = Grown(F, DirsOf(F), t)
            BY <2>1, <3>1
        <3>3. g[s] = SetFile(e, g[t])
            BY <1>3, <2>2, <2>4
        <3> HIDE DEF e, t, Bad
        <3>4. SetFile(e, Grown(F, DirsOf(F), t)) = Grown(F, DirsOf(F), t \cup {e})
            BY <3>1, FileSet
        <3> QED
            BY <2>2, <3>1, <3>2, <3>3, <3>4
    <2> QED
        BY <2>3, <2>4
<1>5. F \notin Bad
    <2> HIDE DEF Bad
    <2> QED
        BY <1>4
<1> QED
    BY <1>2, <1>5

\* What is written to the disk.
LEMMA DiskWritten ==
    ASSUME NEW F, IsFiniteSet(F), Separate(F), ~IsFunction(Refused)
    PROVE  FoldSet(WriteOut, Nothing, F) = Grown(F, DirsOf(F), F)
<1> DEFINE h == [s \in SUBSET F |-> Grown(F, DirsOf(s), s)]
<1>1. WritesAll(h, F)
    <2> DEFINE Step(s) == IF s = {} THEN Nothing
                          ELSE WriteOut(AnyOf(s), h[s \ {AnyOf(s)}])
    <2>1. ASSUME NEW s \in SUBSET F PROVE Grown(F, DirsOf(s), s) = Step(s)
        <3>1. CASE s = {}
            BY <3>1 DEF Grown, DirsOf, Nothing
        <3>2. CASE s # {}
            <4> DEFINE t == s \ {AnyOf(s)}
            <4>1. /\ AnyOf(s) \in s /\ AnyOf(s) \in F /\ t \in SUBSET F /\ AnyOf(s) \notin t
                  /\ t \cup {AnyOf(s)} = s /\ h[t] = Grown(F, DirsOf(t), t)
                BY <3>2, PickedIn
            <4>2. WriteOut(AnyOf(s), Grown(F, DirsOf(t), t)) = Grown(F, DirsOf(t \cup {AnyOf(s)}), t \cup {AnyOf(s)})
                <5> HIDE DEF t, h
                <5> QED
                    BY <4>1, FileWritten
            <4> QED
                BY <3>2, <4>1, <4>2
        <3> QED
            BY <3>1, <3>2
    <2>2. h = [s \in SUBSET F |-> Step(s)]
        <3> HIDE DEF Step
        <3> QED
            BY <2>1
    <2> HIDE DEF h
    <2> QED
        BY <2>2 DEF WritesAll
<1>2. PICK g : FoldSet(WriteOut, Nothing, F) = g[F] /\ WritesAll(g, F)
    BY <1>1, WriteIsFold
<1>3. \A s \in SUBSET F : g[s] = IF s = {} THEN Nothing
                                 ELSE WriteOut(AnyOf(s), g[s \ {AnyOf(s)}])
    BY <1>2 DEF WritesAll
<1> DEFINE Bad == {s \in SUBSET F : g[s] # Grown(F, DirsOf(s), s)}
<1>4. Bad = {}
    <2> SUFFICES ASSUME Bad # {} PROVE FALSE
        OBVIOUS
    <2>1. PICK s \in Bad : \A t \in Bad : t \subseteq s => t = s
        <3>1. Bad \subseteq SUBSET F
            OBVIOUS
        <3> HIDE DEF Bad
        <3> QED
            BY <3>1, SmallestSubset
    <2>2. s \in SUBSET F /\ g[s] # Grown(F, DirsOf(s), s)
        OBVIOUS
    <2>3. CASE s = {}
        BY <1>3, <2>2, <2>3 DEF Grown, DirsOf, Nothing
    <2>4. CASE s # {}
        <3> DEFINE e == AnyOf(s)
        <3> DEFINE t == s \ {e}
        <3>1. /\ e \in s /\ e \in F /\ t \in SUBSET F /\ t # s /\ t \subseteq s /\ e \notin t
              /\ t \cup {e} = s
            BY <2>2, <2>4, PickedIn
        <3>2. g[t] = Grown(F, DirsOf(t), t)
            BY <2>1, <3>1
        <3>3. g[s] = WriteOut(e, g[t])
            BY <1>3, <2>2, <2>4
        <3> HIDE DEF e, t, Bad
        <3>4. WriteOut(e, Grown(F, DirsOf(t), t)) = Grown(F, DirsOf(t \cup {e}), t \cup {e})
            BY <3>1, FileWritten
        <3> QED
            BY <2>2, <3>1, <3>2, <3>3, <3>4
    <2> QED
        BY <2>3, <2>4
<1>5. F \notin Bad
    <2> HIDE DEF Bad
    <2> QED
        BY <1>4
<1> QED
    BY <1>2, <1>5

-----------------------------------------------------------------------------
(* The round trip.                                                          *)

KeptPaths == {e.path : e \in Collect}

\* No two kept files have paths of which one goes through the other.
NoFileIsADirectory == \A p, f \in KeptPaths : ~IsStrictPrefix(p, f)

SysrootInv ==
    /\ sdk \in SUBSET Sdk
    /\ NoFileIsADirectory
    /\ image # Absent => IF Clash(Collect) THEN image = Refused ELSE Holds(image, Collect)
    /\ vfs # Absent => vfs = Promised
    /\ disk # Absent => disk = Promised

LEMMA KeptSeparate ==
    ASSUME sdk \in SUBSET Sdk, NoFileIsADirectory
    PROVE  IsFiniteSet(KeptPaths) /\ Separate(KeptPaths)
<1> DEFINE f == [e \in Collect |-> e.path]
<1>1. IsFiniteSet(Collect) /\ Collect \subseteq Entries
    BY CollectTyped
<1>2. IsFiniteSet({f[e] : e \in Collect})
    <2> HIDE DEF f
    <2> QED
        BY <1>1, FiniteImage
<1>3. KeptPaths = {f[e] : e \in Collect}
    BY DEF KeptPaths
<1>4. KeptPaths \subseteq Mountable
    BY <1>1 DEF KeptPaths, Entries
<1> QED
    BY <1>2, <1>3, <1>4 DEF Separate, NoFileIsADirectory

LEMMA ImageFiles ==
    ASSUME sdk \in SUBSET Sdk, NoFileIsADirectory, Holds(image, Collect)
    PROVE  Mounted(DOMAIN image.files) = KeptPaths
<1>1. DOMAIN image.files = KeptPaths
    BY DEF Holds, KeptPaths
<1>2. \A p \in KeptPaths : p[1] = "sysroot"
    BY KeptSeparate, PathTyped DEF Separate
<1> QED
    BY <1>1, <1>2 DEF Mounted

\* The manifest's directories make those on the way to some file, and no others.
LEMMA ImageDirectories ==
    ASSUME sdk \in SUBSET Sdk, NoFileIsADirectory, Holds(image, Collect)
    PROVE  /\ IsFiniteSet(Mounted(image.directories))
           /\ Made(Mounted(image.directories)) = Grown(KeptPaths, DirsOf(KeptPaths), {})
<1> DEFINE above == UNION {FoldersOn(p) : p \in KeptPaths}
<1> DEFINE top == <<"sysroot">>
<1>1. IsFiniteSet(KeptPaths) /\ KeptPaths \subseteq Mountable
    BY KeptSeparate DEF Separate
<1>2. image.directories = {top} \cup above
    BY DEF Holds, KeptPaths
<1>3. ASSUME NEW p \in KeptPaths, NEW n \in 1..(Len(p) - 1)
      PROVE  SubSeq(p, 1, n)[1] = "sysroot"
    <2>1. p \in Paths /\ n \in 1..Len(p) /\ 1 \in 1..n /\ p[1] = "sysroot"
        BY <1>1, PathTyped
    <2> QED
        BY <2>1, Prefix
<1>4. Mounted(image.directories) = {top} \cup above
    BY <1>2, <1>3 DEF Mounted, FoldersOn
<1>5. IsFiniteSet({top} \cup above)
    <2>1. ASSUME NEW p \in KeptPaths PROVE IsFiniteSet(FoldersOn(p))
        <3> DEFINE f == [n \in 1..(Len(p) - 1) |-> SubSeq(p, 1, n)]
        <3>0. p \in Paths /\ Len(p) - 1 \in Int
            BY <1>1, PathTyped
        <3>1. IsFiniteSet(1..(Len(p) - 1))
            BY <3>0, FS_Interval
        <3>2. IsFiniteSet({f[n] : n \in 1..(Len(p) - 1)})
            <4> HIDE DEF f
            <4> QED
                BY <3>1, FiniteImage
        <3>3. FoldersOn(p) = {f[n] : n \in 1..(Len(p) - 1)}
            BY DEF FoldersOn
        <3> QED
            BY <3>2, <3>3
    <2> DEFINE g == [p \in KeptPaths |-> FoldersOn(p)]
    <2>2. IsFiniteSet({g[p] : p \in KeptPaths})
        <3> HIDE DEF g
        <3> QED
            BY <1>1, FiniteImage
    <2>3. {g[p] : p \in KeptPaths} = {FoldersOn(p) : p \in KeptPaths}
        OBVIOUS
    <2>4. IsFiniteSet(above)
        BY <2>1, <2>2, <2>3, FS_UNION
    <2>5. IsFiniteSet({top})
        BY FS_Singleton
    <2> HIDE DEF above, top
    <2> QED
        BY <2>4, <2>5, FS_Union
<1>6. UNION {Links(Tail(d)) : d \in {top} \cup above} = DirsOf(KeptPaths)
    <2>1. Links(Tail(top)) = {}
        <3>1. top \in Paths /\ Len(top) = 1
            BY DEF Paths, Segments
        <3>2. Len(Tail(top)) = 0
            <4> HIDE DEF top
            <4> QED
                BY <3>1, PathTail
        <3> HIDE DEF top
        <3> QED
            BY <3>2 DEF Links
    <2>2. ASSUME NEW p \in KeptPaths, NEW n \in 1..(Len(p) - 1)
          PROVE  Links(Tail(SubSeq(p, 1, n))) = {SubSeq(p, 2, k) : k \in 2..n}
        BY <1>1, LinksToDirectory
    <2>3. ASSUME NEW q, q \in UNION {Links(Tail(d)) : d \in {top} \cup above}
          PROVE  q \in DirsOf(KeptPaths)
        <3>1. PICK d \in {top} \cup above : q \in Links(Tail(d))
            BY <2>3
        <3>2. d \in above
            BY <2>1, <3>1
        <3>3. PICK p \in KeptPaths : d \in FoldersOn(p)
            BY <3>2
        <3>4. PICK n \in 1..(Len(p) - 1) : d = SubSeq(p, 1, n)
            BY <3>3 DEF FoldersOn
        <3>5. PICK k \in 2..n : q = SubSeq(p, 2, k)
            BY <2>2, <3>1, <3>4
        <3>6. k \in 2..(Len(p) - 1)
            BY <1>1, PathTyped
        <3> QED
            BY <3>5, <3>6 DEF DirsOf, FoldersUnder
    <2>4. ASSUME NEW q, q \in DirsOf(KeptPaths)
          PROVE  q \in UNION {Links(Tail(d)) : d \in {top} \cup above}
        <3>1. PICK p \in KeptPaths : q \in FoldersUnder(p)
            BY <2>4 DEF DirsOf
        <3>2. PICK n \in 2..(Len(p) - 1) : q = SubSeq(p, 2, n)
            BY <3>1 DEF FoldersUnder
        <3>3. n \in 1..(Len(p) - 1) /\ n \in 2..n
            BY <1>1, PathTyped
        <3>4. q \in Links(Tail(SubSeq(p, 1, n)))
            BY <2>2, <3>2, <3>3
        <3>5. SubSeq(p, 1, n) \in above
            BY <3>3 DEF FoldersOn
        <3> QED
            BY <3>4, <3>5
    <2> QED
        BY <2>3, <2>4
<1>7. Grown(KeptPaths, DirsOf(KeptPaths), {}) = [p \in DirsOf(KeptPaths) |-> Folder]
    BY DEF Grown
<1> QED
    BY <1>4, <1>5, <1>6, <1>7 DEF Made

LEMMA TreePromised ==
    ASSUME sdk \in SUBSET Sdk, NoFileIsADirectory, ~Clash(Collect), Holds(image, Collect)
    PROVE  Grown(KeptPaths, DirsOf(KeptPaths), KeptPaths) = Promised
<1>1. /\ KeptPaths \subseteq Mountable /\ Separate(KeptPaths)
      /\ Collect \subseteq Entries
    BY KeptSeparate, CollectTyped DEF Separate
<1>2. Promised = [p \in {Tail(f) : f \in KeptPaths} \cup DirsOf(KeptPaths) |->
                     IF p \in DirsOf(KeptPaths) THEN Folder
                     ELSE Bytes((CHOOSE e \in Collect : Tail(e.path) = p).source)]
    BY DEF Promised, KeptPaths, DirsOf, FoldersUnder
<1>3. ASSUME NEW e \in Collect
      PROVE  Leaf(KeptPaths, Tail(e.path)) = Bytes((CHOOSE c \in Collect : Tail(c.path) = Tail(e.path)).source)
    <2> DEFINE c == CHOOSE d \in Collect : Tail(d.path) = Tail(e.path)
    <2>1. c \in Collect /\ Tail(c.path) = Tail(e.path)
        OBVIOUS
    <2> HIDE DEF c
    <2>2. c.path \in Mountable /\ e.path \in Mountable /\ e.path \in KeptPaths
        BY <1>1, <2>1 DEF KeptPaths
    <2>3. c.path = e.path
        BY <2>1, <2>2, TailKnows
    <2>4. c = e
        BY <2>1, <2>3 DEF Clash
    <2>5. Leaf(KeptPaths, Tail(e.path)) = Content(e.path)
        BY <1>1, <2>2, FilesApart
    <2>6. Content(e.path) = Bytes(e.source)
        BY DEF Content, Holds
    <2> QED
        BY <2>4, <2>5, <2>6 DEF c
<1>4. \A p \in {Tail(f) : f \in KeptPaths} :
         Leaf(KeptPaths, p) = Bytes((CHOOSE e \in Collect : Tail(e.path) = p).source)
    <2> SUFFICES ASSUME NEW p \in {Tail(f) : f \in KeptPaths}
                 PROVE  Leaf(KeptPaths, p) = Bytes((CHOOSE e \in Collect : Tail(e.path) = p).source)
        OBVIOUS
    <2>1. PICK e \in Collect : p = Tail(e.path)
        BY DEF KeptPaths
    <2> QED
        BY <1>3, <2>1
<1>5. Grown(KeptPaths, DirsOf(KeptPaths), KeptPaths)
         = [p \in DirsOf(KeptPaths) \cup {Tail(f) : f \in KeptPaths} |->
               IF p \in DirsOf(KeptPaths) THEN Folder ELSE Leaf(KeptPaths, p)]
    BY DEF Grown
<1> QED
    BY <1>2, <1>4, <1>5

LEMMA SourcesStay ==
    ASSUME UNCHANGED sdk
    PROVE  /\ Collect' = Collect /\ KeptPaths' = KeptPaths /\ Promised' = Promised
           /\ Clash(Collect)' = Clash(Collect) /\ NoFileIsADirectory' = NoFileIsADirectory
           /\ (image' = image => Holds(image, Collect)' = Holds(image, Collect))
<1>1. Sources' = Sources /\ \A s : Length(s)' = Length(s)
    BY DEF Sources, Length
<1>2. \A s : Bytes(s)' = Bytes(s)
    BY <1>1 DEF Bytes
<1>3. Collect' = Collect
    BY <1>1 DEF Collect, Placed, Walk, FirstOf
<1>4. KeptPaths' = KeptPaths
    BY <1>3 DEF KeptPaths
<1>5. Promised' = Promised
    BY <1>2, <1>3 DEF Promised
<1>6. Clash(Collect)' = Clash(Collect) /\ NoFileIsADirectory' = NoFileIsADirectory
    BY <1>3, <1>4 DEF Clash, NoFileIsADirectory
<1>7. image' = image => Holds(image, Collect)' = Holds(image, Collect)
    BY <1>1, <1>2, <1>3 DEF Holds, Byte
<1> QED
    BY <1>3, <1>4, <1>5, <1>6, <1>7

LEMMA ImageIsFunction ==
    ASSUME NEW img, NEW s, Holds(img, s) PROVE IsFunction(img)
    BY DEF Holds, IsFunction

LEMMA SysrootStep ==
    ASSUME SysrootInv, SysrootNext, ~IsFunction(Absent), ~IsFunction(Refused)
    PROVE  SysrootInv'
<1>1. CASE Pack
    <2>1. /\ image = Absent /\ UNCHANGED <<sdk, vfs, disk>>
          /\ image' = IF Clash(Collect) THEN Refused ELSE FoldSet(PackEntry, EmptyImage, Collect)
        BY <1>1 DEF Pack, EmptyImage
    <2>2. ~Clash(Collect) => Holds(image', Collect)
        <3>1. IsFiniteSet(Collect) /\ Collect \subseteq Entries
            BY CollectTyped DEF SysrootInv
        <3>2. ~Clash(Collect) => \A e, f \in Collect : e # f => e.path # f.path
            BY DEF Clash
        <3> QED
            BY <2>1, <3>1, <3>2, PackedHolds DEF SysrootInv
    <2>3. Holds(image, Collect)' = Holds(image', Collect)
        <3>1. Sources' = Sources /\ \A s : Length(s)' = Length(s)
            BY <2>1 DEF Sources, Length
        <3>2. \A s : Bytes(s)' = Bytes(s)
            BY <3>1 DEF Bytes
        <3> QED
            BY <2>1, <3>1, <3>2, SourcesStay DEF Holds, Byte
    <2> QED
        BY <2>1, <2>2, <2>3, SourcesStay DEF SysrootInv
<1>2. CASE ParseSysroot
    <2>1. /\ image \notin {Absent, Refused} /\ UNCHANGED <<sdk, image, disk>>
          /\ vfs' = FoldSet(SetFile,
                            FoldSet(LAMBDA d, t : EnsureDirectory(t, Tail(d)), Nothing,
                                    Mounted(image.directories)),
                            Mounted(DOMAIN image.files))
        BY <1>2 DEF ParseSysroot, Packed
    <2>2. ~Clash(Collect) /\ Holds(image, Collect)
        BY <2>1 DEF SysrootInv
    <2>3. /\ IsFiniteSet(Mounted(image.directories))
          /\ Made(Mounted(image.directories)) = Grown(KeptPaths, DirsOf(KeptPaths), {})
          /\ Mounted(DOMAIN image.files) = KeptPaths
        BY <2>2, ImageDirectories, ImageFiles DEF SysrootInv
    <2>4. FoldSet(LAMBDA d, t : EnsureDirectory(t, Tail(d)), Nothing, Mounted(image.directories))
             = Grown(KeptPaths, DirsOf(KeptPaths), {})
        BY <2>3, MadeAll
    <2>5. FoldSet(SetFile, Grown(KeptPaths, DirsOf(KeptPaths), {}), KeptPaths) = Grown(KeptPaths, DirsOf(KeptPaths), KeptPaths)
        BY KeptSeparate, TreeGrown DEF SysrootInv
    <2>6. vfs' = Promised
        BY <2>1, <2>2, <2>3, <2>4, <2>5, TreePromised DEF SysrootInv
    <2> QED
        BY <2>1, <2>6, SourcesStay DEF SysrootInv
<1>3. CASE Unpack
    <2>1. /\ image \notin {Absent, Refused} /\ UNCHANGED <<sdk, image, vfs>>
          /\ disk' = FoldSet(WriteOut, Nothing, Mounted(DOMAIN image.files))
        BY <1>3 DEF Unpack, Packed
    <2>2. ~Clash(Collect) /\ Holds(image, Collect)
        BY <2>1 DEF SysrootInv
    <2>3. Mounted(DOMAIN image.files) = KeptPaths
        BY <2>2, ImageFiles DEF SysrootInv
    <2>4. FoldSet(WriteOut, Nothing, KeptPaths) = Grown(KeptPaths, DirsOf(KeptPaths), KeptPaths)
        BY KeptSeparate, DiskWritten DEF SysrootInv
    <2>5. disk' = Promised
        BY <2>1, <2>2, <2>3, <2>4, TreePromised DEF SysrootInv
    <2> QED
        BY <2>1, <2>5, SourcesStay DEF SysrootInv
<1> QED
    BY <1>1, <1>2, <1>3 DEF SysrootNext

\* What the compiler mounts, and what the precompiled header is built against, is every kept
\* file with its own bytes and the directories above it, and packing is refused for a clash
\* of paths only (pack-sysroot.mjs 193-240, sysroot.ts 45-73, unpack-sysroot.mjs 21-36):
\* for any SDK in which no kept file has a path through another one.
THEOREM ImageComesBack ==
    ASSUME ~IsFunction(Absent), ~IsFunction(Refused)
    PROVE  SysrootSpec /\ NoFileIsADirectory => []SysrootRoundTrip
<1>1. SysrootInit /\ NoFileIsADirectory => SysrootInv
    BY DEF SysrootInit, SysrootInv
<1>2. SysrootInv /\ [SysrootNext]_imageVars => SysrootInv'
    <2> SUFFICES ASSUME SysrootInv, [SysrootNext]_imageVars PROVE SysrootInv'
        OBVIOUS
    <2>1. CASE SysrootNext
        BY <2>1, SysrootStep
    <2>2. CASE UNCHANGED imageVars
        BY <2>2, SourcesStay DEF imageVars, SysrootInv
    <2> QED
        BY <2>1, <2>2
<1>3. SysrootInv => SysrootRoundTrip
    <2> SUFFICES ASSUME SysrootInv PROVE SysrootRoundTrip
        OBVIOUS
    <2>1. image # Absent => (Packed <=> ~Clash(Collect))
        BY ImageIsFunction, SysrootAssumption DEF SysrootInv, Packed
    <2> QED
        BY <2>1 DEF SysrootInv, SysrootRoundTrip
<1> QED
    BY <1>1, <1>2, <1>3, PTL DEF SysrootSpec

-----------------------------------------------------------------------------
(* Archive: numbers as digits.                                              *)

\* All but the last digit of a number, and the last.
LEMMA LongNumber ==
    ASSUME NEW n \in Nat, n >= Base
    PROVE  /\ n \div Base \in Nat \ {0} /\ n \div Base < n
           /\ n % Base \in Nat /\ n = (Base * (n \div Base)) + (n % Base)
<1>1. Base \in Nat \ {0, 1} /\ n # 0
    BY ArchiveAssumption
<1>2. /\ n \div Base \in Nat /\ n % Base \in 0..(Base - 1)
      /\ n = (Base * (n \div Base)) + (n % Base)
    BY <1>1, Division
<1>3. n \div Base < n
    BY <1>1, Division
<1>4. n \div Base # 0
    BY <1>1, Division
<1>5. n % Base \in Nat
    BY <1>1, <1>2
<1> QED
    BY <1>2, <1>3, <1>4, <1>5, Zenon

\* The digits of n, when those of the smaller numbers are in g.
DigitsFrom(g, n) == IF n < Base THEN <<n>> ELSE Append(g[n \div Base], n % Base)

DigitsTo(g, m) == \A n \in 0..m : g[n] = DigitsFrom(g, n)

\* Two tables of digits agree where both reach.
LEMMA DigitsAgree ==
    ASSUME NEW m \in Nat, NEW k \in Nat, NEW g, NEW h, DigitsTo(g, m), DigitsTo(h, k)
    PROVE  \A n \in 0..m : n <= k => g[n] = h[n]
<1> DEFINE Bad == {n \in Nat : n <= m /\ n <= k /\ g[n] # h[n]}
<1> SUFFICES ASSUME Bad # {} PROVE FALSE
    OBVIOUS
<1>1. PICK n \in Bad : \A j \in Bad : n <= j
    <2>1. Bad \in SUBSET Nat
        OBVIOUS
    <2> HIDE DEF Bad
    <2> QED
        BY <2>1, LeastNumber
<1>2. n \in Nat /\ n <= m /\ n <= k /\ g[n] # h[n]
    BY <1>1
<1>3. g[n] = DigitsFrom(g, n) /\ h[n] = DigitsFrom(h, n)
    BY <1>2 DEF DigitsTo
<1>4. n >= Base /\ g[n \div Base] # h[n \div Base]
    BY <1>2, <1>3, ArchiveAssumption DEF DigitsFrom
<1>5. n \div Base \in Nat /\ n \div Base < n
    <2>1. n \in Nat /\ n # 0 /\ Base \in Nat \ {0, 1}
        BY <1>2, <1>4, ArchiveAssumption
    <2> QED
        BY <2>1, Division
<1>6. n \div Base \in Bad
    BY <1>2, <1>4, <1>5
<1> HIDE DEF Bad
<1>7. n <= n \div Base
    BY <1>1, <1>6
<1> QED
    BY <1>2, <1>5, <1>7

LEMMA DigitsExist ==
    ASSUME NEW m \in Nat
    PROVE  \E g : DigitsTo(g, m)
<1> DEFINE Bad == {n \in Nat : ~\E g : DigitsTo(g, n)}
<1> SUFFICES ASSUME Bad # {} PROVE FALSE
    OBVIOUS
<1>1. PICK n \in Bad : \A j \in Bad : n <= j
    <2>1. Bad \in SUBSET Nat
        OBVIOUS
    <2> HIDE DEF Bad
    <2> QED
        BY <2>1, LeastNumber
<1>2. n \in Nat /\ ~\E g : DigitsTo(g, n)
    BY <1>1
<1>3. \E g : \A k \in 0..(n - 1) : g[k] = DigitsFrom(g, k)
    <2>1. CASE n = 0
        BY <2>1
    <2>2. CASE n # 0
        <3>1. n - 1 \in Nat /\ ~(n <= n - 1)
            BY <1>2, <2>2
        <3>2. n - 1 \notin Bad
            <4> HIDE DEF Bad
            <4> QED
                BY <1>1, <3>1
        <3> QED
            BY <3>1, <3>2 DEF DigitsTo
    <2> QED
        BY <2>1, <2>2
<1>4. PICK g : \A k \in 0..(n - 1) : g[k] = DigitsFrom(g, k)
    BY <1>3
<1> DEFINE h == [k \in 0..n |-> DigitsFrom(g, k)]
<1>5. \A k \in 0..n : h[k] = DigitsFrom(g, k)
    OBVIOUS
<1> HIDE DEF h
<1>6. ASSUME NEW k \in 0..n
      PROVE  h[k] = DigitsFrom(h, k)
    <2>1. h[k] = DigitsFrom(g, k)
        BY <1>5
    <2>2. CASE k < Base
        BY <2>1, <2>2 DEF DigitsFrom
    <2>3. CASE ~(k < Base)
        <3>1. k \in Nat /\ k >= Base /\ k # 0
            BY <1>2, <2>3, ArchiveAssumption
        <3>2. k \div Base \in Nat /\ k \div Base < k
            BY <3>1, ArchiveAssumption, Division
        <3>3. k \div Base \in 0..(n - 1) /\ k \div Base \in 0..n
            BY <1>2, <3>1, <3>2
        <3>4. h[k \div Base] = g[k \div Base]
            BY <1>4, <1>5, <3>3
        <3> QED
            BY <2>1, <2>3, <3>4 DEF DigitsFrom
    <2> QED
        BY <2>2, <2>3
<1> QED
    BY <1>2, <1>6 DEF DigitsTo

LEMMA DigitsDefined == \A n \in Nat : Digits[n] = DigitsFrom(Digits, n)
<1> DEFINE table == [m \in Nat |-> CHOOSE g : DigitsTo(g, m)]
<1> DEFINE d == [m \in Nat |-> table[m][m]]
<1>1. \A m \in Nat : DigitsTo(table[m], m)
    BY DigitsExist
<1>2. \A m \in Nat : d[m] = table[m][m]
    OBVIOUS
<1>3. d = [m \in Nat |-> d[m]]
    OBVIOUS
<1> HIDE DEF table, d
<1>4. ASSUME NEW n \in Nat
      PROVE  d[n] = DigitsFrom(d, n)
    <2>1. d[n] = DigitsFrom(table[n], n)
        BY <1>1, <1>2 DEF DigitsTo
    <2>2. CASE n < Base
        BY <2>1, <2>2 DEF DigitsFrom
    <2>3. CASE ~(n < Base)
        <3>1. n >= Base /\ n # 0
            BY <2>3, ArchiveAssumption
        <3>2. n \div Base \in Nat /\ n \div Base < n
            BY <3>1, ArchiveAssumption, Division
        <3> DEFINE q == n \div Base
        <3>3. table[n][q] = table[q][q]
            <4> HIDE DEF q
            <4>1. q \in 0..n /\ q <= q
                BY <3>2 DEF q
            <4> QED
                BY <1>1, <3>2, <4>1, DigitsAgree DEF q
        <3> QED
            BY <1>2, <2>1, <2>3, <3>2, <3>3 DEF DigitsFrom
    <2> QED
        BY <2>2, <2>3
<1>5. d = [n \in Nat |-> DigitsFrom(d, n)]
    BY <1>3, <1>4
<1>6. d = [n \in Nat |-> IF n < Base THEN <<n>> ELSE Append(d[n \div Base], n % Base)]
    BY <1>5 DEF DigitsFrom
<1>7. Digits = [n \in Nat |-> IF n < Base THEN <<n>> ELSE Append(Digits[n \div Base], n % Base)]
    BY <1>6 DEF Digits
<1> QED
    BY <1>7 DEF DigitsFrom

\* A number is written with at least one digit, the first not zero.
LEMMA FirstDigit ==
    ASSUME NEW n \in Nat \ {0}
    PROVE  Digits[n] \in Seq(Nat) /\ Len(Digits[n]) >= 1 /\ Digits[n][1] # 0
<1> DEFINE Good(k) == Digits[k] \in Seq(Nat) /\ Len(Digits[k]) >= 1 /\ Digits[k][1] # 0
<1> DEFINE Bad == {k \in Nat : k # 0 /\ ~Good(k)}
<1> SUFFICES ASSUME Bad # {} PROVE FALSE
    OBVIOUS
<1>1. PICK k \in Bad : \A j \in Bad : k <= j
    <2>1. Bad \in SUBSET Nat
        OBVIOUS
    <2> HIDE DEF Bad
    <2> QED
        BY <2>1, LeastNumber
<1>2. k \in Nat /\ k # 0 /\ ~Good(k) /\ \A j \in Nat : j # 0 /\ j < k => Good(j)
    <2>1. k \in Nat /\ k # 0 /\ ~Good(k)
        BY <1>1
    <2>2. ASSUME NEW j \in Nat, j # 0, j < k, ~Good(j) PROVE FALSE
        <3>1. j \in Bad
            BY <2>2
        <3> HIDE DEF Bad
        <3> QED
            BY <1>1, <2>1, <2>2, <3>1
    <2> QED
        BY <2>1, <2>2
<1>3. Digits[k] = DigitsFrom(Digits, k) /\ Base \in Nat \ {0, 1}
    BY <1>2, DigitsDefined, ArchiveAssumption
<1>4. CASE k < Base
    <2>1. Digits[k] = <<k>>
        BY <1>3, <1>4 DEF DigitsFrom
    <2> QED
        BY <1>2, <2>1
<1>5. CASE ~(k < Base)
    <2> DEFINE q == k \div Base
    <2> DEFINE r == k % Base
    <2>1. k >= Base
        BY <1>2, <1>3, <1>5
    <2>2. q \in Nat /\ q # 0 /\ q < k /\ r \in Nat
        BY <1>2, <2>1, LongNumber
    <2>3. Digits[k] = Append(Digits[q], r)
        BY <1>3, <1>5 DEF DigitsFrom
    <2> HIDE DEF q, r
    <2>4. Good(q)
        BY <1>2, <2>2
    <2>5. /\ Append(Digits[q], r) \in Seq(Nat) /\ Len(Append(Digits[q], r)) = Len(Digits[q]) + 1
          /\ Append(Digits[q], r)[1] = Digits[q][1]
        <3>1. Digits[q] \in Seq(Nat) /\ r \in Nat /\ Len(Digits[q]) >= 1
            BY <2>2, <2>4
        <3>2. Len(Digits[q]) \in Nat /\ 1 \in 1..Len(Digits[q])
            BY <3>1, LenProperties
        <3> QED
            BY <3>1, <3>2, AppendProperties
    <2>6. Len(Digits[q]) \in Nat
        BY <2>4, LenProperties
    <2>7. Good(k)
        BY <2>3, <2>4, <2>5, <2>6
    <2> QED
        BY <1>2, <2>7
<1> QED
    BY <1>4, <1>5

\* Two numbers are not written alike.
LEMMA DigitsOneToOne ==
    \A a, b \in Nat \ {0} : Digits[a] = Digits[b] => a = b
<1> DEFINE Bad == {a \in Nat : a # 0 /\ \E b \in Nat \ {0} : Digits[a] = Digits[b] /\ a # b}
<1> SUFFICES ASSUME Bad # {} PROVE FALSE
    OBVIOUS
<1>1. PICK a \in Bad : \A j \in Bad : a <= j
    <2>1. Bad \in SUBSET Nat
        OBVIOUS
    <2> HIDE DEF Bad
    <2> QED
        BY <2>1, LeastNumber
<1>2. a \in Nat \ {0}
    BY <1>1
<1>3. PICK b \in Nat \ {0} : Digits[a] = Digits[b] /\ a # b
    BY <1>1
<1>4. Base \in Nat \ {0, 1}
    BY ArchiveAssumption
<1> DEFINE q(n) == n \div Base
<1> DEFINE r(n) == n % Base
<1>5. ASSUME NEW n \in Nat \ {0}
      PROVE  /\ n < Base => Digits[n] = <<n>>
             /\ n >= Base => /\ Digits[n] = Append(Digits[q(n)], r(n))
                             /\ q(n) \in Nat \ {0} /\ q(n) < n /\ r(n) \in Nat
                             /\ n = (Base * q(n)) + r(n)
    <2>1. Digits[n] = DigitsFrom(Digits, n)
        BY DigitsDefined
    <2>2. n < Base => Digits[n] = <<n>>
        BY <2>1 DEF DigitsFrom
    <2>3. n >= Base => ~(n < Base)
        BY <1>4
    <2>4. n >= Base => Digits[n] = Append(Digits[q(n)], r(n))
        BY <2>1, <2>3 DEF DigitsFrom
    <2>5. n >= Base => q(n) \in Nat \ {0} /\ q(n) < n /\ r(n) \in Nat /\ n = (Base * q(n)) + r(n)
        BY LongNumber
    <2> QED
        BY <2>2, <2>4, <2>5
<1> HIDE DEF q, r
<1>6. ASSUME NEW n \in Nat \ {0}, n >= Base PROVE Len(Digits[n]) >= 2
    <2>1. Digits[n] = Append(Digits[q(n)], r(n)) /\ q(n) \in Nat \ {0} /\ r(n) \in Nat
        BY <1>5, <1>6
    <2>2. Digits[q(n)] \in Seq(Nat) /\ Len(Digits[q(n)]) >= 1
        BY <2>1, FirstDigit
    <2>3. Len(Append(Digits[q(n)], r(n))) = Len(Digits[q(n)]) + 1 /\ Len(Digits[q(n)]) \in Nat
        BY <2>1, <2>2, AppendProperties, LenProperties
    <2> QED
        BY <2>1, <2>2, <2>3
<1>7. ASSUME NEW n \in Nat \ {0}, n < Base PROVE Len(Digits[n]) = 1
    <2>1. Digits[n] = <<n>>
        BY <1>5, <1>7, Zenon
    <2> QED
        BY <2>1
<1>8. CASE a < Base
    <2>1. Len(Digits[b]) = 1
        BY <1>2, <1>3, <1>7, <1>8
    <2>2. b < Base
        <3>1. ~(b >= Base)
            <4> SUFFICES ASSUME b >= Base PROVE FALSE
                OBVIOUS
            <4>1. Len(Digits[b]) >= 2
                BY <1>6
            <4> QED
                BY <2>1, <4>1
        <3> QED
            BY <1>4, <3>1
    <2>3. <<a>> = <<b>>
        BY <1>2, <1>3, <1>5, <1>8, <2>2
    <2> QED
        BY <1>3, <2>3
<1>9. CASE a >= Base
    <2>1. Len(Digits[b]) >= 2
        BY <1>2, <1>3, <1>6, <1>9
    <2>2. b >= Base
        <3>1. ~(b < Base)
            <4> SUFFICES ASSUME b < Base PROVE FALSE
                OBVIOUS
            <4>1. Len(Digits[b]) = 1
                BY <1>7
            <4> QED
                BY <2>1, <4>1
        <3> QED
            BY <1>4, <3>1
    <2>3. /\ Digits[a] = Append(Digits[q(a)], r(a)) /\ q(a) \in Nat \ {0} /\ q(a) < a
          /\ r(a) \in Nat /\ a = (Base * q(a)) + r(a)
        BY <1>2, <1>5, <1>9
    <2>4. /\ Digits[b] = Append(Digits[q(b)], r(b)) /\ q(b) \in Nat \ {0}
          /\ r(b) \in Nat /\ b = (Base * q(b)) + r(b)
        BY <1>3, <1>5, <2>2
    <2>5. Digits[q(a)] \in Seq(Nat) /\ Digits[q(b)] \in Seq(Nat)
        BY <2>3, <2>4, FirstDigit
    <2>6. Digits[q(a)] = Digits[q(b)] /\ r(a) = r(b)
        <3> DEFINE s == Digits[q(a)]
        <3> DEFINE t == Digits[q(b)]
        <3>1. s \in Seq(Nat) /\ t \in Seq(Nat) /\ Append(s, r(a)) = Append(t, r(b))
            BY <1>3, <2>3, <2>4, <2>5
        <3> HIDE DEF s, t
        <3>2. r(a) \in Nat /\ r(b) \in Nat
            BY <2>3, <2>4
        <3>3. s = t /\ r(a) = r(b)
            BY <3>1, <3>2, AppendOneToOne
        <3> QED
            BY <3>3 DEF s, t
    <2>7. q(a) # q(b)
        BY <1>3, <2>3, <2>4, <2>6
    <2>8. q(a) \in Bad
        BY <2>3, <2>4, <2>6, <2>7
    <2> HIDE DEF Bad
    <2>9. a <= q(a)
        BY <1>1, <2>8
    <2> QED
        BY <1>2, <2>3, <2>9
<1> QED
    BY <1>2, <1>4, <1>8, <1>9

\* Below a hundred a name is the two digits of the number.
LEMMA TwoDigits ==
    ASSUME NEW n \in Nat, n < Base * Base
    PROVE  Stem(n) = <<n \div Base, n % Base>>
<1>1. Base \in Nat \ {0, 1}
    BY ArchiveAssumption
<1>2. CASE n < Base
    <2>1. n \div Base = 0 /\ n % Base = n
        BY <1>1, <1>2, Division
    <2> QED
        BY <1>2, <2>1 DEF Stem
<1>3. CASE ~(n < Base)
    <2> DEFINE q == n \div Base
    <2> DEFINE r == n % Base
    <2>1. n >= Base
        BY <1>1, <1>3
    <2>2. q \in Nat /\ q < Base /\ r \in Nat
        <3>1. q \in Nat /\ r \in Nat
            BY <2>1, LongNumber
        <3>2. q < Base
            BY <1>1, Division
        <3> QED
            BY <3>1, <3>2
    <2>3. Digits[n] = Append(Digits[q], r)
        BY <1>3, DigitsDefined DEF DigitsFrom
    <2>4. Stem(n) = Append(Digits[q], r)
        BY <1>3, <2>3 DEF Stem
    <2> HIDE DEF q, r
    <2>5. Digits[q] = <<q>>
        BY <2>2, DigitsDefined DEF DigitsFrom
    <2>6. Stem(n) = <<q, r>>
        BY <2>2, <2>4, <2>5, AppendToOne
    <2> QED
        BY <2>6 DEF q, r
<1> QED
    BY <1>2, <1>3

\* Names are texts, and two tests do not share one.
LEMMA StemTyped ==
    ASSUME NEW n \in Nat \ {0}
    PROVE  Stem(n) \in Seq(Nat)
    BY FirstDigit DEF Stem

LEMMA StemsApart ==
    ASSUME NEW a \in Nat \ {0}, NEW b \in Nat \ {0}, Stem(a) = Stem(b)
    PROVE  a = b
<1>1. Base \in Nat \ {0, 1}
    BY ArchiveAssumption
<1>2. CASE a < Base /\ b < Base
    BY <1>2 DEF Stem
<1>3. CASE a < Base /\ ~(b < Base)
    <2>1. Digits[b][1] = 0
        BY <1>3 DEF Stem
    <2> QED
        BY <2>1, FirstDigit
<1>4. CASE ~(a < Base) /\ b < Base
    <2>1. Digits[a][1] = 0
        BY <1>4 DEF Stem
    <2> QED
        BY <2>1, FirstDigit
<1>5. CASE ~(a < Base) /\ ~(b < Base)
    BY <1>5, DigitsOneToOne DEF Stem
<1> QED
    BY <1>2, <1>3, <1>4, <1>5

-----------------------------------------------------------------------------
(* Archive: the order of the files' names.                                  *)

Texts == Seq(Nat)

\* s and t are alike in their first n characters, and no longer.
Parting(s, t, n) ==
    /\ n \in Nat /\ n <= Len(s) /\ n <= Len(t)
    /\ \A i \in 1..n : s[i] = t[i]
    /\ n < Len(s) /\ n < Len(t) => s[n + 1] # t[n + 1]

LEMMA TextsPart ==
    ASSUME NEW s \in Texts, NEW t \in Texts
    PROVE  \E n : Parting(s, t, n)
<1>1. /\ Len(s) \in Nat /\ Len(t) \in Nat
      /\ \A i \in 1..Len(s) : s[i] \in Nat
      /\ \A i \in 1..Len(t) : t[i] \in Nat
    BY LenProperties, ElementOfSeq DEF Texts
<1> DEFINE Ends == {n \in Nat : n >= Len(s) \/ n >= Len(t) \/ s[n + 1] # t[n + 1]}
<1>2. PICK n \in Ends : \A k \in Ends : n <= k
    <2>1. Len(s) \in Ends /\ Ends \in SUBSET Nat
        BY <1>1
    <2> HIDE DEF Ends
    <2> QED
        BY <2>1, LeastNumber
<1>3. n \in Nat /\ (n >= Len(s) \/ n >= Len(t) \/ s[n + 1] # t[n + 1])
    BY <1>2
<1>4. ASSUME NEW k \in Nat, k < n
      PROVE  k < Len(s) /\ k < Len(t) /\ s[k + 1] = t[k + 1]
    <2>1. k \notin Ends
        <3> HIDE DEF Ends
        <3> QED
            BY <1>2, <1>3, <1>4
    <2> QED
        BY <1>1, <2>1
<1>5. n <= Len(s) /\ n <= Len(t)
    <2>1. CASE n = 0
        BY <1>1, <2>1
    <2>2. CASE n # 0
        <3>1. n - 1 \in Nat /\ n - 1 < n
            BY <1>3, <2>2
        <3> QED
            BY <1>1, <1>3, <1>4, <3>1
    <2> QED
        BY <2>1, <2>2
<1>6. ASSUME NEW i \in 1..n PROVE s[i] = t[i]
    <2>1. i - 1 \in Nat /\ i - 1 < n /\ (i - 1) + 1 = i
        BY <1>3
    <2> QED
        BY <1>4, <2>1
<1>7. n < Len(s) /\ n < Len(t) => s[n + 1] # t[n + 1]
    BY <1>1, <1>3
<1> QED
    BY <1>3, <1>5, <1>6, <1>7 DEF Parting

\* Where two texts part decides which comes first.
LEMMA PartingDecides ==
    ASSUME NEW s \in Texts, NEW t \in Texts, NEW n, Parting(s, t, n)
    PROVE  TextBefore(s, t) <=> n < Len(t) /\ (n < Len(s) => s[n + 1] < t[n + 1])
<1>1. /\ Len(s) \in Nat /\ Len(t) \in Nat /\ n \in Nat
      /\ \A i \in 1..Len(s) : s[i] \in Nat
      /\ \A i \in 1..Len(t) : t[i] \in Nat
    BY LenProperties, ElementOfSeq DEF Texts, Parting
<1>2. ASSUME n < Len(t), n < Len(s) => s[n + 1] < t[n + 1]
      PROVE  TextBefore(s, t)
    BY <1>1, <1>2 DEF Parting, TextBefore
<1>3. ASSUME TextBefore(s, t)
      PROVE  n < Len(t) /\ (n < Len(s) => s[n + 1] < t[n + 1])
    <2>1. PICK m \in 0..Len(s) : /\ m < Len(t) /\ \A i \in 1..m : s[i] = t[i]
                                 /\ m < Len(s) => s[m + 1] < t[m + 1]
        BY <1>3 DEF TextBefore
    <2>2. CASE m < n
        <3>1. m + 1 \in 1..n /\ m + 1 \in 1..Len(s) /\ m + 1 \in 1..Len(t) /\ m < Len(s)
            BY <1>1, <2>1, <2>2 DEF Parting
        <3>2. s[m + 1] = t[m + 1] /\ s[m + 1] < t[m + 1] /\ s[m + 1] \in Nat
            BY <1>1, <2>1, <3>1 DEF Parting
        <3> QED
            BY <3>2
    <2>3. CASE n < m
        <3>1. n + 1 \in 1..m /\ n < Len(s) /\ n < Len(t)
            BY <1>1, <2>1, <2>3
        <3> QED
            BY <2>1, <3>1 DEF Parting
    <2>4. CASE n = m
        BY <2>1, <2>4
    <2> QED
        BY <1>1, <2>1, <2>2, <2>3, <2>4
<1> QED
    BY <1>2, <1>3

\* Of two texts exactly one comes first.
LEMMA TextsOrdered ==
    ASSUME NEW s \in Texts, NEW t \in Texts
    PROVE  /\ ~TextBefore(s, s)
           /\ s # t => TextBefore(s, t) \/ TextBefore(t, s)
           /\ ~(TextBefore(s, t) /\ TextBefore(t, s))
<1>1. /\ Len(s) \in Nat /\ Len(t) \in Nat
      /\ \A i \in 1..Len(s) : s[i] \in Nat
      /\ \A i \in 1..Len(t) : t[i] \in Nat
    BY LenProperties, ElementOfSeq DEF Texts
<1>2. PICK n : Parting(s, t, n)
    BY TextsPart
<1>3. Parting(t, s, n) /\ n \in Nat
    BY <1>2 DEF Parting
<1>4. /\ TextBefore(s, t) <=> n < Len(t) /\ (n < Len(s) => s[n + 1] < t[n + 1])
      /\ TextBefore(t, s) <=> n < Len(s) /\ (n < Len(t) => t[n + 1] < s[n + 1])
    BY <1>2, <1>3, PartingDecides
<1>5. ~TextBefore(s, s)
    <2>1. Parting(s, s, Len(s))
        BY <1>1 DEF Parting
    <2> QED
        BY <1>1, <2>1, PartingDecides
<1>6. n < Len(s) /\ n < Len(t) =>
          s[n + 1] \in Nat /\ t[n + 1] \in Nat /\ s[n + 1] # t[n + 1]
    <2>1. n < Len(s) /\ n < Len(t) => n + 1 \in 1..Len(s) /\ n + 1 \in 1..Len(t)
        BY <1>1, <1>3
    <2> QED
        BY <1>1, <1>2, <2>1 DEF Parting
<1>7. n <= Len(s) /\ n <= Len(t) /\ \A i \in 1..n : s[i] = t[i]
    BY <1>2 DEF Parting
<1>8. s # t => n < Len(s) \/ n < Len(t)
    <2> SUFFICES ASSUME ~(n < Len(s)), ~(n < Len(t)) PROVE s = t
        OBVIOUS
    <2>1. Len(s) = n /\ Len(t) = n
        BY <1>1, <1>3, <1>7
    <2> QED
        BY <1>7, <2>1, SeqEqual DEF Texts
<1>9. s # t => TextBefore(s, t) \/ TextBefore(t, s)
    BY <1>1, <1>3, <1>4, <1>6, <1>8
<1>10. ~(TextBefore(s, t) /\ TextBefore(t, s))
    BY <1>1, <1>3, <1>4, <1>6
<1> QED
    BY <1>5, <1>9, <1>10

LEMMA TextsFollow ==
    ASSUME NEW s \in Texts, NEW t \in Texts, NEW u \in Texts,
           TextBefore(s, t), TextBefore(t, u)
    PROVE  TextBefore(s, u)
<1>1. /\ Len(s) \in Nat /\ Len(t) \in Nat /\ Len(u) \in Nat
      /\ \A i \in 1..Len(s) : s[i] \in Nat
      /\ \A i \in 1..Len(t) : t[i] \in Nat
      /\ \A i \in 1..Len(u) : u[i] \in Nat
    BY LenProperties, ElementOfSeq DEF Texts
<1>2. PICK m \in 0..Len(s) : /\ m < Len(t) /\ \A i \in 1..m : s[i] = t[i]
                             /\ m < Len(s) => s[m + 1] < t[m + 1]
    BY DEF TextBefore
<1>3. PICK n \in 0..Len(t) : /\ n < Len(u) /\ \A i \in 1..n : t[i] = u[i]
                             /\ n < Len(t) => t[n + 1] < u[n + 1]
    BY DEF TextBefore
<1>4. CASE m < n
    <2>1. m < Len(u) /\ \A i \in 1..m : s[i] = u[i]
        BY <1>1, <1>2, <1>3, <1>4
    <2>2. t[m + 1] = u[m + 1]
        BY <1>2, <1>3, <1>4
    <2> QED
        BY <1>1, <1>2, <2>1, <2>2 DEF TextBefore
<1>5. CASE n < m
    <2>1. n < Len(s) /\ n < Len(t) /\ n \in 0..Len(s)
        BY <1>1, <1>2, <1>3, <1>5
    <2>2. s[n + 1] = t[n + 1]
        BY <1>2, <1>3, <1>5
    <2>3. \A i \in 1..n : s[i] = u[i]
        BY <1>1, <1>2, <1>3, <1>5
    <2> QED
        BY <1>3, <2>1, <2>2, <2>3 DEF TextBefore
<1>6. CASE n = m
    <2>1. m < Len(u) /\ \A i \in 1..m : s[i] = u[i]
        BY <1>1, <1>2, <1>3, <1>6
    <2>2. t[m + 1] < u[m + 1] /\ t[m + 1] \in Nat /\ u[m + 1] \in Nat
        <3>1. m + 1 \in 1..Len(t) /\ m + 1 \in 1..Len(u)
            BY <1>1, <1>2, <1>3, <1>6
        <3> QED
            BY <1>1, <1>2, <1>3, <1>6, <3>1
    <2>3. m < Len(s) => s[m + 1] < u[m + 1]
        <3>1. m < Len(s) => m + 1 \in 1..Len(s)
            BY <1>1, <1>2
        <3> QED
            BY <1>1, <1>2, <2>2, <3>1
    <2> QED
        BY <1>2, <2>1, <2>3 DEF TextBefore
<1> QED
    BY <1>2, <1>3, <1>4, <1>5, <1>6

\* The files of a directory in the order of their names.
TextRank(S, s) == Cardinality({t \in S : TextBefore(t, s)})

LEMMA TextRankBelowSize ==
    ASSUME NEW S \in SUBSET Texts, IsFiniteSet(S), NEW s \in S
    PROVE  TextRank(S, s) \in 0..(Cardinality(S) - 1)
<1> DEFINE Earlier == {t \in S : TextBefore(t, s)}
<1>1. Earlier \in SUBSET (S \ {s})
    BY TextsOrdered
<1>2. IsFiniteSet(S \ {s}) /\ Cardinality(S \ {s}) = Cardinality(S) - 1
    BY FS_RemoveElement
<1>3. IsFiniteSet(Earlier) /\ Cardinality(Earlier) <= Cardinality(S \ {s})
    BY <1>1, <1>2, FS_Subset
<1>4. Cardinality(Earlier) \in Nat /\ Cardinality(S) \in Nat
    BY <1>3, FS_CardinalityType
<1> QED
    BY <1>2, <1>3, <1>4 DEF TextRank

LEMMA TextRankMonotone ==
    ASSUME NEW S \in SUBSET Texts, IsFiniteSet(S), NEW a \in S, NEW b \in S, TextBefore(a, b)
    PROVE  TextRank(S, a) < TextRank(S, b)
<1> DEFINE Earlier(s) == {t \in S : TextBefore(t, s)}
<1>1. IsFiniteSet(Earlier(a)) /\ IsFiniteSet(Earlier(b))
    BY FS_Subset
<1>2. a \notin Earlier(a) /\ Earlier(a) \cup {a} \in SUBSET Earlier(b)
    BY TextsOrdered, TextsFollow
<1>3. Cardinality(Earlier(a) \cup {a}) = Cardinality(Earlier(a)) + 1
    BY <1>1, <1>2, FS_AddElement
<1>4. Cardinality(Earlier(a) \cup {a}) <= Cardinality(Earlier(b))
    BY <1>1, <1>2, FS_Subset
<1>5. Cardinality(Earlier(a)) \in Nat /\ Cardinality(Earlier(b)) \in Nat
    BY <1>1, FS_CardinalityType
<1> QED
    BY <1>3, <1>4, <1>5 DEF TextRank

LEMMA TextRankOneToOne ==
    ASSUME NEW S \in SUBSET Texts, IsFiniteSet(S), NEW a \in S, NEW b \in S,
           TextRank(S, a) = TextRank(S, b)
    PROVE  a = b
<1>1. TextRank(S, a) \in Int /\ TextRank(S, b) \in Int
    BY TextRankBelowSize
<1>2. ~TextBefore(a, b) /\ ~TextBefore(b, a)
    BY <1>1, TextRankMonotone
<1> QED
    BY <1>2, TextsOrdered

LEMMA TextRankOnto ==
    ASSUME NEW S \in SUBSET Texts, IsFiniteSet(S), NEW r \in 0..(Cardinality(S) - 1)
    PROVE  \E s \in S : TextRank(S, s) = r
<1> DEFINE n == Cardinality(S)
<1> DEFINE T == 0..(n - 1)
<1> DEFINE f == [s \in S |-> TextRank(S, s)]
<1>1. n \in Nat
    BY FS_CardinalityType
<1>2. f \in [S -> T]
    BY TextRankBelowSize
<1>3. IsFiniteSet(T) /\ Cardinality(T) = n
    BY <1>1, FS_Interval
<1>4. ASSUME NEW a \in S, NEW b \in S, f[a] = f[b]
      PROVE  a = b
    BY <1>4, TextRankOneToOne
<1>5. f \in Injection(S, T)
    BY <1>2, <1>4 DEF Injection, IsInjective
<1>6. f \in Surjection(S, T)
    BY <1>3, <1>5, FS_Injection
<1>7. PICK s \in S : f[s] = r
    BY <1>6 DEF Surjection
<1> QED
    BY <1>7

\* The sorted names are the names.
LEMMA SortedLists ==
    ASSUME NEW S \in SUBSET Texts, IsFiniteSet(S)
    PROVE  /\ Cardinality(S) \in Nat
           /\ Sorted(S) = [i \in 1..Cardinality(S) |-> Sorted(S)[i]]
           /\ \A i \in 1..Cardinality(S) : Sorted(S)[i] \in S /\ TextRank(S, Sorted(S)[i]) = i - 1
           /\ \A s \in S : TextRank(S, s) + 1 \in 1..Cardinality(S)
                           /\ Sorted(S)[TextRank(S, s) + 1] = s
<1> DEFINE n == Cardinality(S)
<1> DEFINE f == Sorted(S)
<1>1. n \in Nat
    BY FS_CardinalityType
<1>2. f = [i \in 1..n |-> CHOOSE s \in S : TextRank(S, s) = i - 1]
    BY DEF Sorted, TextRank
<1>3. f = [i \in 1..n |-> f[i]]
    BY <1>2
<1>4. ASSUME NEW i \in 1..n
      PROVE  f[i] \in S /\ TextRank(S, f[i]) = i - 1
    <2>1. i - 1 \in 0..(n - 1)
        BY <1>1
    <2>2. \E s \in S : TextRank(S, s) = i - 1
        BY <2>1, TextRankOnto
    <2> QED
        BY <1>2, <2>2
<1>5. ASSUME NEW s \in S
      PROVE  TextRank(S, s) + 1 \in 1..n /\ f[TextRank(S, s) + 1] = s
    <2>1. TextRank(S, s) \in 0..(n - 1)
        BY TextRankBelowSize
    <2> DEFINE i == TextRank(S, s) + 1
    <2>2. i \in 1..n /\ i - 1 = TextRank(S, s)
        BY <1>1, <2>1
    <2>3. f[i] \in S /\ TextRank(S, f[i]) = TextRank(S, s)
        BY <1>4, <2>2
    <2>4. \A m \in S : TextRank(S, m) = TextRank(S, s) => m = s
        BY TextRankOneToOne
    <2> QED
        BY <2>2, <2>3, <2>4
<1> QED
    BY <1>1, <1>3, <1>4, <1>5

\* The names of the tests 1 to n.
Stems(n) == {Stem(i) : i \in 1..n}

LEMMA StemsCounted ==
    ASSUME NEW n \in Nat
    PROVE  Stems(n) \in SUBSET Texts /\ IsFiniteSet(Stems(n)) /\ Cardinality(Stems(n)) = n
<1> DEFINE f == [i \in 1..n |-> Stem(i)]
<1>1. f \in Surjection(1..n, Stems(n))
    BY DEF Surjection, Stems
<1>2. \A a, b \in 1..n : f[a] = f[b] => a = b
    BY StemsApart
<1>3. f \in Bijection(1..n, Stems(n))
    BY <1>1, <1>2 DEF Bijection, Injection, IsInjective, Surjection
<1>4. IsFiniteSet(1..n) /\ Cardinality(1..n) = n
    BY FS_Interval
<1>5. IsFiniteSet(Stems(n)) /\ Cardinality(Stems(n)) = n
    <2>1. ExistsBijection(1..n, Stems(n))
        BY <1>3 DEF ExistsBijection
    <2> QED
        BY <1>4, <2>1, FS_Bijection
<1> QED
    BY <1>5, StemTyped DEF Stems, Texts

\* With two digits the order of the texts is that of the numbers.
LEMMA StemsInOrder ==
    ASSUME NEW a \in Nat, NEW b \in Nat, a < b, b < Base * Base
    PROVE  TextBefore(Stem(a), Stem(b))
<1>1. Base \in Nat \ {0, 1}
    BY ArchiveAssumption
<1>2. a < Base * Base
    BY <1>1
<1> DEFINE p == a \div Base
<1> DEFINE q == b \div Base
<1> DEFINE x == a % Base
<1> DEFINE y == b % Base
<1>3. Stem(a) = <<p, x>> /\ Stem(b) = <<q, y>>
    BY <1>2, TwoDigits
<1>4. p \in Nat /\ x \in 0..(Base - 1) /\ a = (Base * p) + x
    BY <1>1, Division
<1>5. q \in Nat /\ y \in 0..(Base - 1) /\ b = (Base * q) + y
    BY <1>1, Division
<1> HIDE DEF p, q, x, y
<1>6. p < q \/ (p = q /\ x < y)
    <2>1. CASE p > q
        <3>1. p >= q + 1
            BY <1>4, <1>5, <2>1
        <3>2. Base * p >= Base * (q + 1)
            BY <1>1, <1>4, <1>5, <3>1
        <3>3. Base * p >= (Base * q) + Base
            BY <1>1, <1>4, <1>5, <3>2
        <3> DEFINE bp == Base * p
        <3> DEFINE bq == Base * q
        <3>4. bp \in Int /\ bq \in Int
            BY <1>1, <1>4, <1>5
        <3> HIDE DEF bp, bq
        <3>5. bp >= bq + Base /\ a = bp + x /\ b = bq + y
            BY <1>4, <1>5, <3>3 DEF bp, bq
        <3> QED
            BY <1>1, <1>4, <1>5, <3>4, <3>5
    <2>2. CASE p = q
        <3> DEFINE bp == Base * p
        <3>1. bp \in Int
            BY <1>1, <1>4
        <3>2. a = bp + x /\ b = bp + y
            BY <1>4, <1>5, <2>2
        <3> HIDE DEF bp
        <3> QED
            BY <1>1, <1>4, <1>5, <2>2, <3>1, <3>2
    <2> QED
        BY <1>4, <1>5, <2>1, <2>2
<1>7. /\ Len(<<p, x>>) = 2 /\ Len(<<q, y>>) = 2
      /\ <<p, x>>[1] = p /\ <<p, x>>[2] = x /\ <<q, y>>[1] = q /\ <<q, y>>[2] = y
    OBVIOUS
<1>8. TextBefore(<<p, x>>, <<q, y>>)
    <2> DEFINE s == <<p, x>>
    <2> DEFINE t == <<q, y>>
    <2>1. /\ Len(s) = 2 /\ Len(t) = 2 /\ s[1] = p /\ s[2] = x /\ t[1] = q /\ t[2] = y
        BY <1>7
    <2> HIDE DEF s, t
    <2>2. CASE p < q
        <3>1. 0 \in 0..Len(s) /\ 0 < Len(t) /\ s[0 + 1] < t[0 + 1] /\ \A i \in 1..0 : s[i] = t[i]
            BY <2>1, <2>2
        <3>2. TextBefore(s, t)
            BY <3>1 DEF TextBefore
        <3> QED
            BY <3>2 DEF s, t
    <2>3. CASE p = q /\ x < y
        <3>1. 1 \in 0..Len(s) /\ 1 < Len(t) /\ s[1 + 1] < t[1 + 1] /\ \A i \in 1..1 : s[i] = t[i]
            BY <2>1, <2>3
        <3>2. TextBefore(s, t)
            BY <3>1 DEF TextBefore
        <3> QED
            BY <3>2 DEF s, t
    <2> QED
        BY <1>6, <2>2, <2>3
<1> QED
    BY <1>3, <1>8

LEMMA StemsSorted ==
    ASSUME NEW n \in Nat, n < Base * Base
    PROVE  \A i \in 1..n : Sorted(Stems(n))[i] = Stem(i)
<1> SUFFICES ASSUME NEW i \in 1..n PROVE Sorted(Stems(n))[i] = Stem(i)
    OBVIOUS
<1> DEFINE S == Stems(n)
<1>1. Base * Base \in Nat
    BY ArchiveAssumption
<1>2. ASSUME NEW j \in 1..n
      PROVE  TextBefore(Stem(j), Stem(i)) <=> j < i
    <2>1. i \in Nat /\ j \in Nat /\ i < Base * Base /\ j < Base * Base
        BY <1>1
    <2>2. Stem(i) \in Texts /\ Stem(j) \in Texts
        BY StemTyped DEF Texts
    <2>3. CASE j < i
        BY <2>1, <2>3, StemsInOrder
    <2>4. CASE i < j
        BY <2>1, <2>2, <2>4, StemsInOrder, TextsOrdered
    <2>5. CASE i = j
        BY <2>1, <2>2, <2>5, TextsOrdered
    <2> QED
        BY <2>1, <2>3, <2>4, <2>5
<1>3. {t \in S : TextBefore(t, Stem(i))} = Stems(i - 1)
    BY <1>2 DEF Stems
<1>4. TextRank(S, Stem(i)) = i - 1
    <2>1. i - 1 \in Nat
        OBVIOUS
    <2> QED
        BY <1>3, <2>1, StemsCounted DEF TextRank
<1>5. Stem(i) \in S
    BY DEF Stems
<1>6. Sorted(S)[(i - 1) + 1] = Stem(i)
    BY <1>4, <1>5, StemsCounted, SortedLists
<1> QED
    BY <1>6

-----------------------------------------------------------------------------
(* Archive: a directory for each problem.                                   *)

LEMMA Appended ==
    ASSUME NEW s, IsSequence(s), NEW x
    PROVE  /\ IsSequence(Append(s, x)) /\ Len(Append(s, x)) = Len(s) + 1
           /\ \A i \in 1..Len(s) : Append(s, x)[i] = s[i]
           /\ Append(s, x)[Len(s) + 1] = x
<1> DEFINE S == {s[i] : i \in 1..Len(s)} \cup {x}
<1>1. Len(s) \in Nat /\ s = [i \in 1..Len(s) |-> s[i]]
    BY DEF IsSequence
<1>2. \E n \in Nat : s \in [1..n -> S]
    BY <1>1
<1>3. s \in Seq(S) /\ x \in S
    BY <1>2, IsASeq
<1> HIDE DEF S
<1> DEFINE t == Append(s, x)
<1>4. /\ t \in Seq(S) /\ Len(t) = Len(s) + 1
      /\ \A i \in 1..Len(s) : t[i] = s[i] /\ t[Len(s) + 1] = x
    BY <1>3, AppendProperties
<1>5. t[Len(s) + 1] = x
    BY <1>3, AppendProperties
<1> HIDE DEF t
<1>6. t \in [1..Len(t) -> S] /\ Len(t) \in Nat
    BY <1>4, LenProperties
<1>7. IsSequence(t)
    BY <1>6 DEF IsSequence
<1> QED
    BY <1>4, <1>5, <1>7 DEF t

\* As long as the archive is not full, some number tells a directory from those there are.
LEMMA DirectoryIsNew ==
    ASSUME NEW used, IsFiniteSet(used), Cardinality(used) <= MaxProblems,
           NEW problem \in Library, NEW index
    PROVE  DirectoryOf(used, problem, index) \notin used
<1> DEFINE first == OrElse(Slug[problem.name], <<"zadanie", index>>)
<1> DEFINE stem == OrElse(Slug[problem.name], <<"zadanie">>)
<1> DEFINE again(n) == Append(stem, n)
<1> DEFINE N == 2..(2 + MaxProblems)
<1> DEFINE free == {n \in N : again(n) \notin used}
<1>1. IsSequence(stem)
    <2>1. IsSequence(Slug[problem.name])
        BY ArchiveAssumption
    <2>2. IsSequence(<<"zadanie">>)
        BY DEF IsSequence
    <2> QED
        BY <2>1, <2>2 DEF OrElse
<1>2. MaxProblems \in Nat /\ Cardinality(used) \in Nat
    BY ArchiveAssumption, FS_CardinalityType
<1>3. DirectoryOf(used, problem, index) =
          IF first \notin used THEN first ELSE again(CHOOSE n \in free : \A m \in free : n <= m)
    BY DEF DirectoryOf
<1> HIDE DEF first, stem
<1>4. free # {}
    <2> SUFFICES ASSUME \A n \in N : again(n) \in used PROVE FALSE
        OBVIOUS
    <2> DEFINE f == [n \in N |-> again(n)]
    <2>1. f \in [N -> used]
        OBVIOUS
    <2>2. IsFiniteSet(N) /\ Cardinality(N) = MaxProblems + 1
        BY <1>2, FS_Interval
    <2>3. Cardinality(used) < Cardinality(N)
        BY <1>2, <2>2
    <2>4. PICK x, y \in N : x # y /\ f[x] = f[y]
        <3> HIDE DEF f, N
        <3> QED
            BY <2>1, <2>2, <2>3, FS_PigeonHole
    <2>5. again(x) = again(y)
        BY <2>4
    <2>6. again(x)[Len(stem) + 1] = x /\ again(y)[Len(stem) + 1] = y
        BY <1>1, Appended
    <2> HIDE DEF f
    <2> QED
        BY <2>4, <2>5, <2>6
<1>5. \E n \in free : \A m \in free : n <= m
    <2>1. free \in SUBSET Nat
        BY <1>2
    <2> HIDE DEF free
    <2> QED
        BY <1>4, <2>1, LeastNumber
<1>6. again(CHOOSE n \in free : \A m \in free : n <= m) \notin used
    BY <1>5
<1> QED
    BY <1>3, <1>6

-----------------------------------------------------------------------------
(* Archive: the files of a problem.                                         *)

\* The answers there are to a problem's tests.
Answered(tests) == {i \in DOMAIN tests : tests[i].expected \notin Blank}

SourcePath(problem, directory) == Path(directory, SourceFile(problem.language), << >>)

InputPath(directory, i) == Path(directory, "in", Stem(i))

OutputPath(directory, i) == Path(directory, "out", Stem(i))

LEMMA TestsTyped ==
    ASSUME NEW problem \in Library
    PROVE  /\ Len(TestsOf(problem)) \in Nat
           /\ TestsOf(problem) = [i \in 1..Len(TestsOf(problem)) |-> TestsOf(problem)[i]]
           /\ DOMAIN TestsOf(problem) = 1..Len(TestsOf(problem))
           /\ \A i \in DOMAIN TestsOf(problem) :
                 TestsOf(problem)[i] = [input |-> TestsOf(problem)[i].input,
                                        expected |-> TestsOf(problem)[i].expected]
<1> DEFINE tests == TestsOf(problem)
<1>1. IsSequence(tests) /\ \A i \in DOMAIN tests :
          tests[i] = [input |-> tests[i].input, expected |-> tests[i].expected]
    <2>1. CASE problem.tests # << >>
        BY <2>1, ArchiveAssumption DEF TestsOf
    <2>2. CASE problem.tests = << >> /\ problem.stdin \notin Blank
        <3>1. tests = <<[input |-> problem.stdin, expected |-> ""]>>
            BY <2>2 DEF TestsOf
        <3> QED
            <4> DEFINE test == [input |-> problem.stdin, expected |-> ""]
            <4>1. tests = <<test>>
                BY <3>1
            <4>2. test = [input |-> test.input, expected |-> test.expected]
                OBVIOUS
            <4> HIDE DEF test, tests
            <4>3. Len(tests) = 1 /\ DOMAIN tests = {1} /\ tests[1] = test /\ tests = [i \in 1..1 |-> tests[i]]
                BY <4>1
            <4> QED
                BY <4>2, <4>3 DEF IsSequence
    <2>3. CASE problem.tests = << >> /\ problem.stdin \in Blank
        <3>1. tests = << >>
            BY <2>3 DEF TestsOf
        <3> QED
            BY <3>1 DEF IsSequence
    <2> QED
        BY <2>1, <2>2, <2>3
<1> HIDE DEF tests
<1>2. Len(tests) \in Nat /\ tests = [i \in 1..Len(tests) |-> tests[i]]
    BY <1>1 DEF IsSequence
<1>3. DOMAIN tests = 1..Len(tests)
    BY <1>2
<1> QED
    BY <1>1, <1>2, <1>3 DEF tests

\* Every file of a problem by its path, and where they lie.
LEMMA FilesHold ==
    ASSUME NEW problem \in Library, NEW directory
    PROVE  /\ DOMAIN FilesOf(problem, directory) =
                  {SourcePath(problem, directory)}
                  \cup {InputPath(directory, i) : i \in DOMAIN TestsOf(problem)}
                  \cup {OutputPath(directory, i) : i \in Answered(TestsOf(problem))}
           /\ FilesOf(problem, directory)[SourcePath(problem, directory)] = problem.source
           /\ \A i \in DOMAIN TestsOf(problem) :
                 FilesOf(problem, directory)[InputPath(directory, i)] = TestsOf(problem)[i].input
           /\ \A i \in Answered(TestsOf(problem)) :
                 FilesOf(problem, directory)[OutputPath(directory, i)] = TestsOf(problem)[i].expected
<1> DEFINE tests == TestsOf(problem)
<1> DEFINE answered == Answered(tests)
<1> DEFINE source == SourcePath(problem, directory)
<1> DEFINE ins == {InputPath(directory, i) : i \in DOMAIN tests}
<1> DEFINE outs == {OutputPath(directory, i) : i \in answered}
<1> DEFINE f == [p \in {source} |-> problem.source]
<1> DEFINE g == [p \in ins |-> tests[CHOOSE i \in DOMAIN tests : Stem(i) = p.stem].input]
<1> DEFINE h == [p \in outs |-> tests[CHOOSE i \in answered : Stem(i) = p.stem].expected]
<1> DEFINE all == Overlay(f, Overlay(g, h))
<1>1. FilesOf(problem, directory) = all
    BY DEF FilesOf, SourcePath, InputPath, OutputPath, Answered
<1>2. DOMAIN f = {source} /\ DOMAIN g = ins /\ DOMAIN h = outs
    OBVIOUS
<1>3. source \notin ins /\ source \notin outs /\ ins \cap outs = {}
    <2>1. source.name \in {"main.cpp", "main.py"}
        BY DEF SourcePath, SourceFile, Path
    <2>2. \A p \in ins : p.name = "in"
        BY DEF InputPath, Path
    <2>3. \A p \in outs : p.name = "out"
        BY DEF OutputPath, Path
    <2> QED
        BY <2>1, <2>2, <2>3
<1>4. DOMAIN tests \in SUBSET (Nat \ {0}) /\ answered \in SUBSET DOMAIN tests
    BY TestsTyped DEF Answered
<1>5. ASSUME NEW i \in DOMAIN tests PROVE g[InputPath(directory, i)] = tests[i].input
    <2>1. InputPath(directory, i) \in ins /\ InputPath(directory, i).stem = Stem(i)
        BY DEF InputPath, Path
    <2>2. \A j \in DOMAIN tests : Stem(j) = Stem(i) => j = i
        BY <1>4, StemsApart
    <2>3. (CHOOSE j \in DOMAIN tests : Stem(j) = Stem(i)) = i
        BY <2>2
    <2> HIDE DEF tests, ins
    <2> QED
        BY <2>1, <2>3
<1>6. ASSUME NEW i \in answered PROVE h[OutputPath(directory, i)] = tests[i].expected
    <2>1. OutputPath(directory, i) \in outs /\ OutputPath(directory, i).stem = Stem(i)
        BY DEF OutputPath, Path
    <2>2. \A j \in answered : Stem(j) = Stem(i) => j = i
        BY <1>4, StemsApart
    <2>3. (CHOOSE j \in answered : Stem(j) = Stem(i)) = i
        BY <2>2
    <2> HIDE DEF tests, outs, answered
    <2> QED
        BY <2>1, <2>3
<1>7. f[source] = problem.source
    OBVIOUS
<1>8. \A i \in DOMAIN tests : InputPath(directory, i) \in ins
    OBVIOUS
<1>9. \A i \in answered : OutputPath(directory, i) \in outs
    OBVIOUS
<1> HIDE DEF f, g, h, source, ins, outs, all
<1>10. /\ DOMAIN all = {source} \cup ins \cup outs
       /\ all[source] = problem.source
    BY <1>2, <1>7 DEF all, Overlay
<1>11. ASSUME NEW i \in DOMAIN tests PROVE all[InputPath(directory, i)] = tests[i].input
    <2>1. InputPath(directory, i) \in ins /\ InputPath(directory, i) # source
        BY <1>3, <1>8
    <2> QED
        BY <1>2, <1>5, <2>1 DEF all, Overlay
<1>12. ASSUME NEW i \in answered PROVE all[OutputPath(directory, i)] = tests[i].expected
    <2>1. OutputPath(directory, i) \in outs /\ OutputPath(directory, i) # source /\ OutputPath(directory, i) \notin ins
        BY <1>3, <1>9
    <2> QED
        BY <1>2, <1>6, <2>1 DEF all, Overlay
<1> QED
    BY <1>1, <1>10, <1>11, <1>12 DEF source, ins, outs

LEMMA SourceHeld ==
    ASSUME NEW problem \in Library, NEW directory
    PROVE  SourcePath(problem, directory) \in DOMAIN FilesOf(problem, directory)
<1> DEFINE D == DOMAIN FilesOf(problem, directory)
<1>1. D = {SourcePath(problem, directory)}
              \cup {InputPath(directory, i) : i \in DOMAIN TestsOf(problem)}
              \cup {OutputPath(directory, i) : i \in Answered(TestsOf(problem))}
    BY FilesHold
<1> HIDE DEF D
<1>2. SourcePath(problem, directory) \in D
    BY <1>1
<1> QED
    BY <1>2 DEF D

LEMMA FilesLie ==
    ASSUME NEW problem \in Library, NEW directory, NEW p \in DOMAIN FilesOf(problem, directory)
    PROVE  p.directory = directory
<1>1. \/ p = SourcePath(problem, directory)
      \/ \E i \in DOMAIN TestsOf(problem) : p = InputPath(directory, i)
      \/ \E i \in Answered(TestsOf(problem)) : p = OutputPath(directory, i)
    <2> DEFINE D == DOMAIN FilesOf(problem, directory)
    <2>1. D = {SourcePath(problem, directory)}
              \cup {InputPath(directory, i) : i \in DOMAIN TestsOf(problem)}
              \cup {OutputPath(directory, i) : i \in Answered(TestsOf(problem))}
        BY FilesHold
    <2>2. p \in D
        OBVIOUS
    <2> HIDE DEF D
    <2> QED
        BY <2>1, <2>2
<1> QED
    BY <1>1 DEF SourcePath, InputPath, OutputPath, Path

-----------------------------------------------------------------------------
(* Archive: what the export leaves.                                         *)

\* g has what the loop has after each of the first m problems.
Loop(g, m) ==
    g = [i \in 0..m |-> IF i = 0 THEN NothingLaid ELSE LayOut(g[i - 1], problems[i], i)]

LEMMA LoopRuns ==
    ASSUME NEW m \in Nat
    PROVE  \E g : Loop(g, m)
<1> DEFINE Step(g, i) == IF i = 0 THEN NothingLaid ELSE LayOut(g[i - 1], problems[i], i)
<1> DEFINE Bad == {n \in Nat : ~\E g : Loop(g, n)}
<1>0. \A g, n : Loop(g, n) <=> g = [i \in 0..n |-> Step(g, i)]
    BY DEF Loop
<1> SUFFICES ASSUME Bad # {} PROVE FALSE
    OBVIOUS
<1>1. PICK n \in Bad : \A j \in Bad : n <= j
    <2>1. Bad \in SUBSET Nat
        OBVIOUS
    <2> HIDE DEF Bad
    <2> QED
        BY <2>1, LeastNumber
<1>2. n \in Nat /\ ~\E g : Loop(g, n)
    BY <1>1
<1>3. CASE n = 0
    <2> DEFINE g == [i \in 0..0 |-> NothingLaid]
    <2>1. g = [i \in 0..0 |-> Step(g, i)]
        <3>1. \A i \in 0..0 : Step(g, i) = NothingLaid
            OBVIOUS
        <3> HIDE DEF Step
        <3> QED
            BY <3>1
    <2>2. Loop(g, 0)
        <3> HIDE DEF g, Step
        <3> QED
            BY <1>0, <2>1
    <2> QED
        BY <1>2, <1>3, <2>2
<1>4. CASE n # 0
    <2>1. n - 1 \in Nat /\ ~(n <= n - 1)
        BY <1>2, <1>4
    <2>2. n - 1 \notin Bad
        <3> HIDE DEF Bad
        <3> QED
            BY <1>1, <2>1
    <2>3. PICK g : Loop(g, n - 1)
        BY <2>1, <2>2
    <2>4. g = [i \in 0..(n - 1) |-> Step(g, i)]
        BY <1>0, <2>3
    <2> DEFINE h == [i \in 0..n |-> Step(g, i)]
    <2>5. \A i \in 0..n : h[i] = Step(g, i)
        OBVIOUS
    <2>6. \A i \in 0..(n - 1) : g[i] = Step(g, i)
        <3> HIDE DEF Step
        <3> QED
            BY <2>4
    <2>7. \A i \in 0..(n - 1) : h[i] = g[i]
        <3> HIDE DEF Step, h
        <3> QED
            BY <2>1, <2>5, <2>6
    <2>8. ASSUME NEW i \in 0..n PROVE Step(g, i) = Step(h, i)
        <3>1. CASE i = 0
            BY <3>1
        <3>2. CASE i # 0
            <4>1. i - 1 \in 0..(n - 1)
                BY <2>1, <3>2
            <4>2. h[i - 1] = g[i - 1]
                BY <2>7, <4>1
            <4> HIDE DEF h
            <4> QED
                BY <4>2
        <3> QED
            BY <3>1, <3>2
    <2>9. h = [i \in 0..n |-> Step(h, i)]
        <3>1. h = [i \in 0..n |-> Step(g, i)]
            OBVIOUS
        <3> HIDE DEF h, Step
        <3> QED
            BY <2>8, <3>1
    <2>10. Loop(h, n)
        <3> HIDE DEF h, Step
        <3> QED
            BY <1>0, <2>9
    <2> QED
        BY <1>2, <2>10
<1> QED
    BY <1>3, <1>4

\* The first n problems are laid out: each has a directory of its own, with its files and
\* its entry in it.
LaidOut(laid, n) ==
    /\ IsSequence(laid.directories) /\ Len(laid.directories) = n
    /\ \A i, j \in 1..n : laid.directories[i] = laid.directories[j] => i = j
    /\ DOMAIN laid.files = UNION {DOMAIN FilesOf(problems[i], laid.directories[i]) : i \in 1..n}
    /\ \A i \in 1..n : \A p \in DOMAIN FilesOf(problems[i], laid.directories[i]) :
          laid.files[p] = FilesOf(problems[i], laid.directories[i])[p]
    /\ DOMAIN laid.manifest = {laid.directories[i] : i \in 1..n}
    /\ \A i \in 1..n : laid.manifest[laid.directories[i]] = Entry(problems[i])

ProblemsTyped ==
    /\ IsSequence(problems) /\ Len(problems) <= MaxProblems
    /\ \A i \in 1..Len(problems) : problems[i] \in Library

LEMMA NothingLaidOut == LaidOut(NothingLaid, 0)
<1>1. IsSequence(<< >>) /\ Len(<< >>) = 0 /\ DOMAIN << >> = {}
    BY DEF IsSequence
<1>2. /\ NothingLaid.directories = << >> /\ NothingLaid.files = << >>
      /\ NothingLaid.manifest = << >>
    BY DEF NothingLaid
<1>3. 1..0 = {}
    OBVIOUS
<1> QED
    BY <1>1, <1>2, <1>3 DEF LaidOut

LEMMA OneMoreLaidOut ==
    ASSUME ProblemsTyped, NEW laid, NEW n \in Nat, n + 1 <= Len(problems), LaidOut(laid, n)
    PROVE  LaidOut(LayOut(laid, problems[n + 1], n + 1), n + 1)
<1> DEFINE ds == laid.directories
<1> DEFINE m == n + 1
<1> DEFINE d == DirectoryOf(ToSet(ds), problems[m], m)
<1> DEFINE next == LayOut(laid, problems[m], m)
<1>1. /\ problems[m] \in Library /\ n < MaxProblems /\ MaxProblems \in Nat
      /\ \A i \in 1..n : problems[i] \in Library
    BY ArchiveAssumption DEF ProblemsTyped, IsSequence
<1>2. IsSequence(ds) /\ Len(ds) = n /\ ToSet(ds) = {ds[i] : i \in 1..n}
    <2>1. IsSequence(ds) /\ Len(ds) = n
        BY DEF LaidOut
    <2>2. DOMAIN ds = 1..n
        BY <2>1 DEF IsSequence
    <2> QED
        BY <2>1, <2>2 DEF ToSet
<1>3. IsFiniteSet(ToSet(ds)) /\ Cardinality(ToSet(ds)) <= MaxProblems
    <2>1. ds \in Surjection(1..n, ToSet(ds))
        BY <1>2 DEF Surjection, IsSequence
    <2>2. IsFiniteSet(1..n) /\ Cardinality(1..n) = n
        BY FS_Interval
    <2>3. IsFiniteSet(ToSet(ds)) /\ Cardinality(ToSet(ds)) <= n
        <3> HIDE DEF ds
        <3> QED
            BY <2>1, <2>2, FS_Surjection
    <2> QED
        BY <1>1, <2>3, FS_CardinalityType
<1>4. d \notin ToSet(ds)
    BY <1>1, <1>3, DirectoryIsNew
<1>5. next = [directories |-> Append(ds, d), files |-> Overlay(FilesOf(problems[m], d), laid.files),
              manifest |-> Overlay([e \in {d} |-> Entry(problems[m])], laid.manifest)]
    BY DEF LayOut
<1> DEFINE es == Append(ds, d)
<1>6. /\ IsSequence(es) /\ Len(es) = m
      /\ \A i \in 1..n : es[i] = ds[i] /\ ds[i] \in ToSet(ds)
      /\ es[m] = d
    <2> HIDE DEF ds, d
    <2> QED
        BY <1>2, Appended
<1>7. next.directories = es /\ next.files = Overlay(FilesOf(problems[m], d), laid.files)
      /\ next.manifest = Overlay([e \in {d} |-> Entry(problems[m])], laid.manifest)
    BY <1>5
<1>8. /\ \A i, j \in 1..n : ds[i] = ds[j] => i = j
      /\ DOMAIN laid.files = UNION {DOMAIN FilesOf(problems[i], ds[i]) : i \in 1..n}
      /\ \A i \in 1..n : \A p \in DOMAIN FilesOf(problems[i], ds[i]) :
            laid.files[p] = FilesOf(problems[i], ds[i])[p]
      /\ DOMAIN laid.manifest = {ds[i] : i \in 1..n}
      /\ \A i \in 1..n : laid.manifest[ds[i]] = Entry(problems[i])
    BY DEF LaidOut
<1> HIDE DEF ds, d, es, next
<1>9. 1..m = (1..n) \cup {m} /\ m \notin 1..n
    OBVIOUS
<1> HIDE DEF m
<1>10. ASSUME NEW i \in 1..m, NEW j \in 1..m, es[i] = es[j] PROVE i = j
    BY <1>4, <1>6, <1>8, <1>9, <1>10
<1>11. DOMAIN next.files = UNION {DOMAIN FilesOf(problems[i], es[i]) : i \in 1..m}
    <2>1. DOMAIN next.files = DOMAIN FilesOf(problems[m], d) \cup DOMAIN laid.files
        BY <1>7 DEF Overlay
    <2>2. \A i \in 1..n : DOMAIN FilesOf(problems[i], es[i]) = DOMAIN FilesOf(problems[i], ds[i])
        BY <1>6
    <2>3. DOMAIN FilesOf(problems[m], es[m]) = DOMAIN FilesOf(problems[m], d)
        BY <1>6
    <2> QED
        BY <1>8, <1>9, <2>1, <2>2, <2>3
<1>12. ASSUME NEW i \in 1..m, NEW p \in DOMAIN FilesOf(problems[i], es[i])
       PROVE  next.files[p] = FilesOf(problems[i], es[i])[p]
    <2>1. CASE i = m
        BY <1>6, <1>7, <1>12, <2>1 DEF Overlay
    <2>2. CASE i # m
        <3>1. i \in 1..n /\ es[i] = ds[i] /\ ds[i] # d
            BY <1>4, <1>6, <1>9, <2>2
        <3>2. p.directory = ds[i]
            BY <1>1, <3>1, FilesLie
        <3>3. p \notin DOMAIN FilesOf(problems[m], d)
            BY <1>1, <3>1, <3>2, FilesLie
        <3>4. p \in DOMAIN laid.files
            BY <1>8, <3>1
        <3>5. next.files[p] = laid.files[p]
            BY <1>7, <3>3, <3>4 DEF Overlay
        <3> QED
            BY <1>8, <3>1, <3>5
    <2> QED
        BY <2>1, <2>2
<1>13. DOMAIN next.manifest = {es[i] : i \in 1..m}
    <2>1. DOMAIN next.manifest = {d} \cup {ds[i] : i \in 1..n}
        BY <1>7, <1>8 DEF Overlay
    <2> QED
        BY <1>6, <1>9, <2>1
<1>14. ASSUME NEW i \in 1..m PROVE next.manifest[es[i]] = Entry(problems[i])
    <2>1. CASE i = m
        BY <1>6, <1>7, <2>1 DEF Overlay
    <2>2. CASE i # m
        <3>1. i \in 1..n /\ es[i] = ds[i] /\ ds[i] # d
            BY <1>4, <1>6, <1>9, <2>2
        <3>2. ds[i] \in DOMAIN laid.manifest
            BY <1>8, <3>1
        <3>3. next.manifest[ds[i]] = laid.manifest[ds[i]]
            BY <1>7, <3>1, <3>2 DEF Overlay
        <3> QED
            BY <1>8, <3>1, <3>3
    <2> QED
        BY <2>1, <2>2
<1>15. LaidOut(next, m)
    BY <1>6, <1>7, <1>10, <1>11, <1>12, <1>13, <1>14 DEF LaidOut
<1> QED
    BY <1>15 DEF next, m

LEMMA EverythingLaidOut ==
    ASSUME ProblemsTyped
    PROVE  LaidOut(Laid, Len(problems))
<1> DEFINE L == Len(problems)
<1>1. L \in Nat
    BY DEF ProblemsTyped, IsSequence
<1> DEFINE laid == CHOOSE g : Loop(g, L)
<1>2. Loop(laid, L)
    BY <1>1, LoopRuns
<1>3. Laid = laid[L]
    BY DEF Laid, Loop
<1> HIDE DEF laid
<1>4. laid[0] = NothingLaid /\ \A i \in 1..L : laid[i] = LayOut(laid[i - 1], problems[i], i)
    <2> DEFINE Step(i) == IF i = 0 THEN NothingLaid ELSE LayOut(laid[i - 1], problems[i], i)
    <2>1. laid = [i \in 0..L |-> Step(i)]
        BY <1>2 DEF Loop
    <2>2. \A i \in 0..L : laid[i] = Step(i)
        <3> HIDE DEF Step
        <3> QED
            BY <2>1
    <2>3. 0 \in 0..L /\ \A i \in 1..L : i \in 0..L /\ i # 0
        BY <1>1
    <2> QED
        BY <2>2, <2>3
<1> DEFINE Bad == {n \in Nat : n <= L /\ ~LaidOut(laid[n], n)}
<1>5. Bad = {}
    <2> SUFFICES ASSUME Bad # {} PROVE FALSE
        OBVIOUS
    <2>1. PICK n \in Bad : \A j \in Bad : n <= j
        <3>1. Bad \in SUBSET Nat
            OBVIOUS
        <3> HIDE DEF Bad
        <3> QED
            BY <3>1, LeastNumber
    <2>2. n \in Nat /\ n <= L /\ ~LaidOut(laid[n], n)
        BY <2>1
    <2>3. n # 0
        BY <1>4, <2>2, NothingLaidOut
    <2> DEFINE k == n - 1
    <2>4. k \in Nat /\ k <= L /\ ~(n <= k) /\ n \in 1..L /\ k + 1 = n
        BY <1>1, <2>2, <2>3
    <2>5. LaidOut(laid[k], k)
        <3>1. k \notin Bad
            <4> HIDE DEF Bad, k
            <4> QED
                BY <2>1, <2>4
        <3> QED
            BY <2>4, <3>1
    <2>6. laid[n] = LayOut(laid[k], problems[n], n)
        BY <1>4, <2>4
    <2> HIDE DEF k
    <2>7. k + 1 <= Len(problems)
        BY <2>2, <2>4
    <2>8. LaidOut(LayOut(laid[k], problems[k + 1], k + 1), k + 1)
        BY <2>4, <2>5, <2>7, OneMoreLaidOut
    <2> QED
        BY <2>2, <2>4, <2>6, <2>8
<1>6. LaidOut(laid[L], L)
    BY <1>1, <1>5
<1> QED
    BY <1>3, <1>6

\* The problems are what they were, so are their directories.
LEMMA DirectoriesStay ==
    ASSUME problems' = problems
    PROVE  Directories' = Directories /\ Laid' = Laid
    BY DEF Directories, Laid, LayOut

-----------------------------------------------------------------------------
(* Archive: what the import makes of it.                                    *)

\* The files are in the archive, the entries too, or none of them.
ZipHolds ==
    /\ zip = [files |-> zip.files, manifest |-> zip.manifest]
    /\ zip.files = Laid.files
    /\ zip.manifest = Laid.manifest \/ zip.manifest = << >>

\* A file is in the archive when some problem put it there, with that problem's content.
LEMMA FilesFound ==
    ASSUME ProblemsTyped, ZipHolds, NEW i \in 1..Len(problems)
    PROVE  /\ DOMAIN FilesOf(problems[i], Directories[i]) \subseteq DOMAIN zip.files
           /\ \A p \in DOMAIN FilesOf(problems[i], Directories[i]) :
                 zip.files[p] = FilesOf(problems[i], Directories[i])[p]
           /\ \A p \in DOMAIN zip.files :
                 p.directory = Directories[i] => p \in DOMAIN FilesOf(problems[i], Directories[i])
<1>1. LaidOut(Laid, Len(problems)) /\ Directories = Laid.directories /\ zip.files = Laid.files
    BY EverythingLaidOut DEF Directories, ZipHolds
<1> DEFINE ds == Laid.directories
<1> DEFINE L == Len(problems)
<1>4. /\ \A j, k \in 1..L : ds[j] = ds[k] => j = k
      /\ DOMAIN Laid.files = UNION {DOMAIN FilesOf(problems[j], ds[j]) : j \in 1..L}
      /\ \A j \in 1..L : \A p \in DOMAIN FilesOf(problems[j], ds[j]) :
            Laid.files[p] = FilesOf(problems[j], ds[j])[p]
    BY <1>1 DEF LaidOut
<1>2. /\ \A j, k \in 1..L : Directories[j] = Directories[k] => j = k
      /\ DOMAIN zip.files = UNION {DOMAIN FilesOf(problems[j], Directories[j]) : j \in 1..L}
      /\ \A j \in 1..L : \A p \in DOMAIN FilesOf(problems[j], Directories[j]) :
            zip.files[p] = FilesOf(problems[j], Directories[j])[p]
    BY <1>1, <1>4
<1>3. ASSUME NEW p \in DOMAIN zip.files, p.directory = Directories[i]
      PROVE  p \in DOMAIN FilesOf(problems[i], Directories[i])
    <2>1. PICK j \in 1..Len(problems) : p \in DOMAIN FilesOf(problems[j], Directories[j])
        BY <1>2
    <2>2. p.directory = Directories[j]
        BY <2>1, FilesLie DEF ProblemsTyped
    <2>3. i = j
        BY <1>2, <1>3, <2>2
    <2> QED
        BY <2>1, <2>3
<1> QED
    BY <1>2, <1>3

\* Which paths of a directory there are.
LEMMA PathsFound ==
    ASSUME NEW problem \in Library, NEW d
    PROVE  LET paths == DOMAIN FilesOf(problem, d)
           IN  /\ Path(d, "main.cpp", << >>) \in paths <=> problem.language = "cpp"
               /\ Path(d, "main.py", << >>) \in paths <=> problem.language = "python"
               /\ {p.stem : p \in {q \in paths : q.name = "in"}} = Stems(Len(TestsOf(problem)))
               /\ \A i \in DOMAIN TestsOf(problem) :
                     /\ InputPath(d, i) \in paths
                     /\ OutputPath(d, i) \in paths <=> i \in Answered(TestsOf(problem))
<1> DEFINE tests == TestsOf(problem)
<1> DEFINE answered == Answered(tests)
<1> DEFINE paths == DOMAIN FilesOf(problem, d)
<1> DEFINE ins == {InputPath(d, i) : i \in DOMAIN tests}
<1> DEFINE outs == {OutputPath(d, i) : i \in answered}
<1>1. paths = {SourcePath(problem, d)} \cup ins \cup outs
    BY FilesHold
<1>2. problem.language \in {"cpp", "python"}
    BY ArchiveAssumption
<1>3. /\ SourcePath(problem, d).name = SourceFile(problem.language)
      /\ \A p \in ins : p.name = "in"
      /\ \A p \in outs : p.name = "out"
    BY DEF SourcePath, InputPath, OutputPath, Path
<1>4. DOMAIN tests = 1..Len(tests) /\ Len(tests) \in Nat /\ answered \in SUBSET DOMAIN tests
    BY TestsTyped DEF Answered
<1>5. \A n, s : Path(d, n, s).name = n /\ Path(d, n, s).stem = s
    BY DEF Path
<1>6. SourceFile("cpp") = "main.cpp" /\ SourceFile("python") = "main.py"
    BY DEF SourceFile
<1>7. Path(d, "main.cpp", << >>) \in paths <=> problem.language = "cpp"
    <2>1. ASSUME problem.language = "cpp" PROVE Path(d, "main.cpp", << >>) \in paths
        BY <1>1, <1>6, <2>1 DEF SourcePath
    <2>2. ASSUME problem.language = "python" PROVE Path(d, "main.cpp", << >>) \notin paths
        <3>1. SourcePath(problem, d).name = "main.py"
            BY <1>3, <1>6, <2>2
        <3> HIDE DEF ins, outs, paths
        <3> QED
            BY <1>1, <1>3, <1>5, <3>1
    <2> QED
        BY <1>2, <2>1, <2>2
<1>8. Path(d, "main.py", << >>) \in paths <=> problem.language = "python"
    <2>1. ASSUME problem.language = "python" PROVE Path(d, "main.py", << >>) \in paths
        BY <1>1, <1>6, <2>1 DEF SourcePath
    <2>2. ASSUME problem.language = "cpp" PROVE Path(d, "main.py", << >>) \notin paths
        <3>1. SourcePath(problem, d).name = "main.cpp"
            BY <1>3, <1>6, <2>2
        <3> HIDE DEF ins, outs, paths
        <3> QED
            BY <1>1, <1>3, <1>5, <3>1
    <2> QED
        BY <1>2, <2>1, <2>2
<1>9. {q \in paths : q.name = "in"} = ins
    <2>1. SourcePath(problem, d).name \in {"main.cpp", "main.py"}
        BY <1>3 DEF SourceFile
    <2> HIDE DEF ins, outs, paths
    <2> QED
        BY <1>1, <1>3, <2>1
<1>10. {p.stem : p \in ins} = Stems(Len(tests))
    <2>1. \A i \in DOMAIN tests : InputPath(d, i) \in ins /\ InputPath(d, i).stem = Stem(i)
        BY <1>5 DEF InputPath
    <2>2. \A p \in ins : \E i \in DOMAIN tests : p = InputPath(d, i)
        OBVIOUS
    <2>3. Stems(Len(tests)) = {Stem(i) : i \in DOMAIN tests}
        BY <1>4 DEF Stems
    <2> HIDE DEF ins, tests
    <2> QED
        BY <2>1, <2>2, <2>3
<1>11. ASSUME NEW i \in DOMAIN tests
       PROVE  /\ InputPath(d, i) \in paths
              /\ OutputPath(d, i) \in paths <=> i \in answered
    <2>1. InputPath(d, i) \in ins
        OBVIOUS
    <2>2. ASSUME i \in answered PROVE OutputPath(d, i) \in outs
        BY <2>2
    <2>3. ASSUME OutputPath(d, i) \in paths PROVE i \in answered
        <3>1. OutputPath(d, i).name = "out" /\ OutputPath(d, i).stem = Stem(i)
            BY <1>5 DEF OutputPath
        <3>2. SourcePath(problem, d).name \in {"main.cpp", "main.py"}
            BY <1>3 DEF SourceFile
        <3>3. OutputPath(d, i) \in outs
            <4> HIDE DEF ins, outs, paths
            <4> QED
                BY <1>1, <1>3, <2>3, <3>1, <3>2
        <3>4. PICK j \in answered : OutputPath(d, i) = OutputPath(d, j)
            BY <3>3
        <3>5. Stem(i) = Stem(j)
            BY <1>5, <3>4 DEF OutputPath
        <3>6. i \in Nat \ {0} /\ j \in Nat \ {0}
            BY <1>4
        <3> QED
            BY <3>4, <3>5, <3>6, StemsApart
    <2> HIDE DEF ins, outs, paths
    <2> QED
        BY <1>1, <2>1, <2>2, <2>3
<1> HIDE DEF paths
<1> QED
    BY <1>7, <1>8, <1>9, <1>10, <1>11 DEF paths

LEMMA KeptTest ==
    ASSUME NEW x, NEW y
    PROVE  Kept([input |-> x, expected |-> y]) =
               [input |-> x, expected |-> IF y \in Blank THEN "" ELSE y]
<1> DEFINE said == IF y \in Blank THEN "" ELSE y
<1> DEFINE test == [input |-> x, expected |-> y]
<1>1. test.expected = y
    OBVIOUS
<1>2. ASSUME NEW e PROVE [test EXCEPT !.expected = e] = [input |-> x, expected |-> e]
    OBVIOUS
<1> HIDE DEF test
<1>3. Kept(test) = [test EXCEPT !.expected = said]
    BY <1>1 DEF Kept
<1> HIDE DEF said
<1>4. Kept(test) = [input |-> x, expected |-> said]
    BY <1>2, <1>3
<1> QED
    BY <1>4 DEF test, said

\* The input and the output of a test are read back.
LEMMA TestRead ==
    ASSUME ProblemsTyped, ZipHolds, NEW i \in 1..Len(problems),
           NEW k \in DOMAIN TestsOf(problems[i])
    PROVE  [input |-> zip.files[InputPath(Directories[i], k)],
            expected |-> FileOr(OutputPath(Directories[i], k), "")] = Kept(TestsOf(problems[i])[k])
<1> DEFINE problem == problems[i]
<1> DEFINE d == Directories[i]
<1> DEFINE test == TestsOf(problem)[k]
<1> DEFINE files == FilesOf(problem, d)
<1>1. problem \in Library /\ k \in DOMAIN TestsOf(problem)
    BY DEF ProblemsTyped
<1>2. /\ DOMAIN files \subseteq DOMAIN zip.files
      /\ \A p \in DOMAIN files : zip.files[p] = files[p]
      /\ \A p \in DOMAIN zip.files : p.directory = d => p \in DOMAIN files
    BY FilesFound
<1>3. /\ InputPath(d, k) \in DOMAIN files
      /\ OutputPath(d, k) \in DOMAIN files <=> k \in Answered(TestsOf(problem))
    <2> HIDE DEF problem, d
    <2> QED
        BY <1>1, PathsFound
<1>4. /\ files[InputPath(d, k)] = test.input
      /\ k \in Answered(TestsOf(problem)) => files[OutputPath(d, k)] = test.expected
    <2> HIDE DEF problem, d
    <2> QED
        BY <1>1, FilesHold
<1>5. test = [input |-> test.input, expected |-> test.expected]
    BY <1>1, TestsTyped
<1>6. k \in Answered(TestsOf(problem)) <=> test.expected \notin Blank
    BY DEF Answered
<1>7. OutputPath(d, k).directory = d
    BY DEF OutputPath, Path
<1>8. zip.files[InputPath(d, k)] = test.input
    BY <1>2, <1>3, <1>4
<1>9. FileOr(OutputPath(d, k), "") = IF test.expected \in Blank THEN "" ELSE test.expected
    BY <1>2, <1>3, <1>4, <1>6, <1>7 DEF FileOr
<1> HIDE DEF test, files, problem, d
<1>10. Kept(test) = [input |-> test.input,
                     expected |-> IF test.expected \in Blank THEN "" ELSE test.expected]
    BY <1>5, KeptTest
<1>11. [input |-> zip.files[InputPath(d, k)], expected |-> FileOr(OutputPath(d, k), "")] = Kept(test)
    BY <1>8, <1>9, <1>10
<1> QED
    BY <1>11 DEF test, problem, d

\* Each place in the sorted list has the test whose number is its name.
LEMMA TestsRead ==
    ASSUME ProblemsTyped, ZipHolds, NEW i \in 1..Len(problems),
           NEW n, n = Len(TestsOf(problems[i]))
    PROVE  /\ TestsIn(Directories[i]) = [j \in 1..n |-> TestsIn(Directories[i])[j]]
           /\ \A j, k \in 1..n : Sorted(Stems(n))[j] = Stem(k) =>
                 TestsIn(Directories[i])[j] = Kept(TestsOf(problems[i])[k])
<1> DEFINE problem == problems[i]
<1> DEFINE d == Directories[i]
<1> DEFINE stems == Sorted(Stems(n))
<1> DEFINE Read(s) == [input |-> zip.files[Path(d, "in", s)], expected |-> FileOr(Path(d, "out", s), "")]
<1>1. problem \in Library
    BY DEF ProblemsTyped
<1>2. n \in Nat /\ DOMAIN TestsOf(problem) = 1..n
    BY <1>1, TestsTyped
<1>3. {p \in DOMAIN zip.files : p.directory = d /\ p.name = "in"}
          = {q \in DOMAIN FilesOf(problem, d) : q.name = "in"}
    <2>1. /\ DOMAIN FilesOf(problem, d) \subseteq DOMAIN zip.files
          /\ \A p \in DOMAIN zip.files : p.directory = d => p \in DOMAIN FilesOf(problem, d)
        BY FilesFound
    <2>2. \A p \in DOMAIN FilesOf(problem, d) : p.directory = d
        BY <1>1, FilesLie
    <2> QED
        BY <2>1, <2>2
<1>4. {p.stem : p \in {q \in DOMAIN FilesOf(problem, d) : q.name = "in"}} = Stems(n)
    <2> HIDE DEF problem, d
    <2>1. n = Len(TestsOf(problem))
        BY DEF problem
    <2> QED
        BY <1>1, <2>1, PathsFound
<1>5. DOMAIN stems = 1..n
    BY <1>2, StemsCounted, SortedLists
<1>6. TestsIn(d) = [j \in DOMAIN stems |-> Read(stems[j])]
    BY <1>3, <1>4 DEF TestsIn
<1> HIDE DEF stems, Read, problem, d
<1>7. TestsIn(d) = [j \in 1..n |-> Read(stems[j])]
    BY <1>5, <1>6
<1>8. TestsIn(d) = [j \in 1..n |-> TestsIn(d)[j]]
    BY <1>7
<1>9. ASSUME NEW j \in 1..n, NEW k \in 1..n, stems[j] = Stem(k)
      PROVE  TestsIn(d)[j] = Kept(TestsOf(problem)[k])
    <2>1. TestsIn(d)[j] = Read(Stem(k))
        BY <1>7, <1>9
    <2>2. Read(Stem(k)) = [input |-> zip.files[InputPath(d, k)], expected |-> FileOr(OutputPath(d, k), "")]
        BY DEF Read, InputPath, OutputPath
    <2>3. k \in DOMAIN TestsOf(problems[i])
        BY <1>2 DEF problem
    <2>4. Read(Stem(k)) = Kept(TestsOf(problem)[k])
        BY <2>2, <2>3, TestRead DEF problem, d
    <2> QED
        BY <2>1, <2>4
<1> QED
    BY <1>8, <1>9 DEF stems, problem, d

LEMMA TestsComeBack ==
    ASSUME ProblemsTyped, ZipHolds, NEW i \in 1..Len(problems), NEW tests,
           tests = [j \in DOMAIN TestsOf(problems[i]) |-> Kept(TestsOf(problems[i])[j])]
    PROVE  IF InOrder(tests) THEN TestsIn(Directories[i]) = tests
           ELSE ToSet(TestsIn(Directories[i])) = ToSet(tests)
<1> DEFINE n == Len(TestsOf(problems[i]))
<1> DEFINE read == TestsIn(Directories[i])
<1> DEFINE stems == Sorted(Stems(n))
<1>1. problems[i] \in Library
    BY DEF ProblemsTyped
<1>2. n \in Nat /\ DOMAIN TestsOf(problems[i]) = 1..n
    BY <1>1, TestsTyped
<1>3. /\ read = [j \in 1..n |-> read[j]]
      /\ \A j, k \in 1..n : stems[j] = Stem(k) => read[j] = Kept(TestsOf(problems[i])[k])
    BY TestsRead
<1>4. DOMAIN tests = 1..n /\ \A k \in 1..n : tests[k] = Kept(TestsOf(problems[i])[k])
    BY <1>2
<1>5. Len(tests) = n
    <2>1. tests = [j \in 1..n |-> Kept(TestsOf(problems[i])[j])]
        BY <1>2
    <2> HIDE DEF n
    <2> QED
        BY <1>2, <2>1
<1> HIDE DEF n, read, stems
<1>6. \A j, k \in 1..n : stems[j] = Stem(k) => read[j] = tests[k]
    BY <1>3, <1>4
<1>7. CASE InOrder(tests)
    <2>1. n < Base * Base
        BY <1>5, <1>7 DEF InOrder
    <2>2. \A j \in 1..n : stems[j] = Stem(j)
        BY <1>2, <2>1, StemsSorted DEF stems
    <2>3. \A j \in 1..n : read[j] = tests[j]
        BY <1>6, <2>2
    <2>4. tests = [j \in 1..n |-> tests[j]]
        BY <1>2
    <2>5. read = tests
        BY <1>3, <2>3, <2>4
    <2> QED
        BY <1>7, <2>5 DEF read
<1>8. CASE ~InOrder(tests)
    <2>1. /\ \A j \in 1..n : stems[j] \in Stems(n)
          /\ \A s \in Stems(n) : \E j \in 1..n : stems[j] = s
        BY <1>2, StemsCounted, SortedLists DEF stems
    <2>2. ToSet(read) = {read[j] : j \in 1..n} /\ ToSet(tests) = {tests[k] : k \in 1..n}
        BY <1>3, <1>4 DEF ToSet
    <2>3. ASSUME NEW j \in 1..n PROVE \E k \in 1..n : read[j] = tests[k]
        <3>1. PICK k \in 1..n : stems[j] = Stem(k)
            BY <2>1 DEF Stems
        <3> QED
            BY <1>6, <3>1
    <2>4. ASSUME NEW k \in 1..n PROVE \E j \in 1..n : read[j] = tests[k]
        <3>1. Stem(k) \in Stems(n)
            BY DEF Stems
        <3>2. PICK j \in 1..n : stems[j] = Stem(k)
            BY <2>1, <3>1
        <3> QED
            BY <1>6, <3>2
    <2>5. ToSet(read) \subseteq ToSet(tests)
        BY <2>2, <2>3
    <2>6. ToSet(tests) \subseteq ToSet(read)
        BY <2>2, <2>4
    <2>7. ToSet(read) = ToSet(tests)
        BY <2>5, <2>6
    <2> QED
        BY <1>8, <2>7 DEF read
<1> QED
    BY <1>7, <1>8

\* All that a problem is when it is read from its directory.
LEMMA ProblemRead ==
    ASSUME ProblemsTyped, ZipHolds, NEW i \in 1..Len(problems)
    PROVE  LET was == problems[i]
               is == ImportFrom(Directories[i])
           IN  /\ is.source = was.source /\ is.language = was.language
               /\ is.tests = TestsIn(Directories[i])
               /\ zip.manifest # << >> => is.name = was.name /\ is.limits = was.limits
<1> DEFINE was == problems[i]
<1> DEFINE d == Directories[i]
<1> DEFINE cpp == Path(d, "main.cpp", << >>)
<1> DEFINE python == Path(d, "main.py", << >>)
<1> DEFINE guess == [name |-> d, limits |-> "default",
                     language |-> IF cpp \in DOMAIN zip.files THEN "cpp" ELSE "python"]
<1> DEFINE entry == IF d \in DOMAIN zip.manifest THEN zip.manifest[d] ELSE guess
<1>1. was \in Library /\ was.language \in {"cpp", "python"}
    BY ArchiveAssumption DEF ProblemsTyped
<1>2. ImportFrom(d) = [name |-> entry.name, language |-> entry.language, limits |-> entry.limits,
          source |-> IF cpp \in DOMAIN zip.files THEN zip.files[cpp] ELSE zip.files[python],
          tests |-> TestsIn(d)]
    BY DEF ImportFrom
<1>3. /\ DOMAIN FilesOf(was, d) \subseteq DOMAIN zip.files
      /\ \A p \in DOMAIN FilesOf(was, d) : zip.files[p] = FilesOf(was, d)[p]
      /\ \A p \in DOMAIN zip.files : p.directory = d => p \in DOMAIN FilesOf(was, d)
    BY FilesFound
<1>4. /\ cpp \in DOMAIN FilesOf(was, d) <=> was.language = "cpp"
      /\ python \in DOMAIN FilesOf(was, d) <=> was.language = "python"
    <2> HIDE DEF was, d
    <2> QED
        BY <1>1, PathsFound
<1>5. cpp.directory = d /\ python.directory = d
    BY DEF Path
<1>6. SourcePath(was, d) = IF was.language = "cpp" THEN cpp ELSE python
    BY DEF SourcePath, SourceFile
<1>7. FilesOf(was, d)[SourcePath(was, d)] = was.source
    <2> HIDE DEF was, d
    <2> QED
        BY <1>1, FilesHold
<1> HIDE DEF was, d, cpp, python
<1>8. cpp \in DOMAIN zip.files <=> was.language = "cpp"
    BY <1>3, <1>4, <1>5
<1>9. (IF cpp \in DOMAIN zip.files THEN zip.files[cpp] ELSE zip.files[python]) = was.source
    BY <1>1, <1>3, <1>4, <1>6, <1>7, <1>8
<1>10. CASE zip.manifest = Laid.manifest
    <2>1. LaidOut(Laid, Len(problems)) /\ d = Laid.directories[i]
        BY EverythingLaidOut DEF Directories, d
    <2>2. d \in DOMAIN zip.manifest /\ zip.manifest[d] = Entry(was)
        BY <1>10, <2>1 DEF LaidOut, was
    <2>3. entry = Entry(was)
        BY <2>2
    <2>4. entry.name = was.name /\ entry.language = was.language /\ entry.limits = was.limits
        BY <2>3 DEF Entry
    <2> HIDE DEF entry
    <2> QED
        BY <1>2, <1>9, <2>4 DEF was, d
<1>11. CASE zip.manifest = << >>
    <2>1. d \notin DOMAIN zip.manifest
        BY <1>11
    <2>2. entry.language = was.language
        BY <1>1, <1>8, <2>1
    <2> HIDE DEF entry
    <2> QED
        BY <1>2, <1>9, <1>11, <2>2 DEF was, d
<1> QED
    BY <1>10, <1>11 DEF ZipHolds

\* What there is when r is returned.
ComesBack(r) ==
    /\ Cardinality(DOMAIN r) = Len(problems)
    /\ \A i \in DOMAIN problems :
          LET was == problems[i]
              is == r[Directories[i]]
              tests == [j \in DOMAIN TestsOf(was) |-> Kept(TestsOf(was)[j])]
          IN  /\ is.source = was.source /\ is.language = was.language
              /\ IF InOrder(tests) THEN is.tests = tests ELSE ToSet(is.tests) = ToSet(tests)
              /\ zip.manifest # << >> => is.name = was.name /\ is.limits = was.limits

LEMMA EverythingComesBack ==
    ASSUME ProblemsTyped, ZipHolds, NEW r,
           r = [d \in {p.directory : p \in {p \in DOMAIN zip.files : p.name \in {"main.cpp", "main.py"}}}
                   |-> ImportFrom(d)]
    PROVE  ComesBack(r)
<1> DEFINE L == Len(problems)
<1> DEFINE sources == {p \in DOMAIN zip.files : p.name \in {"main.cpp", "main.py"}}
<1> DEFINE D == {p.directory : p \in sources}
<1>1. L \in Nat /\ DOMAIN problems = 1..L /\ \A i \in 1..L : problems[i] \in Library
    BY DEF ProblemsTyped, IsSequence
<1>2. /\ LaidOut(Laid, L) /\ Directories = Laid.directories /\ zip.files = Laid.files
    BY EverythingLaidOut DEF Directories, ZipHolds
<1>3. /\ \A j, k \in 1..L : Directories[j] = Directories[k] => j = k
      /\ DOMAIN zip.files = UNION {DOMAIN FilesOf(problems[j], Directories[j]) : j \in 1..L}
    <2> DEFINE ds == Laid.directories
    <2>1. /\ \A j, k \in 1..L : ds[j] = ds[k] => j = k
          /\ DOMAIN Laid.files = UNION {DOMAIN FilesOf(problems[j], ds[j]) : j \in 1..L}
        BY <1>2 DEF LaidOut
    <2> QED
        BY <1>2, <2>1
<1>4. ASSUME NEW i \in 1..L PROVE Directories[i] \in D
    <2> DEFINE p == SourcePath(problems[i], Directories[i])
    <2>1. p \in DOMAIN FilesOf(problems[i], Directories[i])
        BY <1>1, SourceHeld
    <2>2. p.name \in {"main.cpp", "main.py"} /\ p.directory = Directories[i]
        BY DEF SourcePath, SourceFile, Path
    <2>3. p \in sources
        BY <1>3, <2>1, <2>2
    <2> HIDE DEF p, sources
    <2> QED
        BY <2>2, <2>3
<1>5. ASSUME NEW d \in D PROVE \E i \in 1..L : d = Directories[i]
    <2>1. PICK p \in sources : d = p.directory
        BY <1>5
    <2>2. PICK i \in 1..L : p \in DOMAIN FilesOf(problems[i], Directories[i])
        BY <1>3, <2>1
    <2>3. p.directory = Directories[i]
        BY <1>1, <2>2, FilesLie
    <2> QED
        BY <2>1, <2>3
<1>6. Cardinality(D) = L
    <2> DEFINE f == [i \in 1..L |-> Directories[i]]
    <2> HIDE DEF D
    <2>1. f \in Bijection(1..L, D)
        BY <1>3, <1>4, <1>5 DEF Bijection, Injection, IsInjective, Surjection
    <2>2. ExistsBijection(1..L, D)
        BY <2>1 DEF ExistsBijection
    <2>3. IsFiniteSet(1..L) /\ Cardinality(1..L) = L
        BY <1>1, FS_Interval
    <2> QED
        BY <2>2, <2>3, FS_Bijection
<1>7. r = [d \in D |-> ImportFrom(d)]
    OBVIOUS
<1> HIDE DEF D, sources
<1>8. DOMAIN r = D /\ \A i \in 1..L : r[Directories[i]] = ImportFrom(Directories[i])
    BY <1>4, <1>7
<1>9. ASSUME NEW i \in 1..L
      PROVE  LET was == problems[i]
                 is == ImportFrom(Directories[i])
                 tests == [j \in DOMAIN TestsOf(was) |-> Kept(TestsOf(was)[j])]
             IN  /\ is.source = was.source /\ is.language = was.language
                 /\ IF InOrder(tests) THEN is.tests = tests ELSE ToSet(is.tests) = ToSet(tests)
                 /\ zip.manifest # << >> => is.name = was.name /\ is.limits = was.limits
    <2> DEFINE tests == [j \in DOMAIN TestsOf(problems[i]) |-> Kept(TestsOf(problems[i])[j])]
    <2>1. IF InOrder(tests) THEN TestsIn(Directories[i]) = tests
          ELSE ToSet(TestsIn(Directories[i])) = ToSet(tests)
        <3> HIDE DEF tests
        <3> QED
            BY TestsComeBack DEF tests
    <2> HIDE DEF tests
    <2> QED
        BY <2>1, ProblemRead DEF tests
<1> QED
    BY <1>1, <1>6, <1>8, <1>9 DEF ComesBack

-----------------------------------------------------------------------------
(* Archive: the specification.                                              *)

ArchiveInv ==
    /\ ProblemsTyped
    /\ zip # Missing => ZipHolds
    /\ restored # Missing => zip # Missing /\ ComesBack(restored)

LEMMA ArchiveStep ==
    ASSUME ArchiveInv, ArchiveNext
    PROVE  ArchiveInv'
<1>1. CASE Export
    <2>1. zip' = [files |-> Laid.files, manifest |-> Laid.manifest]
          /\ UNCHANGED <<problems, restored>> /\ restored = Missing
        BY <1>1 DEF Export, ArchiveInv
    <2>2. zip'.files = Laid.files /\ zip'.manifest = Laid.manifest
        BY <2>1
    <2>3. ZipHolds'
        BY <2>1, <2>2, DirectoriesStay DEF ZipHolds
    <2> QED
        BY <2>1, <2>3 DEF ArchiveInv, ProblemsTyped
<1>2. CASE LoseManifest
    <2>1. zip # Missing /\ restored = Missing /\ zip' = [zip EXCEPT !.manifest = << >>]
          /\ UNCHANGED <<problems, restored>>
        BY <1>2 DEF LoseManifest
    <2>2. zip.files = Laid.files /\ zip = [files |-> zip.files, manifest |-> zip.manifest]
        BY <2>1 DEF ArchiveInv, ZipHolds
    <2>3. zip' = [files |-> Laid.files, manifest |-> << >>]
        BY <2>1, <2>2
    <2>4. zip'.files = Laid.files /\ zip'.manifest = << >>
        BY <2>3
    <2>5. Laid' = Laid
        BY <2>1, DirectoriesStay
    <2>6. ZipHolds'
        BY <2>3, <2>4, <2>5 DEF ZipHolds
    <2> QED
        BY <2>1, <2>6 DEF ArchiveInv, ProblemsTyped
<1>3. CASE Import
    <2>1. zip # Missing /\ UNCHANGED <<problems, zip>>
          /\ restored' = [d \in {p.directory : p \in {p \in DOMAIN zip.files : p.name \in {"main.cpp", "main.py"}}}
                             |-> ImportFrom(d)]
        BY <1>3 DEF Import
    <2> DEFINE r == restored'
    <2>2. ComesBack(r)
        BY <2>1, EverythingComesBack DEF ArchiveInv
    <2>3. ComesBack(restored)'
        BY <2>1, <2>2, DirectoriesStay DEF ComesBack
    <2>4. ZipHolds'
        BY <2>1, DirectoriesStay DEF ArchiveInv, ZipHolds
    <2> QED
        BY <2>1, <2>3, <2>4 DEF ArchiveInv, ProblemsTyped
<1> QED
    BY <1>1, <1>2, <1>3 DEF ArchiveNext

\* Every problem comes back from its archive, those that share a name apart from each
\* other: its source, its language, its tests (in order while their numbers have two
\* digits), and, when the manifest is there, its name and its limits (archive.ts 30-138).
THEOREM ArchiveComesBack == ArchiveSpec => []ArchiveRoundTrip
<1>1. ArchiveInit => ArchiveInv
    <2> SUFFICES ASSUME ArchiveInit PROVE ArchiveInv
        OBVIOUS
    <2>1. MaxProblems \in Nat
        BY ArchiveAssumption
    <2>2. PICK n \in 0..MaxProblems : problems \in [1..n -> Library]
        BY DEF ArchiveInit
    <2>3. Len(problems) = n
        BY <2>1, <2>2
    <2> QED
        BY <2>1, <2>2, <2>3 DEF ArchiveInit, ArchiveInv, ProblemsTyped, IsSequence
<1>2. ArchiveInv /\ [ArchiveNext]_archiveVars => ArchiveInv'
    <2> SUFFICES ASSUME ArchiveInv, [ArchiveNext]_archiveVars PROVE ArchiveInv'
        OBVIOUS
    <2>1. CASE ArchiveNext
        BY <2>1, ArchiveStep
    <2>2. CASE UNCHANGED archiveVars
        <3>1. problems' = problems /\ zip' = zip /\ restored' = restored
            BY <2>2 DEF archiveVars
        <3> QED
            BY <3>1, DirectoriesStay DEF ArchiveInv, ProblemsTyped, ZipHolds, ComesBack
    <2> QED
        BY <2>1, <2>2
<1>3. ArchiveInv => ArchiveRoundTrip
    BY DEF ArchiveInv, ComesBack, ArchiveRoundTrip
<1> QED
    BY <1>1, <1>2, <1>3, PTL DEF ArchiveSpec

-----------------------------------------------------------------------------
(* OrderTree: the recursive functions, each an equation that has a solution *)
(* in a heap where every child has a smaller size than its node.            *)

NodeIn(P) == [priority : Nat, size : Nat, left : P, right : P, parent : Nat]

HeapOk(h) ==
    /\ DOMAIN h \subseteq Nat \ {0}
    /\ IsFiniteSet(DOMAIN h)
    /\ h \in [DOMAIN h -> NodeIn(Pointers(h))]

Graded(h) ==
    \A m \in DOMAIN h : /\ h[m].size <= Cardinality(DOMAIN h)
                        /\ SizeOf(h, h[m].left) < h[m].size
                        /\ SizeOf(h, h[m].right) < h[m].size

\* The parent of a node is a node with a greater size.
Rooted(h) ==
    \A m \in DOMAIN h : /\ h[m].parent \in Pointers(h)
                        /\ h[m].parent # 0 => h[m].size < h[h[m].parent].size

\* The children of a node are none or nodes of smaller size.
LEMMA HeapFacts ==
    ASSUME NEW h, HeapOk(h), Graded(h)
    PROVE  /\ Cardinality(DOMAIN h) \in Nat /\ 0 \in Pointers(h) /\ 0 \notin DOMAIN h
           /\ SizeOf(h, 0) = 0
           /\ \A m \in DOMAIN h : /\ m \in Pointers(h) /\ m \in Nat /\ m # 0
                                  /\ SizeOf(h, m) = h[m].size
                                  /\ h[m].left \in Pointers(h) /\ h[m].right \in Pointers(h)
                                  /\ SizeOf(h, h[m].left) < SizeOf(h, m)
                                  /\ SizeOf(h, h[m].right) < SizeOf(h, m)
           /\ \A m \in Pointers(h) : /\ SizeOf(h, m) \in Nat /\ SizeOf(h, m) <= Cardinality(DOMAIN h)
                                     /\ m # 0 => m \in DOMAIN h
<1>1. Cardinality(DOMAIN h) \in Nat
    BY FS_CardinalityType DEF HeapOk
<1> QED
    BY <1>1 DEF HeapOk, Graded, Pointers, NodeIn, SizeOf

\* The fixed point for a walk that goes on from one pointer to another.
Descends(G, h, V) ==
    /\ V # {} /\ G \in [[Pointers(h) -> V] -> [Pointers(h) -> V]]
    /\ \A f, g \in [Pointers(h) -> V] : \A d \in Pointers(h) :
          (\A c \in Pointers(h) : SizeOf(h, c) < SizeOf(h, d) => f[c] = g[c]) => G[f][d] = G[g][d]

\* A recursive function over pointers exists where it goes down the tree only.
LEMMA PointerFixedPoint ==
    ASSUME NEW h, HeapOk(h), Graded(h), NEW V, NEW G, Descends(G, h, V)
    PROVE  \E f \in [Pointers(h) -> V] : f = G[f]
<1> DEFINE mu == [m \in Pointers(h) |-> SizeOf(h, m)]
<1>1. mu \in [Pointers(h) -> Nat] /\ Cardinality(DOMAIN h) \in Nat
    BY HeapFacts
<1>2. \A d \in Pointers(h) : mu[d] <= Cardinality(DOMAIN h) /\ mu[d] = SizeOf(h, d)
    BY HeapFacts
<1>3. \E N \in Nat : \A d \in Pointers(h) : mu[d] <= N
    BY <1>1, <1>2
<1>4. Contracts(G, Pointers(h), V, mu)
    <2> HIDE DEF mu
    <2> QED
        BY <1>1, <1>2, <1>3 DEF Contracts, Descends
<1> HIDE DEF mu
<1> QED
    BY <1>4, FixedPoint

LEMMA LeftmostEq ==
    ASSUME NEW h, HeapOk(h), Graded(h)
    PROVE  /\ Leftmost(h, 0) = 0
           /\ \A m \in DOMAIN h : Leftmost(h, m) = IF h[m].left = 0 THEN m ELSE Leftmost(h, h[m].left)
<1> DEFINE D == Pointers(h)
<1> DEFINE Body(f, m) == IF m = 0 THEN 0 ELSE IF h[m].left = 0 THEN m ELSE f[h[m].left]
<1> DEFINE G == [f \in [D -> D] |-> [m \in D |-> Body(f, m)]]
<1> DEFINE fix == CHOOSE f : f = [m \in Pointers(h) |->
                      IF m = 0 THEN 0 ELSE IF h[m].left = 0 THEN m ELSE f[h[m].left]]
<1>1. \E f : f = [m \in D |-> Body(f, m)]
    <2>1. G \in [[D -> D] -> [D -> D]] /\ D # {}
        BY HeapFacts
    <2>2. Descends(G, h, D)
        BY <2>1, HeapFacts DEF Descends
    <2>3. \E f \in [D -> D] : f = G[f]
        <3> HIDE DEF G
        <3> QED
            BY <2>2, PointerFixedPoint
    <2> QED
        BY <2>3
<1>2. fix = [m \in D |-> Body(fix, m)]
    BY <1>1
<1>3. \A m : Leftmost(h, m) = fix[m]
    BY DEF Leftmost
<1> HIDE DEF fix
<1>4. 0 \in D /\ \A m \in DOMAIN h : m \in D /\ m # 0
    BY HeapFacts
<1>5. \A m \in D : fix[m] = IF m = 0 THEN 0 ELSE IF h[m].left = 0 THEN m ELSE fix[h[m].left]
    BY <1>2
<1> QED
    BY <1>3, <1>4, <1>5

LEMMA RightmostEq ==
    ASSUME NEW h, HeapOk(h), Graded(h)
    PROVE  /\ Rightmost(h, 0) = 0
           /\ \A m \in DOMAIN h : Rightmost(h, m) = IF h[m].right = 0 THEN m ELSE Rightmost(h, h[m].right)
<1> DEFINE D == Pointers(h)
<1> DEFINE Body(f, m) == IF m = 0 THEN 0 ELSE IF h[m].right = 0 THEN m ELSE f[h[m].right]
<1> DEFINE G == [f \in [D -> D] |-> [m \in D |-> Body(f, m)]]
<1> DEFINE fix == CHOOSE f : f = [m \in Pointers(h) |->
                      IF m = 0 THEN 0 ELSE IF h[m].right = 0 THEN m ELSE f[h[m].right]]
<1>1. \E f : f = [m \in D |-> Body(f, m)]
    <2>1. G \in [[D -> D] -> [D -> D]] /\ D # {}
        BY HeapFacts
    <2>2. Descends(G, h, D)
        BY <2>1, HeapFacts DEF Descends
    <2>3. \E f \in [D -> D] : f = G[f]
        <3> HIDE DEF G
        <3> QED
            BY <2>2, PointerFixedPoint
    <2> QED
        BY <2>3
<1>2. fix = [m \in D |-> Body(fix, m)]
    BY <1>1
<1>3. \A m : Rightmost(h, m) = fix[m]
    BY DEF Rightmost
<1> HIDE DEF fix
<1>4. 0 \in D /\ \A m \in DOMAIN h : m \in D /\ m # 0
    BY HeapFacts
<1>5. \A m \in D : fix[m] = IF m = 0 THEN 0 ELSE IF h[m].right = 0 THEN m ELSE fix[h[m].right]
    BY <1>2
<1> QED
    BY <1>3, <1>4, <1>5

LEMMA ClimbRightEq ==
    ASSUME NEW h, HeapOk(h), Graded(h), Rooted(h)
    PROVE  \A m \in DOMAIN h :
              ClimbRight(h, m) = IF h[m].parent # 0 /\ h[h[m].parent].right = m
                                 THEN ClimbRight(h, h[m].parent) ELSE h[m].parent
<1> DEFINE D == DOMAIN h
<1> DEFINE Body(f, m) == IF h[m].parent # 0 /\ h[h[m].parent].right = m THEN f[h[m].parent] ELSE h[m].parent
<1> DEFINE G == [f \in [D -> Nat] |-> [m \in D |-> Body(f, m)]]
<1> DEFINE fix == CHOOSE f : f = [m \in DOMAIN h |->
                      IF h[m].parent # 0 /\ h[h[m].parent].right = m THEN f[h[m].parent] ELSE h[m].parent]
<1> DEFINE mu == [m \in D |-> Cardinality(DOMAIN h) - h[m].size]
<1>1. \E f : f = [m \in D |-> Body(f, m)]
    <2>1. /\ mu \in [D -> Nat] /\ Cardinality(DOMAIN h) \in Nat
          /\ \A m \in D : mu[m] <= Cardinality(DOMAIN h)
        BY HeapFacts
    <2>2. \A m \in D : h[m].parent # 0 => h[m].parent \in D /\ mu[h[m].parent] < mu[m]
        BY HeapFacts DEF Rooted
    <2>3. \A m \in D : h[m].parent \in Nat
        BY DEF HeapOk, NodeIn
    <2>4. G \in [[D -> Nat] -> [D -> Nat]] /\ \E N \in Nat : \A m \in D : mu[m] <= N
        BY <2>1, <2>2, <2>3
    <2>5. Contracts(G, D, Nat, mu)
        <3> HIDE DEF mu, D
        <3> QED
            BY <2>1, <2>2, <2>4 DEF Contracts
    <2>6. \E f \in [D -> Nat] : f = G[f]
        <3> HIDE DEF G, mu
        <3> QED
            BY <2>5, FixedPoint
    <2> QED
        BY <2>6
<1>2. fix = [m \in D |-> Body(fix, m)]
    BY <1>1
<1>3. \A m : ClimbRight(h, m) = fix[m]
    BY DEF ClimbRight
<1>4. \A m \in D : h[m].parent # 0 => h[m].parent \in D
    BY HeapFacts DEF Rooted
<1> HIDE DEF fix
<1> QED
    BY <1>2, <1>3, <1>4

LEMMA ClimbLeftEq ==
    ASSUME NEW h, HeapOk(h), Graded(h), Rooted(h)
    PROVE  \A m \in DOMAIN h :
              ClimbLeft(h, m) = IF h[m].parent # 0 /\ h[h[m].parent].left = m
                                 THEN ClimbLeft(h, h[m].parent) ELSE h[m].parent
<1> DEFINE D == DOMAIN h
<1> DEFINE Body(f, m) == IF h[m].parent # 0 /\ h[h[m].parent].left = m THEN f[h[m].parent] ELSE h[m].parent
<1> DEFINE G == [f \in [D -> Nat] |-> [m \in D |-> Body(f, m)]]
<1> DEFINE fix == CHOOSE f : f = [m \in DOMAIN h |->
                      IF h[m].parent # 0 /\ h[h[m].parent].left = m THEN f[h[m].parent] ELSE h[m].parent]
<1> DEFINE mu == [m \in D |-> Cardinality(DOMAIN h) - h[m].size]
<1>1. \E f : f = [m \in D |-> Body(f, m)]
    <2>1. /\ mu \in [D -> Nat] /\ Cardinality(DOMAIN h) \in Nat
          /\ \A m \in D : mu[m] <= Cardinality(DOMAIN h)
        BY HeapFacts
    <2>2. \A m \in D : h[m].parent # 0 => h[m].parent \in D /\ mu[h[m].parent] < mu[m]
        BY HeapFacts DEF Rooted
    <2>3. \A m \in D : h[m].parent \in Nat
        BY DEF HeapOk, NodeIn
    <2>4. G \in [[D -> Nat] -> [D -> Nat]] /\ \E N \in Nat : \A m \in D : mu[m] <= N
        BY <2>1, <2>2, <2>3
    <2>5. Contracts(G, D, Nat, mu)
        <3> HIDE DEF mu, D
        <3> QED
            BY <2>1, <2>2, <2>4 DEF Contracts
    <2>6. \E f \in [D -> Nat] : f = G[f]
        <3> HIDE DEF G, mu
        <3> QED
            BY <2>5, FixedPoint
    <2> QED
        BY <2>6
<1>2. fix = [m \in D |-> Body(fix, m)]
    BY <1>1
<1>3. \A m : ClimbLeft(h, m) = fix[m]
    BY DEF ClimbLeft
<1>4. \A m \in D : h[m].parent # 0 => h[m].parent \in D
    BY HeapFacts DEF Rooted
<1> HIDE DEF fix
<1> QED
    BY <1>2, <1>3, <1>4

HeapsOn(D) == [D -> NodeIn(D \cup {0})]

\* What the pointer functions write is again a heap over the same nodes.
LEMMA WithParentType ==
    ASSUME NEW D, NEW h \in HeapsOn(D), NEW ns, NEW p \in Nat
    PROVE  WithParent(h, ns, p) \in HeapsOn(D)
    BY DEF HeapsOn, WithParent, NodeIn

LEMMA LinkType ==
    ASSUME NEW D, NEW h \in HeapsOn(D), NEW n \in D, NEW p \in D \cup {0}
    PROVE  [h EXCEPT ![n].left = p] \in HeapsOn(D) /\ [h EXCEPT ![n].right = p] \in HeapsOn(D)
    BY DEF HeapsOn, NodeIn

LEMMA RefreshType ==
    ASSUME NEW D, D \subseteq Nat \ {0}, NEW h \in HeapsOn(D), NEW n \in D
    PROVE  Refresh(h, n) \in HeapsOn(D)
<1> DEFINE size == 1 + SizeOf(h, h[n].left) + SizeOf(h, h[n].right)
<1> DEFINE sized == [h EXCEPT ![n].size = size]
<1>1. size \in Nat
    <2>1. \A m \in D : h[m] \in NodeIn(D \cup {0})
        BY DEF HeapsOn
    <2>2. \A m \in D \cup {0} : SizeOf(h, m) \in Nat
        BY <2>1 DEF NodeIn, SizeOf
    <2>3. h[n].left \in D \cup {0} /\ h[n].right \in D \cup {0}
        BY <2>1 DEF NodeIn
    <2>4. \A a, b \in Nat : 1 + a + b \in Nat
        OBVIOUS
    <2>5. SizeOf(h, h[n].left) \in Nat /\ SizeOf(h, h[n].right) \in Nat
        BY <2>2, <2>3, Zenon
    <2> QED
        BY <2>4, <2>5
<1>2. sized \in HeapsOn(D)
    <2> HIDE DEF size
    <2> QED
        BY <1>1 DEF HeapsOn, NodeIn
<1>3. Refresh(h, n) = WithParent(sized, {h[n].left, h[n].right}, n)
    BY DEF Refresh
<1> HIDE DEF sized
<1> QED
    BY <1>2, <1>3, WithParentType

LEMMA HeapOkOn ==
    ASSUME NEW h, HeapOk(h)
    PROVE  h \in HeapsOn(DOMAIN h) /\ DOMAIN h \subseteq Nat \ {0} /\ Pointers(h) = DOMAIN h \cup {0}
    BY DEF HeapOk, HeapsOn, Pointers

Halves(D) == [heap : HeapsOn(D), lo : D \cup {0}, hi : D \cup {0}]

LEMMA SplitAtType ==
    ASSUME NEW D, D \subseteq Nat \ {0}, NEW n \in D, NEW key \in Nat, NEW s \in Halves(D)
    PROVE  SplitAt(n, key, s) \in Halves(D)
<1> DEFINE below == n < key
           linked == IF below THEN [s.heap EXCEPT ![n].right = s.lo] ELSE [s.heap EXCEPT ![n].left = s.hi]
           lo == IF below THEN n ELSE s.lo
           hi == IF below THEN s.hi ELSE n
<1>1. s.heap \in HeapsOn(D) /\ s.lo \in D \cup {0} /\ s.hi \in D \cup {0}
    BY DEF Halves
<1>2. linked \in HeapsOn(D) /\ lo \in D \cup {0} /\ hi \in D \cup {0}
    BY <1>1, LinkType
<1>3. SplitAt(n, key, s) = [heap |-> WithParent(Refresh(linked, n), {lo, hi}, 0), lo |-> lo, hi |-> hi]
    BY DEF SplitAt
<1> HIDE DEF linked, lo, hi
<1>4. WithParent(Refresh(linked, n), {lo, hi}, 0) \in HeapsOn(D)
    BY <1>2, RefreshType, WithParentType
<1> QED
    BY <1>2, <1>3, <1>4 DEF Halves

\* The recursive Split is what its equation says.
LEMMA SplitEq ==
    ASSUME NEW h, HeapOk(h), Graded(h), NEW key \in Nat
    PROVE  /\ Split(h, 0, key) = [heap |-> h, lo |-> 0, hi |-> 0]
           /\ \A m \in DOMAIN h :
                 Split(h, m, key) = SplitAt(m, key, Split(h, IF m < key THEN h[m].right ELSE h[m].left, key))
<1> DEFINE D == Pointers(h)
<1> DEFINE V == Halves(DOMAIN h)
<1> DEFINE Body(f, m) == IF m = 0 THEN [heap |-> h, lo |-> 0, hi |-> 0]
                         ELSE SplitAt(m, key, f[IF m < key THEN h[m].right ELSE h[m].left])
<1> DEFINE G == [f \in [D -> V] |-> [m \in D |-> Body(f, m)]]
<1> DEFINE fix == CHOOSE f : f = [m \in Pointers(h) |->
                      IF m = 0 THEN [heap |-> h, lo |-> 0, hi |-> 0]
                      ELSE SplitAt(m, key, f[IF m < key THEN h[m].right ELSE h[m].left])]
<1>1. \E f : f = [m \in D |-> Body(f, m)]
    <2>1. [heap |-> h, lo |-> 0, hi |-> 0] \in V
        BY HeapOkOn DEF Halves
    <2>2. G \in [[D -> V] -> [D -> V]]
        <3> SUFFICES ASSUME NEW f \in [D -> V], NEW m \in D
                     PROVE  Body(f, m) \in V
            OBVIOUS
        <3>1. CASE m = 0
            BY <2>1, <3>1
        <3>2. CASE m # 0
            <4>1. f[IF m < key THEN h[m].right ELSE h[m].left] \in V /\ m \in DOMAIN h
                BY <3>2, HeapFacts
            <4> QED
                BY <3>2, <4>1, HeapOkOn, SplitAtType
        <3> QED
            BY <3>1, <3>2
    <2>3. Descends(G, h, V)
        <3> HIDE DEF V
        <3> QED
            BY <2>1, <2>2, HeapFacts DEF Descends
    <2>4. \E f \in [D -> V] : f = G[f]
        <3> HIDE DEF G, V
        <3> QED
            BY <2>3, PointerFixedPoint
    <2> HIDE DEF V
    <2> QED
        BY <2>4
<1>2. fix = [m \in D |-> Body(fix, m)]
    BY <1>1
<1>3. \A m : Split(h, m, key) = fix[m]
    BY DEF Split
<1> HIDE DEF fix
<1>4. Split(h, 0, key) = [heap |-> h, lo |-> 0, hi |-> 0]
    BY <1>2, <1>3, HeapFacts
<1>5. ASSUME NEW m \in DOMAIN h
      PROVE  Split(h, m, key) = SplitAt(m, key, Split(h, IF m < key THEN h[m].right ELSE h[m].left, key))
    <2> DEFINE c == IF m < key THEN h[m].right ELSE h[m].left
    <2>1. fix[m] = SplitAt(m, key, fix[c])
        BY <1>2, HeapFacts
    <2> HIDE DEF c
    <2>2. Split(h, m, key) = SplitAt(m, key, Split(h, c, key))
        BY <1>3, <2>1
    <2> QED
        BY <2>2 DEF c
<1> QED
    BY <1>4, <1>5

Rooting(D) == [heap : HeapsOn(D), root : D \cup {0}]

LEMMA OverType ==
    ASSUME NEW D, D \subseteq Nat \ {0}, NEW n \in D, NEW m \in Rooting(D)
    PROVE  LoOver(m, n) \in Rooting(D) /\ HiOver(m, n) \in Rooting(D)
<1>1. m.heap \in HeapsOn(D) /\ m.root \in D \cup {0}
    BY DEF Rooting
<1>2. \A g \in HeapsOn(D) : WithParent(Refresh(g, n), {n}, 0) \in HeapsOn(D)
    BY RefreshType, WithParentType
<1>3. [m.heap EXCEPT ![n].right = m.root] \in HeapsOn(D) /\ [m.heap EXCEPT ![n].left = m.root] \in HeapsOn(D)
    BY <1>1, LinkType
<1> QED
    BY <1>2, <1>3 DEF Rooting, LoOver, HiOver

\* Which side merge goes down, for two nodes.
LEMMA MergeEq ==
    ASSUME NEW h, HeapOk(h), Graded(h)
    PROVE  /\ \A hi \in Pointers(h) : Merge(h, 0, hi) = [heap |-> h, root |-> hi]
           /\ \A lo \in Pointers(h) : lo # 0 => Merge(h, lo, 0) = [heap |-> h, root |-> lo]
           /\ \A lo, hi \in DOMAIN h :
                 Merge(h, lo, hi) = IF h[lo].priority > h[hi].priority
                                    THEN LoOver(Merge(h, h[lo].right, hi), lo)
                                    ELSE HiOver(Merge(h, lo, h[hi].left), hi)
<1> DEFINE P == Pointers(h)
<1> DEFINE D == P \X P
<1> DEFINE V == Rooting(DOMAIN h)
<1> DEFINE Body(f, p) ==
            IF p[1] = 0 THEN [heap |-> h, root |-> p[2]]
            ELSE IF p[2] = 0 THEN [heap |-> h, root |-> p[1]]
            ELSE IF h[p[1]].priority > h[p[2]].priority
            THEN LoOver(f[<<h[p[1]].right, p[2]>>], p[1])
            ELSE HiOver(f[<<p[1], h[p[2]].left>>], p[2])
<1> DEFINE G == [f \in [D -> V] |-> [p \in D |-> Body(f, p)]]
<1> DEFINE fix == CHOOSE f : f = [p \in Pointers(h) \X Pointers(h) |->
            IF p[1] = 0 THEN [heap |-> h, root |-> p[2]]
            ELSE IF p[2] = 0 THEN [heap |-> h, root |-> p[1]]
            ELSE IF h[p[1]].priority > h[p[2]].priority
            THEN LoOver(f[<<h[p[1]].right, p[2]>>], p[1])
            ELSE HiOver(f[<<p[1], h[p[2]].left>>], p[2])]
<1> DEFINE mu == [p \in D |-> SizeOf(h, p[1]) + SizeOf(h, p[2])]
<1>1. \A p \in D : /\ p[1] \in P /\ p[2] \in P
                   /\ p[1] # 0 => p[1] \in DOMAIN h /\ h[p[1]].right \in P
                   /\ p[2] # 0 => p[2] \in DOMAIN h /\ h[p[2]].left \in P
    BY HeapFacts
<1>2. \A p \in D : /\ p[1] # 0 => /\ <<h[p[1]].right, p[2]>> \in D
                                  /\ SizeOf(h, h[p[1]].right) < SizeOf(h, p[1])
                   /\ p[2] # 0 => /\ <<p[1], h[p[2]].left>> \in D
                                  /\ SizeOf(h, h[p[2]].left) < SizeOf(h, p[2])
    BY <1>1, HeapFacts
<1>3. \E f : f = [p \in D |-> Body(f, p)]
    <2>1. \A p \in P : [heap |-> h, root |-> p] \in V
        BY HeapOkOn DEF Rooting
    <2>2. G \in [[D -> V] -> [D -> V]]
        <3> SUFFICES ASSUME NEW f \in [D -> V], NEW p \in D
                     PROVE  Body(f, p) \in V
            OBVIOUS
        <3>1. CASE p[1] = 0 \/ p[2] = 0
            BY <1>1, <2>1, <3>1
        <3>2. CASE p[1] # 0 /\ p[2] # 0
            <4>1. f[<<h[p[1]].right, p[2]>>] \in V /\ f[<<p[1], h[p[2]].left>>] \in V
                <5> HIDE DEF V, D
                <5> QED
                    BY <1>2, <3>2
            <4>2. p[1] \in DOMAIN h /\ p[2] \in DOMAIN h
                BY <1>1, <3>2
            <4>3. /\ LoOver(f[<<h[p[1]].right, p[2]>>], p[1]) \in V
                  /\ HiOver(f[<<p[1], h[p[2]].left>>], p[2]) \in V
                <5> HIDE DEF D
                <5> QED
                    BY <4>1, <4>2, HeapOkOn, OverType
            <4> QED
                BY <3>2, <4>3
        <3> QED
            BY <3>1, <3>2
    <2>3. mu \in [D -> Nat] /\ \E N \in Nat : \A p \in D : mu[p] <= N
        <3>1. \A p \in D : SizeOf(h, p[1]) \in Nat /\ SizeOf(h, p[2]) \in Nat
            BY <1>1, HeapFacts
        <3>2. \A p \in D : SizeOf(h, p[1]) <= Cardinality(DOMAIN h) /\ SizeOf(h, p[2]) <= Cardinality(DOMAIN h)
            BY <1>1, HeapFacts
        <3>3. Cardinality(DOMAIN h) \in Nat
            BY HeapFacts
        <3>4. mu \in [D -> Nat]
            BY <3>1
        <3>5. \A p \in D : mu[p] <= Cardinality(DOMAIN h) + Cardinality(DOMAIN h)
            BY <3>1, <3>2, <3>3
        <3>6. Cardinality(DOMAIN h) + Cardinality(DOMAIN h) \in Nat
            BY <3>3
        <3> HIDE DEF mu
        <3> QED
            BY <3>4, <3>5, <3>6
    <2>4. \A p \in D : /\ p[1] # 0 => mu[<<h[p[1]].right, p[2]>>] < mu[p]
                       /\ p[2] # 0 => mu[<<p[1], h[p[2]].left>>] < mu[p]
        <3> SUFFICES ASSUME NEW p \in D
                     PROVE  /\ p[1] # 0 => mu[<<h[p[1]].right, p[2]>>] < mu[p]
                            /\ p[2] # 0 => mu[<<p[1], h[p[2]].left>>] < mu[p]
            OBVIOUS
        <3>1. SizeOf(h, p[1]) \in Nat /\ SizeOf(h, p[2]) \in Nat
            BY <1>1, HeapFacts
        <3>2. /\ p[1] # 0 => SizeOf(h, h[p[1]].right) \in Nat
              /\ p[2] # 0 => SizeOf(h, h[p[2]].left) \in Nat
            BY <1>1, HeapFacts
        <3> QED
            BY <1>2, <3>1, <3>2
    <2>5. V # {}
        BY <2>1, HeapFacts
    <2>6. Contracts(G, D, V, mu)
        <3> HIDE DEF V, mu, D
        <3> QED
            BY <1>2, <2>2, <2>3, <2>4, <2>5 DEF Contracts
    <2>7. \E f \in [D -> V] : f = G[f]
        <3> HIDE DEF G, V, mu
        <3> QED
            BY <2>6, FixedPoint
    <2> HIDE DEF V
    <2> QED
        BY <2>7
<1>4. fix = [p \in D |-> Body(fix, p)]
    BY <1>3
<1>5. \A lo, hi : Merge(h, lo, hi) = fix[<<lo, hi>>]
    BY DEF Merge
<1> HIDE DEF fix
<1>6. ASSUME NEW lo \in P, NEW hi \in P
      PROVE  Merge(h, lo, hi) =
                IF lo = 0 THEN [heap |-> h, root |-> hi]
                ELSE IF hi = 0 THEN [heap |-> h, root |-> lo]
                ELSE IF h[lo].priority > h[hi].priority
                THEN LoOver(Merge(h, h[lo].right, hi), lo)
                ELSE HiOver(Merge(h, lo, h[hi].left), hi)
    <2> DEFINE p == <<lo, hi>>
    <2>1. p \in D /\ p[1] = lo /\ p[2] = hi
        OBVIOUS
    <2>2. fix[p] = Body(fix, p)
        <3> HIDE DEF D, p, Body
        <3> QED
            BY <1>4, <2>1
    <2>3. Merge(h, h[p[1]].right, p[2]) = fix[<<h[p[1]].right, p[2]>>]
        BY <1>5
    <2>4. Merge(h, p[1], h[p[2]].left) = fix[<<p[1], h[p[2]].left>>]
        BY <1>5
    <2>5. Merge(h, lo, hi) = fix[p]
        BY <1>5
    <2> HIDE DEF p
    <2>6. fix[p] = IF lo = 0 THEN [heap |-> h, root |-> hi]
                   ELSE IF hi = 0 THEN [heap |-> h, root |-> lo]
                   ELSE IF h[lo].priority > h[hi].priority
                   THEN LoOver(Merge(h, h[lo].right, hi), lo)
                   ELSE HiOver(Merge(h, lo, h[hi].left), hi)
        BY <2>1, <2>2, <2>3, <2>4
    <2> QED
        BY <2>5, <2>6
<1>7. ASSUME NEW lo \in DOMAIN h, NEW hi \in DOMAIN h
      PROVE  Merge(h, lo, hi) = IF h[lo].priority > h[hi].priority
                                THEN LoOver(Merge(h, h[lo].right, hi), lo)
                                ELSE HiOver(Merge(h, lo, h[hi].left), hi)
    <2>1. lo # 0 /\ hi # 0 /\ lo \in P /\ hi \in P
        BY HeapFacts
    <2> HIDE DEF P
    <2> QED
        BY <1>6, <2>1
<1>8. \A hi \in P : Merge(h, 0, hi) = [heap |-> h, root |-> hi]
    <2>1. 0 \in P
        BY HeapFacts
    <2> HIDE DEF P
    <2> QED
        BY <1>6, <2>1
<1>9. \A lo \in P : lo # 0 => Merge(h, lo, 0) = [heap |-> h, root |-> lo]
    <2>1. 0 \in P
        BY HeapFacts
    <2> HIDE DEF P
    <2> QED
        BY <1>6, <2>1
<1> QED
    BY <1>7, <1>8, <1>9

\* The node over the copies of its two sides.
CloneOver(node, m, parent, left, right) ==
    [k \in {m} \cup DOMAIN left \cup DOMAIN right |->
        IF k = m THEN [node EXCEPT !.parent = parent]
        ELSE IF k \in DOMAIN left THEN left[k] ELSE right[k]]

PartsOf(D) == UNION {[S -> NodeIn(D \cup {0})] : S \in SUBSET D}

LEMMA PartsFacts ==
    ASSUME NEW D, NEW g
    PROVE  g \in PartsOf(D) <=> DOMAIN g \subseteq D /\ g \in [DOMAIN g -> NodeIn(D \cup {0})]
    BY DEF PartsOf

LEMMA CloneOverType ==
    ASSUME NEW D, NEW m \in D, NEW node \in NodeIn(D \cup {0}), NEW parent \in Nat,
           NEW left \in PartsOf(D), NEW right \in PartsOf(D)
    PROVE  CloneOver(node, m, parent, left, right) \in PartsOf(D)
<1> DEFINE S == {m} \cup DOMAIN left \cup DOMAIN right
<1>1. S \in SUBSET D
    BY PartsFacts
<1>2. [node EXCEPT !.parent = parent] \in NodeIn(D \cup {0})
    BY DEF NodeIn
<1>3. \A k \in DOMAIN left : left[k] \in NodeIn(D \cup {0})
    BY PartsFacts
<1>4. \A k \in DOMAIN right : right[k] \in NodeIn(D \cup {0})
    BY PartsFacts
<1>5. CloneOver(node, m, parent, left, right) \in [S -> NodeIn(D \cup {0})]
    BY <1>2, <1>3, <1>4 DEF CloneOver
<1> QED
    BY <1>1, <1>5 DEF PartsOf

\* The recursive Clone is what its equation says.
LEMMA CloneEq ==
    ASSUME NEW h, HeapOk(h), Graded(h)
    PROVE  /\ \A parent \in Pointers(h) : Clone(h, 0, parent) = NoNodes
           /\ \A n \in DOMAIN h : \A parent \in Pointers(h) :
                 Clone(h, n, parent) = CloneOver(h[n], n, parent, Clone(h, h[n].left, n), Clone(h, h[n].right, n))
<1> DEFINE P == Pointers(h)
<1> DEFINE D == P \X P
<1> DEFINE V == PartsOf(DOMAIN h)
<1> DEFINE Body(f, p) ==
            IF p[1] = 0 THEN NoNodes
            ELSE CloneOver(h[p[1]], p[1], p[2], f[<<h[p[1]].left, p[1]>>], f[<<h[p[1]].right, p[1]>>])
<1> DEFINE G == [f \in [D -> V] |-> [p \in D |-> Body(f, p)]]
<1> DEFINE fix == CHOOSE clone : clone = [p \in Pointers(h) \X Pointers(h) |->
            IF p[1] = 0 THEN NoNodes
            ELSE LET m == p[1]
                     left == clone[<<h[m].left, m>>]
                     right == clone[<<h[m].right, m>>]
                 IN  [k \in {m} \cup DOMAIN left \cup DOMAIN right |->
                         IF k = m THEN [h[m] EXCEPT !.parent = p[2]]
                         ELSE IF k \in DOMAIN left THEN left[k] ELSE right[k]]]
<1> DEFINE mu == [p \in D |-> SizeOf(h, p[1])]
<1>1. \A p \in D : /\ p[1] \in P /\ p[2] \in P
                   /\ p[1] # 0 => p[1] \in DOMAIN h /\ h[p[1]].right \in P /\ h[p[1]].left \in P
    BY HeapFacts
<1>2. \A p \in D : p[1] # 0 => /\ <<h[p[1]].right, p[1]>> \in D /\ <<h[p[1]].left, p[1]>> \in D
                               /\ SizeOf(h, h[p[1]].right) < SizeOf(h, p[1])
                               /\ SizeOf(h, h[p[1]].left) < SizeOf(h, p[1])
    BY <1>1, HeapFacts
<1>3. \E f : f = [p \in D |-> Body(f, p)]
    <2>1. NoNodes \in V
        BY PartsFacts DEF NoNodes
    <2>2. G \in [[D -> V] -> [D -> V]]
        <3> SUFFICES ASSUME NEW f \in [D -> V], NEW p \in D
                     PROVE  Body(f, p) \in V
            OBVIOUS
        <3>1. CASE p[1] = 0
            BY <2>1, <3>1
        <3>2. CASE p[1] # 0
            <4>1. f[<<h[p[1]].right, p[1]>>] \in V /\ f[<<h[p[1]].left, p[1]>>] \in V
                <5> HIDE DEF V, D
                <5> QED
                    BY <1>2, <3>2
            <4>2. p[1] \in DOMAIN h /\ p[2] \in Nat /\ h[p[1]] \in NodeIn(DOMAIN h \cup {0})
                BY <1>1, <3>2, HeapFacts DEF HeapOk, Pointers
            <4>3. CloneOver(h[p[1]], p[1], p[2], f[<<h[p[1]].left, p[1]>>], f[<<h[p[1]].right, p[1]>>]) \in V
                <5> HIDE DEF D
                <5> QED
                    BY <4>1, <4>2, CloneOverType
            <4> QED
                BY <3>2, <4>3
        <3> QED
            BY <3>1, <3>2
    <2>3. mu \in [D -> Nat] /\ \E N \in Nat : \A p \in D : mu[p] <= N
        <3>1. \A p \in D : SizeOf(h, p[1]) \in Nat /\ SizeOf(h, p[1]) <= Cardinality(DOMAIN h)
            BY <1>1, HeapFacts
        <3>2. Cardinality(DOMAIN h) \in Nat
            BY HeapFacts
        <3> QED
            BY <3>1, <3>2
    <2>4. \A p \in D : p[1] # 0 => mu[<<h[p[1]].right, p[1]>>] < mu[p] /\ mu[<<h[p[1]].left, p[1]>>] < mu[p]
        BY <1>2
    <2>5. V # {}
        BY <2>1
    <2>6. Contracts(G, D, V, mu)
        <3> HIDE DEF V, mu, D
        <3> QED
            BY <1>2, <2>2, <2>3, <2>4, <2>5 DEF Contracts
    <2>7. \E f \in [D -> V] : f = G[f]
        <3> HIDE DEF G, V, mu
        <3> QED
            BY <2>6, FixedPoint
    <2> HIDE DEF V
    <2> QED
        BY <2>7
<1>4. fix = [p \in D |-> Body(fix, p)]
    BY <1>3 DEF CloneOver
<1>5. \A n, parent : Clone(h, n, parent) = fix[<<n, parent>>]
    BY DEF Clone
<1> HIDE DEF fix
<1>6. ASSUME NEW n \in P, NEW parent \in P
      PROVE  Clone(h, n, parent) =
                IF n = 0 THEN NoNodes
                ELSE CloneOver(h[n], n, parent, Clone(h, h[n].left, n), Clone(h, h[n].right, n))
    <2> DEFINE p == <<n, parent>>
    <2>1. p \in D /\ p[1] = n /\ p[2] = parent
        OBVIOUS
    <2>2. fix[p] = Body(fix, p)
        <3> HIDE DEF D, p, Body
        <3> QED
            BY <1>4, <2>1
    <2>3. Clone(h, h[p[1]].left, p[1]) = fix[<<h[p[1]].left, p[1]>>]
        BY <1>5
    <2>4. Clone(h, h[p[1]].right, p[1]) = fix[<<h[p[1]].right, p[1]>>]
        BY <1>5
    <2>5. Clone(h, n, parent) = fix[p]
        BY <1>5
    <2> HIDE DEF p
    <2> QED
        BY <2>1, <2>2, <2>3, <2>4, <2>5
<1>7. ASSUME NEW n \in DOMAIN h, NEW parent \in P
      PROVE  Clone(h, n, parent) = CloneOver(h[n], n, parent, Clone(h, h[n].left, n), Clone(h, h[n].right, n))
    <2>1. n # 0 /\ n \in P
        BY HeapFacts
    <2> HIDE DEF P
    <2> QED
        BY <1>6, <2>1
<1>8. \A parent \in P : Clone(h, 0, parent) = NoNodes
    <2>1. 0 \in P
        BY HeapFacts
    <2> HIDE DEF P
    <2> QED
        BY <1>6, <2>1
<1> QED
    BY <1>7, <1>8

\* The recursive Erase is what its equation says.
LEMMA EraseEq ==
    ASSUME NEW h, HeapOk(h), Graded(h)
    PROVE  \A m \in DOMAIN h :
              EraseLeftmost(h, m) = IF h[m].left = 0 THEN Freed(h, m)
                                    ELSE Relinked(EraseLeftmost(h, h[m].left), m)
<1> DEFINE D == DOMAIN h
<1> DEFINE Body(f, m) == IF h[m].left = 0 THEN Freed(h, m) ELSE Relinked(f[h[m].left], m)
<1> DEFINE fix == CHOOSE f : f = [m \in DOMAIN h |->
                      IF h[m].left = 0 THEN Freed(h, m) ELSE Relinked(f[h[m].left], m)]
<1> DEFINE Upto(n) == \E f : \A m \in D : h[m].size < n => f[m] = Body(f, m)
<1>1. \A m \in D : /\ h[m].size \in Nat /\ h[m].size <= Cardinality(D)
                   /\ h[m].left # 0 => h[m].left \in D /\ h[h[m].left].size < h[m].size
    BY HeapFacts
<1>2. Upto(0)
    BY <1>1
<1>3. \A n \in Nat : Upto(n) => Upto(n + 1)
    <2> SUFFICES ASSUME NEW n \in Nat, NEW f, \A m \in D : h[m].size < n => f[m] = Body(f, m)
                 PROVE  Upto(n + 1)
        OBVIOUS
    <2> DEFINE g == [m \in D |-> Body(f, m)]
    <2>1. \A m \in D : h[m].size < n + 1 => g[m] = Body(g, m)
        <3> SUFFICES ASSUME NEW m \in D, h[m].size < n + 1
                     PROVE  g[m] = Body(g, m)
            OBVIOUS
        <3>1. g[m] = Body(f, m)
            OBVIOUS
        <3>2. CASE h[m].left = 0
            BY <3>1, <3>2
        <3>3. CASE h[m].left # 0
            <4>1. h[m].left \in D /\ h[h[m].left].size < n
                BY <1>1, <3>3
            <4>2. g[h[m].left] = f[h[m].left]
                BY <4>1
            <4> QED
                BY <3>1, <3>3, <4>2
        <3> QED
            BY <3>2, <3>3
    <2> HIDE DEF g
    <2> QED
        BY <2>1
<1>4. Upto(Cardinality(D) + 1)
    <2> DEFINE Good == {n \in Nat : Upto(n)}
    <2>1. \A n \in Nat : n \in Good <=> Upto(n)
        <3> HIDE DEF Upto
        <3> QED
            OBVIOUS
    <2>2. 0 \in Good /\ \A n \in Nat : n \in Good => n + 1 \in Good
        <3> HIDE DEF Upto, Good
        <3> QED
            BY <1>2, <1>3, <2>1
    <2>3. Nat \subseteq Good
        <3> HIDE DEF Good
        <3> QED
            BY <2>2, Counting
    <2>4. Cardinality(D) + 1 \in Nat
        BY HeapFacts
    <2> HIDE DEF Upto, Good
    <2> QED
        BY <2>1, <2>3, <2>4
<1>5. \E f : f = [m \in D |-> Body(f, m)]
    <2>1. PICK f : \A m \in D : h[m].size < Cardinality(D) + 1 => f[m] = Body(f, m)
        BY <1>4
    <2> DEFINE g == [m \in D |-> f[m]]
    <2>2. \A m \in D : f[m] = Body(f, m)
        BY <1>1, <2>1, HeapFacts
    <2>3. \A m \in D : Body(g, m) = Body(f, m)
        BY <1>1
    <2>4. g = [m \in D |-> Body(g, m)]
        BY <2>2, <2>3
    <2> QED
        BY <2>4
<1>6. fix = [m \in D |-> Body(fix, m)]
    BY <1>5
<1>7. \A m : EraseLeftmost(h, m) = fix[m]
    BY DEF EraseLeftmost
<1> HIDE DEF fix
<1> QED
    BY <1>6, <1>7

\* The queries, in the heap of the state.
LEMMA FindEq ==
    ASSUME HeapOk(heap), Graded(heap), NEW key \in Nat
    PROVE  \E find : /\ Find(key) = find[root] /\ find[0] = 0
                     /\ \A n \in DOMAIN heap :
                           find[n] = IF n = key THEN n
                                     ELSE IF key < n THEN find[heap[n].left] ELSE find[heap[n].right]
<1> DEFINE D == Pointers(heap)
<1> DEFINE Body(f, n) == IF n = 0 \/ n = key THEN n ELSE f[IF key < n THEN heap[n].left ELSE heap[n].right]
<1> DEFINE G == [f \in [D -> D] |-> [m \in D |-> Body(f, m)]]
<1> DEFINE fix == CHOOSE find : find = [n \in Pointers(heap) |->
                      IF n = 0 \/ n = key THEN n
                      ELSE find[IF key < n THEN heap[n].left ELSE heap[n].right]]
<1>1. \E f : f = [m \in D |-> Body(f, m)]
    <2>1. G \in [[D -> D] -> [D -> D]] /\ D # {}
        BY HeapFacts
    <2>2. Descends(G, heap, D)
        BY <2>1, HeapFacts DEF Descends
    <2>3. \E f \in [D -> D] : f = G[f]
        <3> HIDE DEF G
        <3> QED
            BY <2>2, PointerFixedPoint
    <2> QED
        BY <2>3
<1>2. fix = [m \in D |-> Body(fix, m)]
    BY <1>1
<1>3. Find(key) = fix[root]
    BY DEF Find
<1> HIDE DEF fix
<1>4. \A n \in DOMAIN heap : fix[n] = IF n = key THEN n
                                     ELSE IF key < n THEN fix[heap[n].left] ELSE fix[heap[n].right]
    BY <1>2, HeapFacts
<1>5. fix[0] = 0
    BY <1>2, HeapFacts
<1> QED
    BY <1>3, <1>4, <1>5

LEMMA OrderOfKeyEq ==
    ASSUME HeapOk(heap), Graded(heap), NEW key \in Nat
    PROVE  \E rank : /\ OrderOfKey(key) = rank[root] /\ rank[0] = 0
                     /\ \A n \in DOMAIN heap :
                           rank[n] = IF n < key THEN SizeOf(heap, heap[n].left) + 1 + rank[heap[n].right]
                                     ELSE rank[heap[n].left]
<1> DEFINE D == Pointers(heap)
<1> DEFINE Body(f, n) == IF n = 0 THEN 0
                         ELSE IF n < key THEN SizeOf(heap, heap[n].left) + 1 + f[heap[n].right]
                         ELSE f[heap[n].left]
<1> DEFINE G == [f \in [D -> Nat] |-> [m \in D |-> Body(f, m)]]
<1> DEFINE fix == CHOOSE rank : rank = [n \in Pointers(heap) |->
                      IF n = 0 THEN 0
                      ELSE IF n < key THEN SizeOf(heap, heap[n].left) + 1 + rank[heap[n].right]
                      ELSE rank[heap[n].left]]
<1>1. \E f : f = [m \in D |-> Body(f, m)]
    <2>1. G \in [[D -> Nat] -> [D -> Nat]]
        BY HeapFacts
    <2>2. Descends(G, heap, Nat)
        BY <2>1, HeapFacts DEF Descends
    <2>3. \E f \in [D -> Nat] : f = G[f]
        <3> HIDE DEF G
        <3> QED
            BY <2>2, PointerFixedPoint
    <2> QED
        BY <2>3
<1>2. fix = [m \in D |-> Body(fix, m)]
    BY <1>1
<1>3. OrderOfKey(key) = fix[root]
    BY DEF OrderOfKey
<1> HIDE DEF fix
<1>4. 0 \in D /\ \A m \in DOMAIN heap : m \in D /\ m # 0
    BY HeapFacts
<1>5. \A m \in D : fix[m] = Body(fix, m)
    BY <1>2
<1>6. fix[0] = 0
    BY <1>4, <1>5
<1>7. \A n \in DOMAIN heap : fix[n] = IF n < key THEN SizeOf(heap, heap[n].left) + 1 + fix[heap[n].right]
                                     ELSE fix[heap[n].left]
    BY <1>4, <1>5
<1> QED
    BY <1>3, <1>6, <1>7

LEMMA BoundEq ==
    ASSUME HeapOk(heap), Graded(heap), NEW key \in Nat, NEW strict \in BOOLEAN
    PROVE  \E bound : /\ Bound(key, strict) = bound[<<root, 0>>]
                      /\ \A best \in Pointers(heap) : bound[<<0, best>>] = best
                      /\ \A n \in DOMAIN heap : \A best \in Pointers(heap) :
                            bound[<<n, best>>] =
                                IF n < key \/ (strict /\ n = key) THEN bound[<<heap[n].right, best>>]
                                ELSE bound[<<heap[n].left, n>>]
<1> DEFINE P == Pointers(heap)
<1> DEFINE D == P \X P
<1> DEFINE Body(f, p) == IF p[1] = 0 THEN p[2]
                         ELSE IF p[1] < key \/ (strict /\ p[1] = key) THEN f[<<heap[p[1]].right, p[2]>>]
                         ELSE f[<<heap[p[1]].left, p[1]>>]
<1> DEFINE G == [f \in [D -> P] |-> [m \in D |-> Body(f, m)]]
<1> DEFINE fix == CHOOSE bound : bound = [p \in Pointers(heap) \X Pointers(heap) |->
                      IF p[1] = 0 THEN p[2]
                      ELSE IF p[1] < key \/ (strict /\ p[1] = key) THEN bound[<<heap[p[1]].right, p[2]>>]
                      ELSE bound[<<heap[p[1]].left, p[1]>>]]
<1> DEFINE mu == [p \in D |-> SizeOf(heap, p[1])]
<1>1. \A p \in D : /\ p[1] \in P /\ p[2] \in P
                   /\ p[1] # 0 => /\ <<heap[p[1]].right, p[2]>> \in D /\ <<heap[p[1]].left, p[1]>> \in D
                                  /\ SizeOf(heap, heap[p[1]].right) < SizeOf(heap, p[1])
                                  /\ SizeOf(heap, heap[p[1]].left) < SizeOf(heap, p[1])
    BY HeapFacts
<1>2. \E f : f = [m \in D |-> Body(f, m)]
    <2>1. G \in [[D -> P] -> [D -> P]]
        <3> HIDE DEF P, D
        <3> QED
            BY <1>1
    <2>2. mu \in [D -> Nat] /\ \E N \in Nat : \A p \in D : mu[p] <= N
        <3>1. \A p \in D : SizeOf(heap, p[1]) \in Nat /\ SizeOf(heap, p[1]) <= Cardinality(DOMAIN heap)
            BY <1>1, HeapFacts
        <3>2. Cardinality(DOMAIN heap) \in Nat
            BY HeapFacts
        <3> QED
            BY <3>1, <3>2
    <2>3. \A p \in D : p[1] # 0 => mu[<<heap[p[1]].right, p[2]>>] < mu[p] /\ mu[<<heap[p[1]].left, p[1]>>] < mu[p]
        BY <1>1
    <2>4. P # {}
        BY HeapFacts
    <2>5. Contracts(G, D, P, mu)
        <3> HIDE DEF P, mu, D
        <3> QED
            BY <1>1, <2>1, <2>2, <2>3, <2>4 DEF Contracts
    <2>6. \E f \in [D -> P] : f = G[f]
        <3> HIDE DEF G, P, mu, D
        <3> QED
            BY <2>5, FixedPoint
    <2> QED
        BY <2>6
<1>3. fix = [m \in D |-> Body(fix, m)]
    BY <1>2
<1>4. Bound(key, strict) = fix[<<root, 0>>]
    BY DEF Bound
<1> HIDE DEF fix
<1>5. \A n, best \in P : fix[<<n, best>>] =
          IF n = 0 THEN best
          ELSE IF n < key \/ (strict /\ n = key) THEN fix[<<heap[n].right, best>>]
          ELSE fix[<<heap[n].left, n>>]
    <2> SUFFICES ASSUME NEW n \in P, NEW best \in P
                 PROVE  fix[<<n, best>>] =
                            IF n = 0 THEN best
                            ELSE IF n < key \/ (strict /\ n = key) THEN fix[<<heap[n].right, best>>]
                            ELSE fix[<<heap[n].left, n>>]
        OBVIOUS
    <2> DEFINE p == <<n, best>>
    <2>1. p \in D /\ p[1] = n /\ p[2] = best
        OBVIOUS
    <2>2. fix[p] = Body(fix, p)
        <3> HIDE DEF D, p, Body
        <3> QED
            BY <1>3, <2>1
    <2> HIDE DEF p
    <2>3. fix[p] = IF n = 0 THEN best
                   ELSE IF n < key \/ (strict /\ n = key) THEN fix[<<heap[n].right, best>>]
                   ELSE fix[<<heap[n].left, n>>]
        BY <2>1, <2>2
    <2> QED
        BY <2>3 DEF p
<1>6. \A best \in P : fix[<<0, best>>] = best
    <2>1. 0 \in P
        BY HeapFacts
    <2> HIDE DEF P
    <2> QED
        BY <1>5, <2>1
<1>7. \A n \in DOMAIN heap : \A best \in P :
          fix[<<n, best>>] = IF n < key \/ (strict /\ n = key) THEN fix[<<heap[n].right, best>>]
                             ELSE fix[<<heap[n].left, n>>]
    <2>1. \A n \in DOMAIN heap : n \in P /\ n # 0
        BY HeapFacts
    <2> HIDE DEF P
    <2> QED
        BY <1>5, <2>1
<1> HIDE DEF P
<1> QED
    BY <1>4, <1>6, <1>7 DEF P

LEMMA FindByOrderEq ==
    ASSUME HeapOk(heap), Graded(heap)
    PROVE  \E find : /\ \A k \in Nat : FindByOrder(k) = find[<<root, k>>] /\ find[<<0, k>>] = 0
                     /\ \A n \in DOMAIN heap : \A k \in Nat :
                           LET left == SizeOf(heap, heap[n].left) IN
                           find[<<n, k>>] = IF k < left THEN find[<<heap[n].left, k>>]
                                            ELSE IF k = left THEN n
                                            ELSE find[<<heap[n].right, k - (left + 1)>>]
<1> DEFINE P == Pointers(heap)
<1> DEFINE D == P \X Nat
<1> DEFINE Left(n) == SizeOf(heap, heap[n].left)
<1> DEFINE Body(f, p) == IF p[1] = 0 THEN 0
                         ELSE IF p[2] < Left(p[1]) THEN f[<<heap[p[1]].left, p[2]>>]
                         ELSE IF p[2] = Left(p[1]) THEN p[1]
                         ELSE f[<<heap[p[1]].right, p[2] - (Left(p[1]) + 1)>>]
<1> DEFINE G == [f \in [D -> P] |-> [m \in D |-> Body(f, m)]]
<1> DEFINE fix == CHOOSE find : find = [p \in Pointers(heap) \X Nat |->
                      IF p[1] = 0 THEN 0
                      ELSE LET left == SizeOf(heap, heap[p[1]].left)
                           IN  IF p[2] < left THEN find[<<heap[p[1]].left, p[2]>>]
                               ELSE IF p[2] = left THEN p[1]
                               ELSE find[<<heap[p[1]].right, p[2] - (left + 1)>>]]
<1> DEFINE mu == [p \in D |-> SizeOf(heap, p[1])]
<1>1. \A p \in D : /\ p[1] \in P /\ p[2] \in Nat /\ 0 \in P
                   /\ p[1] # 0 =>
                         /\ Left(p[1]) \in Nat
                         /\ <<heap[p[1]].left, p[2]>> \in D
                         /\ ~(p[2] < Left(p[1])) /\ p[2] # Left(p[1]) =>
                               <<heap[p[1]].right, p[2] - (Left(p[1]) + 1)>> \in D
                         /\ SizeOf(heap, heap[p[1]].right) < SizeOf(heap, p[1])
                         /\ SizeOf(heap, heap[p[1]].left) < SizeOf(heap, p[1])
    BY HeapFacts
<1>2. \E f : f = [m \in D |-> Body(f, m)]
    <2>1. G \in [[D -> P] -> [D -> P]]
        <3> HIDE DEF P, D, Left
        <3> QED
            BY <1>1
    <2>2. mu \in [D -> Nat] /\ \E N \in Nat : \A p \in D : mu[p] <= N
        <3>1. \A p \in D : SizeOf(heap, p[1]) \in Nat /\ SizeOf(heap, p[1]) <= Cardinality(DOMAIN heap)
            BY <1>1, HeapFacts
        <3>2. Cardinality(DOMAIN heap) \in Nat
            BY HeapFacts
        <3> QED
            BY <3>1, <3>2
    <2>3. \A p \in D : p[1] # 0 =>
              /\ mu[<<heap[p[1]].left, p[2]>>] < mu[p]
              /\ ~(p[2] < Left(p[1])) /\ p[2] # Left(p[1]) =>
                    mu[<<heap[p[1]].right, p[2] - (Left(p[1]) + 1)>>] < mu[p]
        <3> HIDE DEF D, P, Left
        <3>1. \A p, q \in D : SizeOf(heap, p[1]) < SizeOf(heap, q[1]) => mu[p] < mu[q]
            OBVIOUS
        <3>2. \A n, k : <<n, k>>[1] = n
            OBVIOUS
        <3> HIDE DEF mu
        <3> QED
            BY <1>1, <3>1, <3>2
    <2>4. P # {}
        BY HeapFacts
    <2>5. Contracts(G, D, P, mu)
        <3> HIDE DEF P, mu, D, Left
        <3> QED
            BY <1>1, <2>1, <2>2, <2>3, <2>4 DEF Contracts
    <2>6. \E f \in [D -> P] : f = G[f]
        <3> HIDE DEF G, P, mu, D
        <3> QED
            BY <2>5, FixedPoint
    <2> QED
        BY <2>6
<1>3. fix = [m \in D |-> Body(fix, m)]
    BY <1>2
<1>4. \A k : FindByOrder(k) = fix[<<root, k>>]
    BY DEF FindByOrder
<1> HIDE DEF fix
<1>5. ASSUME NEW n \in P, NEW k \in Nat
      PROVE  fix[<<n, k>>] = IF n = 0 THEN 0
                             ELSE IF k < Left(n) THEN fix[<<heap[n].left, k>>]
                             ELSE IF k = Left(n) THEN n
                             ELSE fix[<<heap[n].right, k - (Left(n) + 1)>>]
    <2> DEFINE p == <<n, k>>
    <2>1. p \in D /\ p[1] = n /\ p[2] = k
        OBVIOUS
    <2>2. fix[p] = Body(fix, p)
        <3> HIDE DEF D, p, Body
        <3> QED
            BY <1>3, <2>1
    <2> HIDE DEF p, Left
    <2>3. fix[p] = IF n = 0 THEN 0
                   ELSE IF k < Left(n) THEN fix[<<heap[n].left, k>>]
                   ELSE IF k = Left(n) THEN n
                   ELSE fix[<<heap[n].right, k - (Left(n) + 1)>>]
        BY <2>1, <2>2
    <2> QED
        BY <2>3 DEF p
<1>6. \A k \in Nat : FindByOrder(k) = fix[<<root, k>>] /\ fix[<<0, k>>] = 0
    <2>1. 0 \in P
        BY HeapFacts
    <2> HIDE DEF P
    <2> QED
        BY <1>4, <1>5, <2>1
<1>7. ASSUME NEW n \in DOMAIN heap, NEW k \in Nat
      PROVE  fix[<<n, k>>] = IF k < Left(n) THEN fix[<<heap[n].left, k>>]
                             ELSE IF k = Left(n) THEN n
                             ELSE fix[<<heap[n].right, k - (Left(n) + 1)>>]
    <2>1. n \in P /\ n # 0
        BY HeapFacts
    <2> HIDE DEF P, Left
    <2> QED
        BY <1>5, <2>1
<1> QED
    BY <1>6, <1>7

-----------------------------------------------------------------------------
(* OrderTree: what a tree in the heap is, and what leaves it one.           *)

\* T says of pointers what nodes hang on them, and the heap bears it out.
BearsOut(h, T) ==
    \A n, U : <<n, U>> \in T =>
        \/ n = 0 /\ U = {}
        \/ /\ n \in U /\ U \subseteq DOMAIN h
           /\ h[n].size = Cardinality(U)
           /\ <<h[n].left, LowerOf(U, n)>> \in T /\ <<h[n].right, UpperOf(U, n)>> \in T
           /\ \A c \in {h[n].left, h[n].right} \ {0} :
                 h[c].parent = n /\ h[c].priority <= h[n].priority

\* The nodes U hang on n, in order, with their sizes, parents and priorities.
TreeAt(h, n, U) == \E T : BearsOut(h, T) /\ <<n, U>> \in T

LooseOn(D) == [D -> NodeIn(Nat)]

LEMMA TreeNone == ASSUME NEW h PROVE TreeAt(h, 0, {})
<1> DEFINE T == {<<0, {}>>}
<1>1. \A n, U : <<n, U>> \in T => n = 0 /\ U = {}
    OBVIOUS
<1>2. BearsOut(h, T)
    BY <1>1 DEF BearsOut
<1> QED
    BY <1>2 DEF TreeAt

\* A tree that is not empty has a top, and trees on both sides of it.
LEMMA TreeParts ==
    ASSUME NEW D, Ground(D), NEW h \in LooseOn(D), NEW n, NEW U, TreeAt(h, n, U)
    PROVE  /\ U \subseteq D /\ n \in D \cup {0} /\ (n = 0 <=> U = {})
           /\ n # 0 => /\ n \in U /\ n \in D /\ h[n].size = Cardinality(U)
                       /\ TreeAt(h, h[n].left, LowerOf(U, n)) /\ TreeAt(h, h[n].right, UpperOf(U, n))
                       /\ \A c \in {h[n].left, h[n].right} \ {0} :
                             h[c].parent = n /\ h[c].priority <= h[n].priority
<1>1. PICK T : BearsOut(h, T) /\ <<n, U>> \in T
    BY DEF TreeAt
<1>2. DOMAIN h = D /\ 0 \notin D
    BY DEF LooseOn, Ground
<1>3. CASE n = 0 /\ U = {}
    BY <1>3
<1>4. CASE ~(n = 0 /\ U = {})
    <2>1. /\ n \in U /\ U \subseteq D /\ h[n].size = Cardinality(U)
          /\ <<h[n].left, LowerOf(U, n)>> \in T /\ <<h[n].right, UpperOf(U, n)>> \in T
          /\ \A c \in {h[n].left, h[n].right} \ {0} : h[c].parent = n /\ h[c].priority <= h[n].priority
        BY <1>1, <1>2, <1>4 DEF BearsOut
    <2>2. TreeAt(h, h[n].left, LowerOf(U, n)) /\ TreeAt(h, h[n].right, UpperOf(U, n))
        BY <1>1, <2>1 DEF TreeAt
    <2> QED
        BY <1>2, <2>1, <2>2
<1> QED
    BY <1>3, <1>4

\* A node with trees on both sides of its key, lower in priority, is a tree.
LEMMA TreeMake ==
    ASSUME NEW D, Ground(D), NEW h \in LooseOn(D), NEW n \in D, NEW L, NEW R,
           TreeAt(h, h[n].left, L), TreeAt(h, h[n].right, R),
           \A k \in L : k < n, \A k \in R : n < k,
           h[n].size = 1 + SizeOf(h, h[n].left) + SizeOf(h, h[n].right),
           \A c \in {h[n].left, h[n].right} \ {0} : h[c].parent = n /\ h[c].priority <= h[n].priority
    PROVE  TreeAt(h, n, L \cup {n} \cup R)
<1> DEFINE U == L \cup {n} \cup R
<1>1. DOMAIN h = D /\ D \subseteq Nat
    BY DEF LooseOn, Ground
<1>2. /\ L \subseteq D /\ SizeOf(h, h[n].left) = Cardinality(L)
      /\ R \subseteq D /\ SizeOf(h, h[n].right) = Cardinality(R)
    <2>1. Cardinality({}) = 0
        BY FS_EmptySet
    <2>2. L \subseteq D /\ (h[n].left = 0 <=> L = {}) /\ (h[n].left # 0 => h[h[n].left].size = Cardinality(L))
        BY TreeParts
    <2>3. R \subseteq D /\ (h[n].right = 0 <=> R = {}) /\ (h[n].right # 0 => h[h[n].right].size = Cardinality(R))
        BY TreeParts
    <2> QED
        BY <2>1, <2>2, <2>3 DEF SizeOf
<1>3. LowerOf(U, n) = L /\ UpperOf(U, n) = R
    BY <1>1, <1>2, SidesAre
<1>4. IsFiniteSet(U) /\ U \subseteq Nat /\ n \in U /\ U \subseteq D
    <2>1. U \subseteq D
        BY <1>2
    <2> QED
        BY <1>1, <2>1, FS_Subset DEF Ground
<1>5. h[n].size = Cardinality(U)
    <2> HIDE DEF U
    <2> QED
        BY <1>2, <1>3, <1>4, SidesSize
<1>6. PICK A : BearsOut(h, A) /\ <<h[n].left, L>> \in A
    BY DEF TreeAt
<1>7. PICK B : BearsOut(h, B) /\ <<h[n].right, R>> \in B
    BY DEF TreeAt
<1> DEFINE T == A \cup B \cup {<<n, U>>}
<1>8. BearsOut(h, T)
    <2> SUFFICES ASSUME NEW m, NEW V, <<m, V>> \in T
                 PROVE  \/ m = 0 /\ V = {}
                        \/ /\ m \in V /\ V \subseteq DOMAIN h
                           /\ h[m].size = Cardinality(V)
                           /\ <<h[m].left, LowerOf(V, m)>> \in T /\ <<h[m].right, UpperOf(V, m)>> \in T
                           /\ \A c \in {h[m].left, h[m].right} \ {0} :
                                 h[c].parent = m /\ h[c].priority <= h[m].priority
        BY DEF BearsOut
    <2>1. CASE <<m, V>> \in A
        BY <1>6, <2>1 DEF BearsOut
    <2>2. CASE <<m, V>> \in B
        BY <1>7, <2>2 DEF BearsOut
    <2>3. CASE m = n /\ V = U
        <3> HIDE DEF U
        <3> QED
            BY <1>1, <1>3, <1>4, <1>5, <1>6, <1>7, <2>3
    <2> QED
        BY <2>1, <2>2, <2>3
<1> QED
    BY <1>8 DEF TreeAt

\* A heap that differs only elsewhere, or in the parent of n, has the same tree on n.
SameTree(h, g, n, U) ==
    /\ \A k \in U : /\ g[k].priority = h[k].priority /\ g[k].size = h[k].size
                    /\ g[k].left = h[k].left /\ g[k].right = h[k].right
    /\ \A k \in U \ {n} : g[k].parent = h[k].parent

\* What leaves the nodes of a tree alone leaves it a tree.
LEMMA TreeFrame ==
    ASSUME NEW D, Ground(D), NEW h \in LooseOn(D), NEW n, NEW U, TreeAt(h, n, U),
           NEW E, NEW g \in LooseOn(E), U \subseteq E, SameTree(h, g, n, U)
    PROVE  TreeAt(g, n, U)
<1>1. PICK A : BearsOut(h, A) /\ <<n, U>> \in A
    BY DEF TreeAt
<1> DEFINE T == {p \in A : p = <<n, U>> \/ p[2] \subseteq U \ {n}}
<1>2. \A m, V : <<m, V>> \in T <=> <<m, V>> \in A /\ ((m = n /\ V = U) \/ V \subseteq U \ {n})
    OBVIOUS
<1>3. DOMAIN h = D /\ DOMAIN g = E /\ D \subseteq Nat \ {0}
    BY DEF LooseOn, Ground
<1> HIDE DEF T
<1>4. BearsOut(g, T)
    <2> SUFFICES ASSUME NEW m, NEW V, <<m, V>> \in T, ~(m = 0 /\ V = {})
                 PROVE  /\ m \in V /\ V \subseteq DOMAIN g
                        /\ g[m].size = Cardinality(V)
                        /\ <<g[m].left, LowerOf(V, m)>> \in T /\ <<g[m].right, UpperOf(V, m)>> \in T
                        /\ \A c \in {g[m].left, g[m].right} \ {0} :
                              g[c].parent = m /\ g[c].priority <= g[m].priority
        BY DEF BearsOut
    <2>1. <<m, V>> \in A /\ ((m = n /\ V = U) \/ V \subseteq U \ {n})
        BY <1>2
    <2>2. /\ m \in V /\ V \subseteq D /\ h[m].size = Cardinality(V)
          /\ <<h[m].left, LowerOf(V, m)>> \in A /\ <<h[m].right, UpperOf(V, m)>> \in A
          /\ \A c \in {h[m].left, h[m].right} \ {0} :
                h[c].parent = m /\ h[c].priority <= h[m].priority
        BY <1>1, <1>3, <2>1 DEF BearsOut
    <2>3. V \subseteq U
        BY <1>1, <1>3, <2>1, <2>2
    <2>4. g[m].left = h[m].left /\ g[m].right = h[m].right /\ g[m].size = h[m].size /\ g[m].priority = h[m].priority
        BY <2>2, <2>3 DEF SameTree
    <2>5. n \in V => m = n
        BY <2>1, <2>2
    <2>6. LowerOf(V, m) \subseteq U \ {n} /\ UpperOf(V, m) \subseteq U \ {n}
        <3>1. V \subseteq Nat /\ m \in Nat
            BY <1>3, <2>2
        <3>2. LowerOf(V, m) \subseteq V \ {m} /\ UpperOf(V, m) \subseteq V \ {m}
            BY <3>1, SideSets
        <3> QED
            BY <2>3, <2>5, <3>2
    <2>7. <<h[m].left, LowerOf(V, m)>> \in T /\ <<h[m].right, UpperOf(V, m)>> \in T
        BY <1>2, <2>2, <2>6
    <2>8. /\ h[m].left # 0 => h[m].left \in LowerOf(V, m)
          /\ h[m].right # 0 => h[m].right \in UpperOf(V, m)
        BY <1>1, <2>2 DEF BearsOut
    <2>9. \A c \in {h[m].left, h[m].right} \ {0} : g[c].parent = h[c].parent /\ g[c].priority = h[c].priority
        BY <2>6, <2>8 DEF SameTree
    <2> QED
        BY <1>3, <2>2, <2>3, <2>4, <2>7, <2>9
<1>5. <<n, U>> \in T
    BY <1>1, <1>2
<1> QED
    BY <1>4, <1>5 DEF TreeAt

\* What holds of no node, and of a node when it holds of its two sides, holds of every tree.
LEMMA TreeInduction ==
    ASSUME NEW D, Ground(D), NEW h \in LooseOn(D), NEW Good,
           <<0, {}>> \in Good,
           \A n, U : ( /\ TreeAt(h, n, U) /\ n # 0
                       /\ <<h[n].left, LowerOf(U, n)>> \in Good
                       /\ <<h[n].right, UpperOf(U, n)>> \in Good )
                     => <<n, U>> \in Good
    PROVE  \A n, U : TreeAt(h, n, U) => <<n, U>> \in Good
<1> SUFFICES ASSUME NEW n0, NEW U0, TreeAt(h, n0, U0), <<n0, U0>> \notin Good
             PROVE  FALSE
    OBVIOUS
<1> DEFINE Bad == {k \in Nat : \E n, U : TreeAt(h, n, U) /\ <<n, U>> \notin Good /\ k = Cardinality(U)}
<1>1. \A n, U : TreeAt(h, n, U) => IsFiniteSet(U) /\ Cardinality(U) \in Nat /\ U \subseteq Nat
    <2> SUFFICES ASSUME NEW n, NEW U, TreeAt(h, n, U)
                 PROVE  IsFiniteSet(U) /\ Cardinality(U) \in Nat /\ U \subseteq Nat
        OBVIOUS
    <2>1. U \subseteq D
        BY TreeParts
    <2>2. IsFiniteSet(U)
        BY <2>1, FS_Subset DEF Ground
    <2> QED
        BY <2>1, <2>2, FS_CardinalityType DEF Ground
<1>2. Bad # {}
    BY <1>1
<1>3. PICK k \in Bad : \A j \in Bad : k <= j
    <2>1. Bad \in SUBSET Nat
        OBVIOUS
    <2> HIDE DEF Bad
    <2> QED
        BY <1>2, <2>1, LeastNumber
<1>4. PICK n, U : TreeAt(h, n, U) /\ <<n, U>> \notin Good /\ k = Cardinality(U)
    BY <1>3
<1>5. n # 0 /\ n \in U /\ TreeAt(h, h[n].left, LowerOf(U, n)) /\ TreeAt(h, h[n].right, UpperOf(U, n))
    BY <1>4, TreeParts
<1>6. Cardinality(LowerOf(U, n)) < Cardinality(U) /\ Cardinality(UpperOf(U, n)) < Cardinality(U)
    BY <1>1, <1>4, <1>5, SidesSize
<1>7. \A m, V : TreeAt(h, m, V) /\ <<m, V>> \notin Good => Cardinality(U) <= Cardinality(V)
    BY <1>1, <1>3, <1>4
<1>8. <<h[n].left, LowerOf(U, n)>> \in Good
    <2>1. Cardinality(LowerOf(U, n)) \in Nat /\ Cardinality(U) \in Nat
        BY <1>1, <1>4, <1>5
    <2> QED
        BY <1>5, <1>6, <1>7, <2>1
<1>9. <<h[n].right, UpperOf(U, n)>> \in Good
    <2>1. Cardinality(UpperOf(U, n)) \in Nat /\ Cardinality(U) \in Nat
        BY <1>1, <1>4, <1>5
    <2> QED
        BY <1>5, <1>6, <1>7, <2>1
<1> QED
    BY <1>4, <1>5, <1>8, <1>9

LEMMA TreeSides ==
    ASSUME NEW D, Ground(D), NEW h \in LooseOn(D), NEW n, NEW U, TreeAt(h, n, U), n # 0
    PROVE  /\ U \subseteq Nat /\ n \in Nat
           /\ LowerOf(U, n) \subseteq U \ {n} /\ UpperOf(U, n) \subseteq U \ {n}
           /\ \A k \in U : k = n \/ k \in LowerOf(U, n) \/ k \in UpperOf(U, n)
           /\ \A k \in LowerOf(U, n) : k \notin UpperOf(U, n) /\ k < n
           /\ \A k \in UpperOf(U, n) : n < k
<1>1. U \subseteq Nat /\ n \in Nat
    BY TreeParts DEF Ground
<1>2. /\ LowerOf(U, n) \subseteq U \ {n} /\ UpperOf(U, n) \subseteq U \ {n}
      /\ U \ {n} = LowerOf(U, n) \cup UpperOf(U, n)
      /\ LowerOf(U, n) \cap UpperOf(U, n) = {}
    BY <1>1, SideSets
<1>3. (\A k \in LowerOf(U, n) : k < n) /\ (\A k \in UpperOf(U, n) : n < k)
    BY DEF LowerOf, UpperOf
<1> QED
    BY <1>1, <1>2, <1>3

\* No node of a tree has a higher priority than its top.
LEMMA TreeTop ==
    ASSUME NEW D, Ground(D), NEW h \in LooseOn(D), NEW n, NEW U, TreeAt(h, n, U)
    PROVE  \A k \in U : h[k].priority <= h[n].priority
<1> DEFINE Good == {p \in (D \cup {0}) \X SUBSET D : \A k \in p[2] : h[k].priority <= h[p[1]].priority}
<1>1. \A m, V : <<m, V>> \in Good <=> /\ m \in D \cup {0} /\ V \in SUBSET D
                                      /\ \A k \in V : h[k].priority <= h[m].priority
    OBVIOUS
<1> HIDE DEF Good
<1>2. ASSUME NEW m, NEW V, TreeAt(h, m, V), m # 0,
             <<h[m].left, LowerOf(V, m)>> \in Good, <<h[m].right, UpperOf(V, m)>> \in Good
      PROVE  <<m, V>> \in Good
    <2>1. /\ m \in V /\ V \subseteq D
          /\ TreeAt(h, h[m].left, LowerOf(V, m)) /\ TreeAt(h, h[m].right, UpperOf(V, m))
          /\ \A c \in {h[m].left, h[m].right} \ {0} : h[c].priority <= h[m].priority
        BY <1>2, TreeParts
    <2>2. \A c \in D : h[c].priority \in Nat
        BY DEF LooseOn, NodeIn
    <2>3. ASSUME NEW k \in LowerOf(V, m) PROVE h[k].priority <= h[m].priority
        <3>1. h[m].left # 0 /\ h[m].left \in D /\ k \in D
            BY <2>1, <2>3, TreeParts
        <3>2. h[k].priority <= h[h[m].left].priority
            BY <1>1, <1>2, <2>3
        <3> QED
            BY <2>1, <2>2, <3>1, <3>2
    <2>4. ASSUME NEW k \in UpperOf(V, m) PROVE h[k].priority <= h[m].priority
        <3>1. h[m].right # 0 /\ h[m].right \in D /\ k \in D
            BY <2>1, <2>4, TreeParts
        <3>2. h[k].priority <= h[h[m].right].priority
            BY <1>1, <1>2, <2>4
        <3> QED
            BY <2>1, <2>2, <3>1, <3>2
    <2>5. \A k \in V : k = m \/ k \in LowerOf(V, m) \/ k \in UpperOf(V, m)
        BY <1>2, TreeSides
    <2>6. h[m].priority <= h[m].priority
        BY <2>1, <2>2
    <2> QED
        BY <1>1, <2>1, <2>3, <2>4, <2>5, <2>6
<1>3. <<0, {}>> \in Good
    BY <1>1
<1>4. <<n, U>> \in Good
    BY <1>2, <1>3, TreeInduction
<1> QED
    BY <1>1, <1>4

LEMMA WithParentFields ==
    ASSUME NEW D, NEW g \in LooseOn(D), NEW ns, NEW p \in Nat
    PROVE  /\ WithParent(g, ns, p) \in LooseOn(D)
           /\ \A k \in D : LET r == WithParent(g, ns, p)[k] IN
                 /\ r.priority = g[k].priority /\ r.size = g[k].size
                 /\ r.left = g[k].left /\ r.right = g[k].right
                 /\ r.parent = IF k \in ns THEN p ELSE g[k].parent
                 /\ k \notin ns => r = g[k]
    BY DEF LooseOn, WithParent, NodeIn

LEMMA RefreshFields ==
    ASSUME NEW D, Ground(D), NEW g \in LooseOn(D), NEW n \in D,
           g[n].left \in D \cup {0}, g[n].right \in D \cup {0}
    PROVE  /\ Refresh(g, n) \in LooseOn(D)
           /\ \A k \in D : LET r == Refresh(g, n)[k] IN
                 /\ r.priority = g[k].priority
                 /\ r.left = g[k].left /\ r.right = g[k].right
                 /\ r.size = IF k = n THEN 1 + SizeOf(g, g[n].left) + SizeOf(g, g[n].right) ELSE g[k].size
                 /\ r.parent = IF k \in {g[n].left, g[n].right} THEN n ELSE g[k].parent
                 /\ k \notin {n, g[n].left, g[n].right} => r = g[k]
<1> DEFINE size == 1 + SizeOf(g, g[n].left) + SizeOf(g, g[n].right)
<1> DEFINE sized == [g EXCEPT ![n].size = size]
<1>0. \A m \in D : g[m] \in NodeIn(Nat)
    BY DEF LooseOn
<1>1. size \in Nat
    <2>1. \A m \in D \cup {0} : SizeOf(g, m) \in Nat
        BY <1>0 DEF NodeIn, SizeOf
    <2>2. SizeOf(g, g[n].left) \in Nat /\ SizeOf(g, g[n].right) \in Nat
        BY <2>1, Zenon
    <2>3. \A a, b \in Nat : 1 + a + b \in Nat
        OBVIOUS
    <2> QED
        BY <2>2, <2>3
<1>2. /\ sized \in LooseOn(D) /\ sized[n] = [g[n] EXCEPT !.size = size]
      /\ \A k \in D \ {n} : sized[k] = g[k]
    <2> HIDE DEF size
    <2> QED
        BY <1>1 DEF LooseOn, NodeIn
<1>3. /\ sized[n].size = size
      /\ \A k \in D : /\ sized[k].priority = g[k].priority /\ sized[k].left = g[k].left
                      /\ sized[k].right = g[k].right /\ sized[k].parent = g[k].parent
    <2> HIDE DEF size, sized
    <2> QED
        BY <1>0, <1>2 DEF NodeIn
<1>4. Refresh(g, n) = WithParent(sized, {g[n].left, g[n].right}, n) /\ n \in Nat
    BY DEF Refresh, Ground
<1>5. \A k \in D \ {n} : sized[k].size = g[k].size
    BY <1>2
<1> HIDE DEF sized, size
<1> DEFINE ns == {g[n].left, g[n].right}
<1>6. /\ WithParent(sized, ns, n) \in LooseOn(D)
      /\ \A k \in D : LET r == WithParent(sized, ns, n)[k] IN
                 /\ r.priority = sized[k].priority /\ r.size = sized[k].size
                 /\ r.left = sized[k].left /\ r.right = sized[k].right
                 /\ r.parent = IF k \in ns THEN n ELSE sized[k].parent
                 /\ k \notin ns => r = sized[k]
    <2> HIDE DEF ns
    <2> QED
        BY <1>2, <1>4, WithParentFields
<1>7. Refresh(g, n) \in LooseOn(D)
    BY <1>4, <1>6
<1>8. ASSUME NEW k \in D
      PROVE  LET r == Refresh(g, n)[k] IN
                 /\ r.priority = g[k].priority
                 /\ r.left = g[k].left /\ r.right = g[k].right
                 /\ r.size = IF k = n THEN size ELSE g[k].size
                 /\ r.parent = IF k \in ns THEN n ELSE g[k].parent
                 /\ k \notin {n, g[n].left, g[n].right} => r = g[k]
    <2> DEFINE r == Refresh(g, n)[k]
    <2>1. /\ r.priority = sized[k].priority /\ r.size = sized[k].size
          /\ r.left = sized[k].left /\ r.right = sized[k].right
          /\ r.parent = IF k \in ns THEN n ELSE sized[k].parent
          /\ k \notin ns => r = sized[k]
        BY <1>4, <1>6
    <2>2. k \notin {n, g[n].left, g[n].right} => k \notin ns /\ k # n
        OBVIOUS
    <2> HIDE DEF r, ns
    <2>3. /\ r.priority = g[k].priority
          /\ r.left = g[k].left /\ r.right = g[k].right
          /\ r.size = IF k = n THEN size ELSE g[k].size
          /\ r.parent = IF k \in ns THEN n ELSE g[k].parent
          /\ k \notin {n, g[n].left, g[n].right} => r = g[k]
        BY <1>2, <1>3, <1>5, <2>1, <2>2
    <2> QED
        BY <2>3 DEF r
<1> QED
    BY <1>7, <1>8 DEF size

\* r is g with nothing changed outside U, and no priority at all.
Keeps(D, U, g, r) ==
    /\ g \in LooseOn(D) /\ r \in LooseOn(D)
    /\ \A k \in D : r[k].priority = g[k].priority
    /\ \A k \in D \ U : r[k] = g[k]

\* A step that touches nodes of U only keeps the trees that have none of them.
LEMMA KeepsTree ==
    ASSUME NEW D, Ground(D), NEW U, NEW g, NEW r, Keeps(D, U, g, r),
           NEW m, NEW V, TreeAt(g, m, V), V \cap U = {}
    PROVE  TreeAt(r, m, V)
<1>1. V \subseteq D /\ g \in LooseOn(D) /\ r \in LooseOn(D)
    BY TreeParts DEF Keeps
<1>2. \A k \in V : r[k] = g[k]
    BY <1>1 DEF Keeps
<1>3. SameTree(g, r, m, V)
    BY <1>2 DEF SameTree
<1> QED
    BY <1>1, <1>3, TreeFrame

LEMMA KeepsOn ==
    ASSUME NEW D, NEW U, NEW V, NEW W, NEW g, NEW r, NEW q, Keeps(D, U, g, r), Keeps(D, V, r, q),
           U \subseteq W, V \subseteq W
    PROVE  Keeps(D, W, g, q)
    BY DEF Keeps

LEMMA WithParentKeeps ==
    ASSUME NEW D, NEW g \in LooseOn(D), NEW ns, NEW p \in Nat
    PROVE  Keeps(D, ns, g, WithParent(g, ns, p))
<1> DEFINE r == WithParent(g, ns, p)
<1>1. r \in LooseOn(D) /\ \A k \in D : r[k].priority = g[k].priority /\ (k \notin ns => r[k] = g[k])
    BY WithParentFields
<1> HIDE DEF r
<1>2. Keeps(D, ns, g, r)
    BY <1>1 DEF Keeps
<1> QED
    BY <1>2 DEF r

LEMMA WithParentTree ==
    ASSUME NEW D, Ground(D), NEW g \in LooseOn(D), NEW ns, NEW p \in Nat,
           NEW m, NEW V, TreeAt(g, m, V), \A k \in V : k \in ns => k = m
    PROVE  TreeAt(WithParent(g, ns, p), m, V)
<1> DEFINE r == WithParent(g, ns, p)
<1>1. r \in LooseOn(D)
      /\ \A k \in D : /\ r[k].priority = g[k].priority /\ r[k].size = g[k].size
                      /\ r[k].left = g[k].left /\ r[k].right = g[k].right
                      /\ (k \notin ns => r[k] = g[k])
    BY WithParentFields
<1>2. V \subseteq D
    BY TreeParts
<1> HIDE DEF r
<1>3. SameTree(g, r, m, V)
    BY <1>1, <1>2 DEF SameTree
<1>4. TreeAt(r, m, V)
    BY <1>1, <1>2, <1>3, TreeFrame
<1> QED
    BY <1>4 DEF r

LEMMA LinkKeeps ==
    ASSUME NEW D, NEW g \in LooseOn(D), NEW n \in D, NEW p \in Nat
    PROVE  Keeps(D, {n}, g, [g EXCEPT ![n].left = p]) /\ Keeps(D, {n}, g, [g EXCEPT ![n].right = p])
<1> DEFINE a == [g EXCEPT ![n].left = p]
<1> DEFINE b == [g EXCEPT ![n].right = p]
<1>1. /\ a \in LooseOn(D) /\ b \in LooseOn(D)
      /\ a[n] = [g[n] EXCEPT !.left = p] /\ b[n] = [g[n] EXCEPT !.right = p]
      /\ \A k \in D \ {n} : a[k] = g[k] /\ b[k] = g[k]
    BY DEF LooseOn, NodeIn
<1> HIDE DEF a, b
<1>2. g[n] \in NodeIn(Nat)
    BY DEF LooseOn
<1>3. a[n].priority = g[n].priority /\ b[n].priority = g[n].priority
    BY <1>1, <1>2 DEF NodeIn
<1>4. Keeps(D, {n}, g, a) /\ Keeps(D, {n}, g, b)
    BY <1>1, <1>3 DEF Keeps
<1> QED
    BY <1>4 DEF a, b

\* refresh makes a tree of a node over two trees.
LEMMA RefreshTree ==
    ASSUME NEW D, Ground(D), NEW g \in LooseOn(D), NEW n \in D, NEW L, NEW R,
           TreeAt(g, g[n].left, L), TreeAt(g, g[n].right, R),
           \A k \in L : k < n, \A k \in R : n < k,
           \A c \in {g[n].left, g[n].right} \ {0} : g[c].priority <= g[n].priority
    PROVE  TreeAt(Refresh(g, n), n, L \cup {n} \cup R) /\ Keeps(D, L \cup {n} \cup R, g, Refresh(g, n))
<1> DEFINE r == Refresh(g, n)
<1> DEFINE l == g[n].left
<1> DEFINE q == g[n].right
<1>1. /\ l \in D \cup {0} /\ (l # 0 => l \in L) /\ L \subseteq D
      /\ q \in D \cup {0} /\ (q # 0 => q \in R) /\ R \subseteq D
    BY TreeParts
<1>2. /\ r \in LooseOn(D)
      /\ \A k \in D : /\ r[k].priority = g[k].priority
                      /\ r[k].left = g[k].left /\ r[k].right = g[k].right
                      /\ r[k].size = IF k = n THEN 1 + SizeOf(g, l) + SizeOf(g, q) ELSE g[k].size
                      /\ r[k].parent = IF k \in {l, q} THEN n ELSE g[k].parent
                      /\ k \notin {n, l, q} => r[k] = g[k]
    BY <1>1, RefreshFields
<1>3. n \notin L /\ n \notin R /\ L \cap R = {} /\ 0 \notin D
    <2>1. D \subseteq Nat \ {0} /\ n \in Nat
        BY DEF Ground
    <2>2. \A k \in Nat : k < n => k # n /\ ~(n < k)
        BY <2>1
    <2>3. \A k \in Nat : n < k => k # n
        BY <2>1
    <2> QED
        BY <1>1, <2>1, <2>2, <2>3
<1>4. TreeAt(g, l, L) /\ TreeAt(g, q, R)
    OBVIOUS
<1> HIDE DEF r, l, q
<1>5. SameTree(g, r, l, L)
    BY <1>1, <1>2, <1>3 DEF SameTree
<1>6. SameTree(g, r, q, R)
    BY <1>1, <1>2, <1>3 DEF SameTree
<1>7. TreeAt(r, l, L) /\ TreeAt(r, q, R)
    BY <1>1, <1>2, <1>4, <1>5, <1>6, TreeFrame
<1>8. r[n].left = l /\ r[n].right = q
    BY <1>2 DEF l, q
<1>9. r[n].size = 1 + SizeOf(r, r[n].left) + SizeOf(r, r[n].right)
    <2>1. SizeOf(r, l) = SizeOf(g, l) /\ SizeOf(r, q) = SizeOf(g, q)
        BY <1>1, <1>2, <1>3 DEF SizeOf
    <2>2. r[n].size = 1 + SizeOf(g, l) + SizeOf(g, q)
        BY <1>2
    <2> QED
        BY <1>8, <2>1, <2>2
<1>10. \A c \in {r[n].left, r[n].right} \ {0} : r[c].parent = n /\ r[c].priority <= r[n].priority
    <2>1. \A c \in {l, q} \ {0} : c \in D /\ g[c].priority <= g[n].priority
        BY <1>1 DEF l, q
    <2> QED
        BY <1>2, <1>8, <2>1
<1>11. TreeAt(r, n, L \cup {n} \cup R)
    BY <1>2, <1>7, <1>8, <1>9, <1>10, TreeMake
<1>12. Keeps(D, L \cup {n} \cup R, g, r)
    <2>1. \A k \in D \ (L \cup {n} \cup R) : k \notin {n, l, q}
        BY <1>1, <1>3
    <2> QED
        BY <1>2, <2>1 DEF Keeps
<1> QED
    BY <1>11, <1>12 DEF r

\* A node over a tree newly linked on its left.
LEMMA OverLeft ==
    ASSUME NEW D, Ground(D), NEW g \in LooseOn(D), NEW n \in D, NEW p, NEW L, NEW R,
           TreeAt(g, p, L), TreeAt(g, g[n].right, R),
           \A k \in L : k < n, \A k \in R : n < k,
           p # 0 => g[p].priority <= g[n].priority,
           g[n].right # 0 => g[g[n].right].priority <= g[n].priority,
           NEW ns, \A k \in ns : k \notin L \cup R
    PROVE  LET r == WithParent(Refresh([g EXCEPT ![n].left = p], n), ns, 0) IN
           /\ TreeAt(r, n, L \cup {n} \cup R)
           /\ Keeps(D, L \cup {n} \cup R \cup ns, g, r)
           /\ \A m, V : (TreeAt(g, m, V) /\ V \cap (L \cup {n} \cup R) = {} /\ (\A k \in V : k \in ns => k = m))
                       => TreeAt(r, m, V)
<1> DEFINE U == L \cup {n} \cup R
<1> DEFINE a == [g EXCEPT ![n].left = p]
<1> DEFINE b == Refresh(a, n)
<1> DEFINE r == WithParent(b, ns, 0)
<1>1. /\ L \subseteq D /\ p \in D \cup {0} /\ (p # 0 => p \in L) /\ R \subseteq D
      /\ D \subseteq Nat \ {0} /\ (g[n].right # 0 => g[n].right \in R)
    <2>1. L \subseteq D /\ p \in D \cup {0} /\ (p # 0 => p \in L)
        BY TreeParts
    <2>2. R \subseteq D /\ (g[n].right # 0 => g[n].right \in R)
        BY TreeParts
    <2> QED
        BY <2>1, <2>2 DEF Ground
<1>2. n \notin L /\ n \notin R /\ p \in Nat /\ n \in Nat
    <2>1. \A k \in Nat : (k < n => k # n) /\ (n < k => k # n)
        BY <1>1
    <2> QED
        BY <1>1, <2>1
<1>3. /\ a \in LooseOn(D) /\ a[n] = [g[n] EXCEPT !.left = p]
      /\ \A k \in D \ {n} : a[k] = g[k]
    BY <1>2 DEF LooseOn, NodeIn
<1>4. Keeps(D, {n}, g, a)
    BY <1>2, LinkKeeps
<1>5. g[n] \in NodeIn(Nat)
    BY DEF LooseOn
<1> HIDE DEF a
<1>6. a[n].left = p /\ a[n].right = g[n].right /\ a[n].priority = g[n].priority
    BY <1>3, <1>5 DEF NodeIn
<1>7. TreeAt(a, a[n].left, L) /\ TreeAt(a, a[n].right, R)
    BY <1>2, <1>4, <1>6, KeepsTree
<1>8. \A c \in {a[n].left, a[n].right} \ {0} : a[c].priority <= a[n].priority
    BY <1>1, <1>2, <1>3, <1>6
<1>9. TreeAt(b, n, U) /\ Keeps(D, U, a, b)
    BY <1>3, <1>7, <1>8, RefreshTree
<1>10. b \in LooseOn(D)
    BY <1>9 DEF Keeps
<1> HIDE DEF b
<1>11. Keeps(D, ns, b, r)
    BY <1>10, WithParentKeeps
<1>12. TreeAt(r, n, U)
    <2>1. \A k \in U : k \in ns => k = n
        OBVIOUS
    <2> HIDE DEF U
    <2> QED
        BY <1>9, <1>10, <2>1, WithParentTree
<1>13. Keeps(D, U \cup ns, g, r)
    <2> DEFINE W == U \cup ns
    <2>1. {n} \subseteq W /\ U \subseteq W /\ ns \subseteq W
        OBVIOUS
    <2> HIDE DEF U, r, W
    <2>2. Keeps(D, W, g, b)
        BY <1>4, <1>9, <2>1, KeepsOn
    <2>3. W \subseteq W
        OBVIOUS
    <2>4. Keeps(D, W, g, r)
        BY <1>11, <2>1, <2>2, <2>3, KeepsOn
    <2> QED
        BY <2>4 DEF W
<1>14. ASSUME NEW m, NEW V, TreeAt(g, m, V), V \cap U = {}, \A k \in V : k \in ns => k = m
       PROVE  TreeAt(r, m, V)
    <2>1. V \cap {n} = {}
        BY <1>14
    <2> HIDE DEF U
    <2>2. TreeAt(a, m, V)
        BY <1>4, <1>14, <2>1, KeepsTree
    <2>3. TreeAt(b, m, V)
        BY <1>9, <1>14, <2>2, KeepsTree
    <2> QED
        BY <1>10, <1>14, <2>3, WithParentTree
<1> HIDE DEF U, r
<1>15. /\ TreeAt(r, n, U) /\ Keeps(D, U \cup ns, g, r)
       /\ \A m, V : (TreeAt(g, m, V) /\ V \cap U = {} /\ (\A k \in V : k \in ns => k = m)) => TreeAt(r, m, V)
    BY <1>12, <1>13, <1>14
<1> QED
    BY <1>15 DEF U, r, b, a

\* A node over a tree newly linked on its right.
LEMMA OverRight ==
    ASSUME NEW D, Ground(D), NEW g \in LooseOn(D), NEW n \in D, NEW p, NEW L, NEW R,
           TreeAt(g, p, R), TreeAt(g, g[n].left, L),
           \A k \in L : k < n, \A k \in R : n < k,
           p # 0 => g[p].priority <= g[n].priority,
           g[n].left # 0 => g[g[n].left].priority <= g[n].priority,
           NEW ns, \A k \in ns : k \notin L \cup R
    PROVE  LET r == WithParent(Refresh([g EXCEPT ![n].right = p], n), ns, 0) IN
           /\ TreeAt(r, n, L \cup {n} \cup R)
           /\ Keeps(D, L \cup {n} \cup R \cup ns, g, r)
           /\ \A m, V : (TreeAt(g, m, V) /\ V \cap (L \cup {n} \cup R) = {} /\ (\A k \in V : k \in ns => k = m))
                       => TreeAt(r, m, V)
<1> DEFINE U == L \cup {n} \cup R
<1> DEFINE a == [g EXCEPT ![n].right = p]
<1> DEFINE b == Refresh(a, n)
<1> DEFINE r == WithParent(b, ns, 0)
<1>1. /\ R \subseteq D /\ p \in D \cup {0} /\ (p # 0 => p \in R) /\ L \subseteq D
      /\ D \subseteq Nat \ {0} /\ (g[n].left # 0 => g[n].left \in L)
    <2>1. R \subseteq D /\ p \in D \cup {0} /\ (p # 0 => p \in R)
        BY TreeParts
    <2>2. L \subseteq D /\ (g[n].left # 0 => g[n].left \in L)
        BY TreeParts
    <2> QED
        BY <2>1, <2>2 DEF Ground
<1>2. n \notin L /\ n \notin R /\ p \in Nat /\ n \in Nat
    <2>1. \A k \in Nat : (k < n => k # n) /\ (n < k => k # n)
        BY <1>1
    <2> QED
        BY <1>1, <2>1
<1>3. /\ a \in LooseOn(D) /\ a[n] = [g[n] EXCEPT !.right = p]
      /\ \A k \in D \ {n} : a[k] = g[k]
    BY <1>2 DEF LooseOn, NodeIn
<1>4. Keeps(D, {n}, g, a)
    BY <1>2, LinkKeeps
<1>5. g[n] \in NodeIn(Nat)
    BY DEF LooseOn
<1> HIDE DEF a
<1>6. a[n].right = p /\ a[n].left = g[n].left /\ a[n].priority = g[n].priority
    BY <1>3, <1>5 DEF NodeIn
<1>7. TreeAt(a, a[n].right, R) /\ TreeAt(a, a[n].left, L)
    BY <1>2, <1>4, <1>6, KeepsTree
<1>8. \A c \in {a[n].left, a[n].right} \ {0} : a[c].priority <= a[n].priority
    BY <1>1, <1>2, <1>3, <1>6
<1>9. TreeAt(b, n, U) /\ Keeps(D, U, a, b)
    BY <1>3, <1>7, <1>8, RefreshTree
<1>10. b \in LooseOn(D)
    BY <1>9 DEF Keeps
<1> HIDE DEF b
<1>11. Keeps(D, ns, b, r)
    BY <1>10, WithParentKeeps
<1>12. TreeAt(r, n, U)
    <2>1. \A k \in U : k \in ns => k = n
        OBVIOUS
    <2> HIDE DEF U
    <2> QED
        BY <1>9, <1>10, <2>1, WithParentTree
<1>13. Keeps(D, U \cup ns, g, r)
    <2> DEFINE W == U \cup ns
    <2>1. {n} \subseteq W /\ U \subseteq W /\ ns \subseteq W
        OBVIOUS
    <2> HIDE DEF U, r, W
    <2>2. Keeps(D, W, g, b)
        BY <1>4, <1>9, <2>1, KeepsOn
    <2>3. W \subseteq W
        OBVIOUS
    <2>4. Keeps(D, W, g, r)
        BY <1>11, <2>1, <2>2, <2>3, KeepsOn
    <2> QED
        BY <2>4 DEF W
<1>14. ASSUME NEW m, NEW V, TreeAt(g, m, V), V \cap U = {}, \A k \in V : k \in ns => k = m
       PROVE  TreeAt(r, m, V)
    <2>1. V \cap {n} = {}
        BY <1>14
    <2> HIDE DEF U
    <2>2. TreeAt(a, m, V)
        BY <1>4, <1>14, <2>1, KeepsTree
    <2>3. TreeAt(b, m, V)
        BY <1>9, <1>14, <2>2, KeepsTree
    <2> QED
        BY <1>10, <1>14, <2>3, WithParentTree
<1> HIDE DEF U, r
<1>15. /\ TreeAt(r, n, U) /\ Keeps(D, U \cup ns, g, r)
       /\ \A m, V : (TreeAt(g, m, V) /\ V \cap U = {} /\ (\A k \in V : k \in ns => k = m)) => TreeAt(r, m, V)
    BY <1>12, <1>13, <1>14
<1> QED
    BY <1>15 DEF U, r, b, a

-----------------------------------------------------------------------------
(* OrderTree: split, merge and erase leave trees.                           *)

\* What split leaves of a tree: two, of what is below the key and of the rest.
SplitInto(D, h, U, key, s) ==
    /\ Keeps(D, U, h, s.heap)
    /\ TreeAt(s.heap, s.lo, LowerOf(U, key))
    /\ TreeAt(s.heap, s.hi, FromOf(U, key))

LEMMA SplitAtTree ==
    ASSUME NEW D, Ground(D), NEW h \in LooseOn(D), NEW n, NEW U, TreeAt(h, n, U), n # 0,
           NEW key \in Nat, NEW s,
           n < key => SplitInto(D, h, UpperOf(U, n), key, s),
           ~(n < key) => SplitInto(D, h, LowerOf(U, n), key, s)
    PROVE  SplitInto(D, h, U, key, SplitAt(n, key, s))
<1> DEFINE L == LowerOf(U, n)
<1> DEFINE R == UpperOf(U, n)
<1>1. /\ n \in U /\ n \in D /\ U \subseteq D /\ TreeAt(h, h[n].left, L) /\ TreeAt(h, h[n].right, R)
      /\ \A c \in {h[n].left, h[n].right} \ {0} : h[c].priority <= h[n].priority
    BY TreeParts
<1>2. /\ U \subseteq Nat /\ n \in Nat /\ L \subseteq U \ {n} /\ R \subseteq U \ {n}
      /\ \A k \in U : k = n \/ k \in L \/ k \in R
      /\ \A k \in L : k \notin R /\ k < n
      /\ \A k \in R : n < k
    BY TreeSides
<1>3. 0 \notin D
    BY DEF Ground
<1>4. \A k \in U : h[k].priority <= h[n].priority
    BY TreeTop
<1>5. CASE n < key
    <2> DEFINE X == LowerOf(R, key)
    <2> DEFINE Y == FromOf(R, key)
    <2>1. Keeps(D, R, h, s.heap) /\ TreeAt(s.heap, s.lo, X) /\ TreeAt(s.heap, s.hi, Y)
        BY <1>5 DEF SplitInto
    <2>2. s.heap \in LooseOn(D) /\ s.heap[n] = h[n] /\ \A k \in D : s.heap[k].priority = h[k].priority
        BY <1>1, <1>2, <2>1 DEF Keeps
    <2>3. TreeAt(s.heap, s.heap[n].left, L)
        <3>1. L \cap R = {}
            BY <1>2
        <3> HIDE DEF L, R
        <3> QED
            BY <1>1, <2>1, <2>2, <3>1, KeepsTree
    <2>4. X \subseteq R /\ Y \subseteq R /\ X \cap Y = {}
        BY DEF LowerOf, FromOf
    <2> HIDE DEF L, R, X, Y
    <2>5. (s.lo # 0 => s.lo \in X) /\ (s.hi # 0 => s.hi \in Y) /\ (h[n].left # 0 => h[n].left \in L)
        <3>1. s.lo # 0 => s.lo \in X
            BY <2>1, <2>2, TreeParts
        <3>2. s.hi # 0 => s.hi \in Y
            BY <2>1, <2>2, TreeParts
        <3>3. h[n].left # 0 => h[n].left \in L
            BY <1>1, TreeParts
        <3> QED
            BY <3>1, <3>2, <3>3
    <2>6. /\ s.lo # 0 => s.heap[s.lo].priority <= s.heap[n].priority
          /\ s.heap[n].left # 0 => s.heap[s.heap[n].left].priority <= s.heap[n].priority
        BY <1>1, <1>2, <1>4, <2>2, <2>4, <2>5
    <2> DEFINE ns == {n, s.hi}
    <2>7. (\A k \in L : k < n) /\ (\A k \in X : n < k) /\ (\A k \in ns : k \notin L \cup X)
        <3>1. \A k \in X : n < k
            BY <1>2, <2>4
        <3>2. 0 \notin L \cup X
            BY <1>1, <1>2, <1>3, <2>4
        <3>3. n \notin L \cup X
            BY <1>2, <2>4
        <3>4. s.hi # 0 => s.hi \notin L \cup X
            BY <1>2, <2>4, <2>5
        <3> QED
            BY <1>2, <3>1, <3>2, <3>3, <3>4
    <2> HIDE DEF ns
    <2> DEFINE g == WithParent(Refresh([s.heap EXCEPT ![n].right = s.lo], n), ns, 0)
    <2>8. /\ TreeAt(g, n, L \cup {n} \cup X) /\ Keeps(D, L \cup {n} \cup X \cup ns, s.heap, g)
          /\ \A m, V : (TreeAt(s.heap, m, V) /\ V \cap (L \cup {n} \cup X) = {} /\ (\A k \in V : k \in ns => k = m))
                       => TreeAt(g, m, V)
        BY <1>1, <2>1, <2>2, <2>3, <2>6, <2>7, OverRight
    <2>9. SplitAt(n, key, s) = [heap |-> g, lo |-> n, hi |-> s.hi]
        BY <1>5 DEF SplitAt, ns
    <2> HIDE DEF g
    <2>10. TreeAt(g, s.hi, Y)
        <3>1. Y \cap (L \cup {n} \cup X) = {}
            BY <1>2, <2>4
        <3>2. \A k \in Y : k \in ns => k = s.hi
            BY <1>2, <2>4 DEF ns
        <3> QED
            BY <2>1, <2>8, <3>1, <3>2
    <2>11. Keeps(D, U, h, g)
        <3>1. R \subseteq U
            BY <1>2
        <3>2. \A k \in D : k \in L \cup {n} \cup X \cup ns => k \in U
            BY <1>1, <1>2, <1>3, <2>4, <2>5 DEF ns
        <3>3. Keeps(D, U, s.heap, g)
            BY <2>8, <3>2 DEF Keeps
        <3>4. U \subseteq U
            OBVIOUS
        <3> QED
            BY <2>1, <3>1, <3>3, <3>4, KeepsOn
    <2>12. LowerOf(U, key) = L \cup {n} \cup X /\ FromOf(U, key) = Y
        <3>1. U \subseteq Nat /\ n \in U
            BY <1>1, <1>2
        <3>2. /\ LowerOf(U, key) = LowerOf(U, n) \cup {n} \cup LowerOf(UpperOf(U, n), key)
              /\ FromOf(U, key) = FromOf(UpperOf(U, n), key)
            BY <1>5, <3>1, SplitBelow
        <3> QED
            BY <3>2 DEF L, R, X, Y
    <2> QED
        BY <2>8, <2>9, <2>10, <2>11, <2>12 DEF SplitInto
<1>6. CASE ~(n < key)
    <2> DEFINE X == LowerOf(L, key)
    <2> DEFINE Y == FromOf(L, key)
    <2>1. Keeps(D, L, h, s.heap) /\ TreeAt(s.heap, s.lo, X) /\ TreeAt(s.heap, s.hi, Y)
        BY <1>6 DEF SplitInto
    <2>2. s.heap \in LooseOn(D) /\ s.heap[n] = h[n] /\ \A k \in D : s.heap[k].priority = h[k].priority
        BY <1>1, <1>2, <2>1 DEF Keeps
    <2>3. TreeAt(s.heap, s.heap[n].right, R)
        <3>1. R \cap L = {}
            BY <1>2
        <3> HIDE DEF L, R
        <3> QED
            BY <1>1, <2>1, <2>2, <3>1, KeepsTree
    <2>4. X \subseteq L /\ Y \subseteq L /\ X \cap Y = {}
        BY DEF LowerOf, FromOf
    <2> HIDE DEF L, R, X, Y
    <2>5. (s.lo # 0 => s.lo \in X) /\ (s.hi # 0 => s.hi \in Y) /\ (h[n].right # 0 => h[n].right \in R)
        <3>1. s.lo # 0 => s.lo \in X
            BY <2>1, <2>2, TreeParts
        <3>2. s.hi # 0 => s.hi \in Y
            BY <2>1, <2>2, TreeParts
        <3>3. h[n].right # 0 => h[n].right \in R
            BY <1>1, TreeParts
        <3> QED
            BY <3>1, <3>2, <3>3
    <2>6. /\ s.hi # 0 => s.heap[s.hi].priority <= s.heap[n].priority
          /\ s.heap[n].right # 0 => s.heap[s.heap[n].right].priority <= s.heap[n].priority
        BY <1>1, <1>2, <1>4, <2>2, <2>4, <2>5
    <2> DEFINE ns == {s.lo, n}
    <2>7. (\A k \in Y : k < n) /\ (\A k \in R : n < k) /\ (\A k \in ns : k \notin Y \cup R)
        <3>1. \A k \in Y : k < n
            BY <1>2, <2>4
        <3>2. 0 \notin Y \cup R
            BY <1>1, <1>2, <1>3, <2>4
        <3>3. n \notin Y \cup R
            BY <1>2, <2>4
        <3>4. s.lo # 0 => s.lo \notin Y \cup R
            BY <1>2, <2>4, <2>5
        <3> QED
            BY <1>2, <3>1, <3>2, <3>3, <3>4
    <2> HIDE DEF ns
    <2> DEFINE g == WithParent(Refresh([s.heap EXCEPT ![n].left = s.hi], n), ns, 0)
    <2>8. /\ TreeAt(g, n, Y \cup {n} \cup R) /\ Keeps(D, Y \cup {n} \cup R \cup ns, s.heap, g)
          /\ \A m, V : (TreeAt(s.heap, m, V) /\ V \cap (Y \cup {n} \cup R) = {} /\ (\A k \in V : k \in ns => k = m))
                       => TreeAt(g, m, V)
        BY <1>1, <2>1, <2>2, <2>3, <2>6, <2>7, OverLeft
    <2>9. SplitAt(n, key, s) = [heap |-> g, lo |-> s.lo, hi |-> n]
        BY <1>6 DEF SplitAt, ns
    <2> HIDE DEF g
    <2>10. TreeAt(g, s.lo, X)
        <3>1. X \cap (Y \cup {n} \cup R) = {}
            BY <1>2, <2>4
        <3>2. \A k \in X : k \in ns => k = s.lo
            BY <1>2, <2>4 DEF ns
        <3> QED
            BY <2>1, <2>8, <3>1, <3>2
    <2>11. Keeps(D, U, h, g)
        <3>1. L \subseteq U
            BY <1>2
        <3>2. \A k \in D : k \in Y \cup {n} \cup R \cup ns => k \in U
            BY <1>1, <1>2, <1>3, <2>4, <2>5 DEF ns
        <3>3. Keeps(D, U, s.heap, g)
            BY <2>8, <3>2 DEF Keeps
        <3>4. U \subseteq U
            OBVIOUS
        <3> QED
            BY <2>1, <3>1, <3>3, <3>4, KeepsOn
    <2>12. FromOf(U, key) = Y \cup {n} \cup R /\ LowerOf(U, key) = X
        <3>1. U \subseteq Nat /\ n \in U
            BY <1>1, <1>2
        <3>2. /\ FromOf(U, key) = FromOf(LowerOf(U, n), key) \cup {n} \cup UpperOf(U, n)
              /\ LowerOf(U, key) = LowerOf(LowerOf(U, n), key)
            BY <1>6, <3>1, SplitAbove
        <3> QED
            BY <3>2 DEF L, R, X, Y
    <2> QED
        BY <2>8, <2>9, <2>10, <2>11, <2>12 DEF SplitInto
<1> QED
    BY <1>5, <1>6

LEMMA KeepsSame ==
    ASSUME NEW D, NEW g \in LooseOn(D), NEW U
    PROVE  Keeps(D, U, g, g)
    BY DEF Keeps

LEMMA HeapIsLoose ==
    ASSUME NEW h, HeapOk(h)
    PROVE  Ground(DOMAIN h) /\ h \in LooseOn(DOMAIN h)
<1>1. \A m \in DOMAIN h : h[m] \in NodeIn(Nat)
    BY DEF HeapOk, NodeIn, Pointers
<1> QED
    BY <1>1 DEF HeapOk, Ground, LooseOn

\* split leaves two trees, of the keys below and of the others, and no other node changes.
LEMMA SplitTree ==
    ASSUME NEW h, HeapOk(h), Graded(h), NEW key \in Nat, NEW n, NEW U, TreeAt(h, n, U)
    PROVE  SplitInto(DOMAIN h, h, U, key, Split(h, n, key))
<1> DEFINE D == DOMAIN h
<1>1. Ground(D) /\ h \in LooseOn(D)
    BY HeapIsLoose
<1> DEFINE Good == {p \in (D \cup {0}) \X SUBSET D : SplitInto(D, h, p[2], key, Split(h, p[1], key))}
<1>2. \A m, V : <<m, V>> \in Good <=> m \in D \cup {0} /\ V \in SUBSET D /\ SplitInto(D, h, V, key, Split(h, m, key))
    OBVIOUS
<1> HIDE DEF Good
<1>3. <<0, {}>> \in Good
    <2>1. Split(h, 0, key) = [heap |-> h, lo |-> 0, hi |-> 0]
        BY SplitEq
    <2>2. LowerOf({}, key) = {} /\ FromOf({}, key) = {}
        BY DEF LowerOf, FromOf
    <2>3. SplitInto(D, h, {}, key, Split(h, 0, key))
        BY <1>1, <2>1, <2>2, TreeNone, KeepsSame DEF SplitInto
    <2> QED
        BY <1>2, <2>3
<1>4. ASSUME NEW m, NEW V, TreeAt(h, m, V), m # 0,
             <<h[m].left, LowerOf(V, m)>> \in Good, <<h[m].right, UpperOf(V, m)>> \in Good
      PROVE  <<m, V>> \in Good
    <2>1. m \in D /\ V \subseteq D
        BY <1>1, <1>4, TreeParts
    <2> DEFINE s == Split(h, IF m < key THEN h[m].right ELSE h[m].left, key)
    <2>2. Split(h, m, key) = SplitAt(m, key, s)
        BY <2>1, SplitEq
    <2>3. m < key => SplitInto(D, h, UpperOf(V, m), key, s)
        BY <1>2, <1>4
    <2>4. ~(m < key) => SplitInto(D, h, LowerOf(V, m), key, s)
        BY <1>2, <1>4
    <2> HIDE DEF s, D
    <2>5. SplitInto(D, h, V, key, SplitAt(m, key, s))
        BY <1>1, <1>4, <2>3, <2>4, SplitAtTree
    <2> QED
        BY <1>2, <2>1, <2>2, <2>5
<1> HIDE DEF D
<1>5. <<n, U>> \in Good
    BY <1>1, <1>3, <1>4, TreeInduction
<1> QED
    BY <1>2, <1>5 DEF D

\* What merge leaves of two trees: one, of the nodes of both.
MergedInto(D, h, W, m) == Keeps(D, W, h, m.heap) /\ TreeAt(m.heap, m.root, W)

LEMMA LoOverTree ==
    ASSUME NEW D, Ground(D), NEW h \in LooseOn(D), NEW n, NEW U, TreeAt(h, n, U), n # 0,
           NEW V, V \subseteq D, \A k \in U, j \in V : k < j,
           \A k \in V : h[k].priority <= h[n].priority,
           NEW m, MergedInto(D, h, UpperOf(U, n) \cup V, m)
    PROVE  MergedInto(D, h, U \cup V, LoOver(m, n))
<1> DEFINE L == LowerOf(U, n)
<1> DEFINE R == UpperOf(U, n) \cup V
<1>1. /\ n \in U /\ n \in D /\ U \subseteq D /\ TreeAt(h, h[n].left, L)
      /\ \A c \in {h[n].left, h[n].right} \ {0} : h[c].priority <= h[n].priority
    BY TreeParts
<1>2. /\ U \subseteq Nat /\ n \in Nat /\ L \subseteq U \ {n} /\ UpperOf(U, n) \subseteq U \ {n}
      /\ \A k \in U : k = n \/ k \in L \/ k \in UpperOf(U, n)
      /\ \A k \in L : k \notin UpperOf(U, n) /\ k < n
      /\ \A k \in UpperOf(U, n) : n < k
    BY TreeSides
<1>3. \A k \in U : h[k].priority <= h[n].priority
    BY TreeTop
<1>4. U \cap V = {}
    <2>1. \A k \in Nat : ~(k < k)
        OBVIOUS
    <2> QED
        BY <1>2, <2>1
<1>5. Keeps(D, R, h, m.heap) /\ TreeAt(m.heap, m.root, R)
    BY DEF MergedInto
<1>6. n \notin R /\ L \cap R = {} /\ \A k \in R : n < k
    BY <1>1, <1>2, <1>4
<1>7. \A k \in R : k \in D /\ h[k].priority <= h[n].priority
    BY <1>1, <1>2, <1>3
<1>8. L \cup {n} \cup R = U \cup V
    BY <1>1, <1>2
<1> HIDE DEF L, R
<1>9. m.heap \in LooseOn(D) /\ m.heap[n] = h[n] /\ \A k \in D : m.heap[k].priority = h[k].priority
    BY <1>1, <1>5, <1>6 DEF Keeps
<1>10. TreeAt(m.heap, m.heap[n].left, L)
    BY <1>1, <1>5, <1>6, <1>9, KeepsTree
<1>11. /\ m.root # 0 => m.heap[m.root].priority <= m.heap[n].priority
       /\ m.heap[n].left # 0 => m.heap[m.heap[n].left].priority <= m.heap[n].priority
    <2>1. m.root # 0 => m.root \in R
        BY <1>5, <1>9, TreeParts
    <2>2. h[n].left # 0 => h[n].left \in L
        BY <1>1, TreeParts
    <2> QED
        BY <1>1, <1>2, <1>7, <1>9, <2>1, <2>2
<1> DEFINE ns == {n}
<1>12. (\A k \in L : k < n) /\ (\A k \in ns : k \notin L \cup R)
    BY <1>2, <1>6
<1> DEFINE g == WithParent(Refresh([m.heap EXCEPT ![n].right = m.root], n), ns, 0)
<1>13. TreeAt(g, n, L \cup {n} \cup R) /\ Keeps(D, L \cup {n} \cup R \cup ns, m.heap, g)
    <2> HIDE DEF ns
    <2> QED
        BY <1>1, <1>5, <1>6, <1>9, <1>10, <1>11, <1>12, OverRight
<1>14. LoOver(m, n) = [heap |-> g, root |-> n]
    BY DEF LoOver
<1>15. Keeps(D, U \cup V, h, g)
    <2> DEFINE W == U \cup V
    <2>1. L \cup {n} \cup R \cup ns = W /\ R \subseteq W /\ W \subseteq W
        BY <1>1, <1>8
    <2> HIDE DEF g, ns, W
    <2>2. Keeps(D, W, h, g)
        BY <1>5, <1>13, <2>1, KeepsOn
    <2> QED
        BY <2>2 DEF W
<1> HIDE DEF g
<1>16. TreeAt(g, n, U \cup V)
    BY <1>8, <1>13
<1> QED
    BY <1>14, <1>15, <1>16 DEF MergedInto

LEMMA HiOverTree ==
    ASSUME NEW D, Ground(D), NEW h \in LooseOn(D), NEW n, NEW V, TreeAt(h, n, V), n # 0,
           NEW U, U \subseteq D, \A k \in U, j \in V : k < j,
           \A k \in U : h[k].priority <= h[n].priority,
           NEW m, MergedInto(D, h, U \cup LowerOf(V, n), m)
    PROVE  MergedInto(D, h, U \cup V, HiOver(m, n))
<1> DEFINE L == U \cup LowerOf(V, n)
<1> DEFINE R == UpperOf(V, n)
<1>1. /\ n \in V /\ n \in D /\ V \subseteq D /\ TreeAt(h, h[n].right, R)
      /\ \A c \in {h[n].left, h[n].right} \ {0} : h[c].priority <= h[n].priority
    BY TreeParts
<1>2. /\ V \subseteq Nat /\ n \in Nat /\ R \subseteq V \ {n} /\ LowerOf(V, n) \subseteq V \ {n}
      /\ \A k \in V : k = n \/ k \in LowerOf(V, n) \/ k \in R
      /\ \A k \in LowerOf(V, n) : k \notin R /\ k < n
      /\ \A k \in R : n < k
    BY TreeSides
<1>3. \A k \in V : h[k].priority <= h[n].priority
    BY TreeTop
<1>4. U \cap V = {}
    <2>1. \A k \in Nat : ~(k < k)
        OBVIOUS
    <2> QED
        BY <1>2, <2>1
<1>5. Keeps(D, L, h, m.heap) /\ TreeAt(m.heap, m.root, L)
    BY DEF MergedInto
<1>6. n \notin L /\ R \cap L = {} /\ \A k \in L : k < n
    BY <1>1, <1>2, <1>4
<1>7. \A k \in L : k \in D /\ h[k].priority <= h[n].priority
    BY <1>1, <1>2, <1>3
<1>8. L \cup {n} \cup R = U \cup V
    BY <1>1, <1>2
<1> HIDE DEF L, R
<1>9. m.heap \in LooseOn(D) /\ m.heap[n] = h[n] /\ \A k \in D : m.heap[k].priority = h[k].priority
    BY <1>1, <1>5, <1>6 DEF Keeps
<1>10. TreeAt(m.heap, m.heap[n].right, R)
    BY <1>1, <1>5, <1>6, <1>9, KeepsTree
<1>11. /\ m.root # 0 => m.heap[m.root].priority <= m.heap[n].priority
       /\ m.heap[n].right # 0 => m.heap[m.heap[n].right].priority <= m.heap[n].priority
    <2>1. m.root # 0 => m.root \in L
        BY <1>5, <1>9, TreeParts
    <2>2. h[n].right # 0 => h[n].right \in R
        BY <1>1, TreeParts
    <2> QED
        BY <1>1, <1>2, <1>7, <1>9, <2>1, <2>2
<1> DEFINE ns == {n}
<1>12. (\A k \in R : n < k) /\ (\A k \in ns : k \notin L \cup R)
    BY <1>2, <1>6
<1> DEFINE g == WithParent(Refresh([m.heap EXCEPT ![n].left = m.root], n), ns, 0)
<1>13. TreeAt(g, n, L \cup {n} \cup R) /\ Keeps(D, L \cup {n} \cup R \cup ns, m.heap, g)
    <2> HIDE DEF ns
    <2> QED
        BY <1>1, <1>5, <1>6, <1>9, <1>10, <1>11, <1>12, OverLeft
<1>14. HiOver(m, n) = [heap |-> g, root |-> n]
    BY DEF HiOver
<1>15. Keeps(D, U \cup V, h, g)
    <2> DEFINE W == U \cup V
    <2>1. L \cup {n} \cup R \cup ns = W /\ L \subseteq W /\ W \subseteq W
        BY <1>1, <1>8
    <2> HIDE DEF g, ns, W
    <2>2. Keeps(D, W, h, g)
        BY <1>5, <1>13, <2>1, KeepsOn
    <2> QED
        BY <2>2 DEF W
<1> HIDE DEF g
<1>16. TreeAt(g, n, U \cup V)
    BY <1>8, <1>13
<1> QED
    BY <1>14, <1>15, <1>16 DEF MergedInto

\* Two trees, one wholly below the other.
Ordered(U, V) == \A k \in U, j \in V : k < j

\* merge makes one tree of two, the keys of the first below those of the second.
LEMMA MergeTree ==
    ASSUME NEW h, HeapOk(h), Graded(h), NEW a, NEW U, TreeAt(h, a, U), NEW b, NEW V, TreeAt(h, b, V),
           Ordered(U, V)
    PROVE  MergedInto(DOMAIN h, h, U \cup V, Merge(h, a, b))
<1> DEFINE D == DOMAIN h
<1>1. Ground(D) /\ h \in LooseOn(D) /\ Pointers(h) = D \cup {0} /\ 0 \notin D
    BY HeapIsLoose, HeapFacts DEF Pointers
<1> DEFINE Merges(m, W) == \A n, X : TreeAt(h, n, X) /\ Ordered(W, X) => MergedInto(D, h, W \cup X, Merge(h, m, n))
<1> DEFINE Good == {p \in (D \cup {0}) \X SUBSET D : Merges(p[1], p[2])}
<1>2. \A m, W : <<m, W>> \in Good <=> m \in D \cup {0} /\ W \in SUBSET D /\ Merges(m, W)
    <2> HIDE DEF Merges, D
    <2> QED
        OBVIOUS
<1> HIDE DEF Good
<1>3. <<0, {}>> \in Good
    <2>1. ASSUME NEW n, NEW X, TreeAt(h, n, X)
          PROVE  MergedInto(D, h, {} \cup X, Merge(h, 0, n))
        <3>1. n \in Pointers(h)
            BY <1>1, <2>1, TreeParts
        <3>2. Merge(h, 0, n) = [heap |-> h, root |-> n]
            BY <3>1, MergeEq
        <3>3. {} \cup X = X
            OBVIOUS
        <3>4. Keeps(D, X, h, h)
            BY <1>1, KeepsSame
        <3> QED
            BY <2>1, <3>2, <3>3, <3>4 DEF MergedInto
    <2>2. Merges(0, {})
        BY <2>1
    <2> HIDE DEF Merges, D
    <2> QED
        BY <1>2, <2>2
<1>4. ASSUME NEW m, NEW W, TreeAt(h, m, W), m # 0,
             <<h[m].left, LowerOf(W, m)>> \in Good, <<h[m].right, UpperOf(W, m)>> \in Good
      PROVE  <<m, W>> \in Good
    <2>1. m \in D /\ W \subseteq D /\ m \in W /\ \A k \in W : h[k].priority <= h[m].priority
        BY <1>1, <1>4, TreeParts, TreeTop
    <2>2. Merges(h[m].right, UpperOf(W, m))
        BY <1>2, <1>4
    <2> DEFINE MergesUnder(n, X) == Ordered(W, X) => MergedInto(D, h, W \cup X, Merge(h, m, n))
    <2> DEFINE Fine == {p \in (D \cup {0}) \X SUBSET D : MergesUnder(p[1], p[2])}
    <2>3. \A n, X : <<n, X>> \in Fine <=> n \in D \cup {0} /\ X \in SUBSET D /\ MergesUnder(n, X)
        <3> HIDE DEF MergesUnder, D
        <3> QED
            OBVIOUS
    <2> HIDE DEF Fine
    <2>4. <<0, {}>> \in Fine
        <3>1. Merge(h, m, 0) = [heap |-> h, root |-> m]
            BY <1>1, <1>4, <2>1, MergeEq
        <3>2. W \cup {} = W
            OBVIOUS
        <3>3. Keeps(D, W, h, h)
            BY <1>1, KeepsSame
        <3>4. MergesUnder(0, {})
            BY <1>4, <3>1, <3>2, <3>3 DEF MergedInto
        <3> HIDE DEF MergesUnder, D
        <3> QED
            BY <2>3, <3>4
    <2>5. ASSUME NEW n, NEW X, TreeAt(h, n, X), n # 0,
                 <<h[n].left, LowerOf(X, n)>> \in Fine, <<h[n].right, UpperOf(X, n)>> \in Fine
          PROVE  <<n, X>> \in Fine
        <3>1. n \in D /\ X \subseteq D /\ n \in X /\ \A k \in X : h[k].priority <= h[n].priority
            BY <1>1, <2>5, TreeParts, TreeTop
        <3>2. \A k \in D : h[k].priority \in Nat
            BY <1>1 DEF LooseOn, NodeIn
        <3>3. SUFFICES ASSUME Ordered(W, X) PROVE MergedInto(D, h, W \cup X, Merge(h, m, n))
            BY <2>3, <3>1
        <3>4. /\ \A k \in W, j \in X : k < j
              /\ UpperOf(W, m) \subseteq W /\ LowerOf(X, n) \subseteq X
            BY <3>3 DEF Ordered, UpperOf, LowerOf
        <3>5. Merge(h, m, n) = IF h[m].priority > h[n].priority
                               THEN LoOver(Merge(h, h[m].right, n), m)
                               ELSE HiOver(Merge(h, m, h[n].left), n)
            BY <2>1, <3>1, MergeEq
        <3>6. CASE h[m].priority > h[n].priority
            <4>1. Ordered(UpperOf(W, m), X)
                BY <3>4 DEF Ordered
            <4>2. MergedInto(D, h, UpperOf(W, m) \cup X, Merge(h, h[m].right, n))
                BY <2>2, <2>5, <4>1
            <4>3. \A k \in X : h[k].priority <= h[m].priority
                BY <2>1, <3>1, <3>2, <3>6
            <4>4. MergedInto(D, h, W \cup X, LoOver(Merge(h, h[m].right, n), m))
                <5> DEFINE q == Merge(h, h[m].right, n)
                <5> HIDE DEF D, q
                <5>1. MergedInto(D, h, UpperOf(W, m) \cup X, q)
                    BY <4>2 DEF q
                <5>2. MergedInto(D, h, W \cup X, LoOver(q, m))
                    BY <1>1, <1>4, <3>1, <3>4, <4>3, <5>1, LoOverTree
                <5> QED
                    BY <5>2 DEF q
            <4> QED
                BY <3>5, <3>6, <4>4
        <3>7. CASE ~(h[m].priority > h[n].priority)
            <4>1. Ordered(W, LowerOf(X, n))
                BY <3>4 DEF Ordered
            <4>2. MergedInto(D, h, W \cup LowerOf(X, n), Merge(h, m, h[n].left))
                BY <2>3, <2>5, <4>1
            <4>3. \A k \in W : h[k].priority <= h[n].priority
                BY <2>1, <3>1, <3>2, <3>7
            <4>4. MergedInto(D, h, W \cup X, HiOver(Merge(h, m, h[n].left), n))
                <5> DEFINE q == Merge(h, m, h[n].left)
                <5> HIDE DEF D, q
                <5>1. MergedInto(D, h, W \cup LowerOf(X, n), q)
                    BY <4>2 DEF q
                <5>2. MergedInto(D, h, W \cup X, HiOver(q, n))
                    BY <1>1, <2>1, <2>5, <3>4, <4>3, <5>1, HiOverTree
                <5> QED
                    BY <5>2 DEF q
            <4> QED
                BY <3>5, <3>7, <4>4
        <3> QED
            BY <3>6, <3>7
    <2>6. ASSUME NEW n, NEW X, TreeAt(h, n, X), Ordered(W, X)
          PROVE  MergedInto(D, h, W \cup X, Merge(h, m, n))
        <3> HIDE DEF D
        <3>1. <<n, X>> \in Fine
            BY <1>1, <2>4, <2>5, <2>6, TreeInduction
        <3> QED
            BY <2>3, <2>6, <3>1
    <2>7. Merges(m, W)
        BY <2>6
    <2> HIDE DEF Merges, D
    <2> QED
        BY <1>2, <2>1, <2>7
<1>5. <<a, U>> \in Good
    <2> HIDE DEF D, Merges
    <2> QED
        BY <1>1, <1>3, <1>4, TreeInduction
<1>6. Merges(a, U)
    <2> HIDE DEF D, Merges
    <2> QED
        BY <1>2, <1>5
<1> QED
    BY <1>6

LEMMA LeastIs ==
    ASSUME NEW U, U \subseteq Nat, NEW x, IsLeast(U, x)
    PROVE  x = Least(U)
<1>1. CASE U = {}
    BY <1>1 DEF IsLeast, Least
<1>2. CASE U # {}
    <2>1. x \in U /\ \A j \in U : x <= j
        BY <1>2 DEF IsLeast
    <2> DEFINE y == Least(U)
    <2>2. y \in U /\ \A j \in U : y <= j
        BY <1>2, <2>1 DEF Least
    <2> HIDE DEF y
    <2>3. x <= y /\ y <= x /\ x \in Nat /\ y \in Nat
        BY <2>1, <2>2
    <2>4. x = y
        BY <2>3
    <2> QED
        BY <2>4 DEF y
<1> QED
    BY <1>1, <1>2

LEMMA GreatestIs ==
    ASSUME NEW U, U \subseteq Nat, NEW x, IsGreatest(U, x)
    PROVE  x = Greatest(U)
<1>1. CASE U = {}
    BY <1>1 DEF IsGreatest, Greatest
<1>2. CASE U # {}
    <2>1. x \in U /\ \A j \in U : j <= x
        BY <1>2 DEF IsGreatest
    <2> DEFINE y == Greatest(U)
    <2>2. y \in U /\ \A j \in U : j <= y
        BY <1>2, <2>1 DEF Greatest
    <2> HIDE DEF y
    <2>3. x <= y /\ y <= x /\ x \in Nat /\ y \in Nat
        BY <2>1, <2>2
    <2>4. x = y
        BY <2>3
    <2> QED
        BY <2>4 DEF y
<1> QED
    BY <1>1, <1>2

\* Every node of a tree has a tree of its own in it.
LEMMA Subtree ==
    ASSUME NEW D, Ground(D), NEW h \in LooseOn(D), NEW n, NEW U, TreeAt(h, n, U)
    PROVE  \A k \in U : \E V \in SUBSET U : TreeAt(h, k, V)
<1> DEFINE Has(V) == \A k \in V : \E W \in SUBSET V : TreeAt(h, k, W)
<1> DEFINE Good == {p \in (D \cup {0}) \X SUBSET D : Has(p[2])}
<1>1. \A m, V : <<m, V>> \in Good <=> m \in D \cup {0} /\ V \in SUBSET D /\ Has(V)
    <2> HIDE DEF Has
    <2> QED
        OBVIOUS
<1> HIDE DEF Good
<1>2. <<0, {}>> \in Good
    BY <1>1
<1>3. ASSUME NEW m, NEW V, TreeAt(h, m, V), m # 0,
             <<h[m].left, LowerOf(V, m)>> \in Good, <<h[m].right, UpperOf(V, m)>> \in Good
      PROVE  <<m, V>> \in Good
    <2>1. m \in D /\ V \subseteq D
        BY <1>3, TreeParts
    <2>2. /\ LowerOf(V, m) \subseteq V /\ UpperOf(V, m) \subseteq V
          /\ \A k \in V : k = m \/ k \in LowerOf(V, m) \/ k \in UpperOf(V, m)
        BY <1>3, TreeSides
    <2>3. Has(LowerOf(V, m)) /\ Has(UpperOf(V, m))
        <3> HIDE DEF Has
        <3> QED
            BY <1>1, <1>3
    <2>4. Has(V)
        BY <1>3, <2>2, <2>3
    <2> HIDE DEF Has
    <2> QED
        BY <1>1, <2>1, <2>4
<1>4. <<n, U>> \in Good
    BY <1>2, <1>3, TreeInduction
<1>5. Has(U)
    <2> HIDE DEF Has
    <2> QED
        BY <1>1, <1>4
<1> QED
    BY <1>5

LEMMA TreeSize ==
    ASSUME NEW D, Ground(D), NEW h \in LooseOn(D), NEW n, NEW U, TreeAt(h, n, U)
    PROVE  SizeOf(h, n) = Cardinality(U)
<1>1. Cardinality({}) = 0
    BY FS_EmptySet
<1> QED
    BY <1>1, TreeParts DEF SizeOf

\* Sizes and pointers are in order when every node is in a tree.
LEMMA ForestGraded ==
    ASSUME NEW D, Ground(D), NEW h \in LooseOn(D),
           \A m \in D : \E n, U : TreeAt(h, n, U) /\ m \in U
    PROVE  HeapOk(h) /\ Graded(h) /\ DOMAIN h = D
<1>1. DOMAIN h = D /\ \A m \in D : h[m] \in NodeIn(Nat)
    BY DEF LooseOn
<1>2. ASSUME NEW m \in D
      PROVE  /\ h[m].left \in D \cup {0} /\ h[m].right \in D \cup {0}
             /\ h[m].size <= Cardinality(D)
             /\ SizeOf(h, h[m].left) < h[m].size /\ SizeOf(h, h[m].right) < h[m].size
    <2>1. PICK V : TreeAt(h, m, V)
        BY <1>2, Subtree
    <2>2. m # 0 /\ 0 \notin D
        BY DEF Ground
    <2>3. /\ m \in V /\ V \subseteq D /\ h[m].size = Cardinality(V)
          /\ TreeAt(h, h[m].left, LowerOf(V, m)) /\ TreeAt(h, h[m].right, UpperOf(V, m))
        BY <2>1, <2>2, TreeParts
    <2>4. IsFiniteSet(V) /\ V \subseteq Nat /\ Cardinality(V) <= Cardinality(D)
        BY <2>3, GroundSubset
    <2>5. /\ Cardinality(LowerOf(V, m)) \in Nat /\ Cardinality(UpperOf(V, m)) \in Nat /\ Cardinality(V) \in Nat
          /\ Cardinality(V) = 1 + Cardinality(LowerOf(V, m)) + Cardinality(UpperOf(V, m))
        BY <2>3, <2>4, SidesSize
    <2>6. SizeOf(h, h[m].left) = Cardinality(LowerOf(V, m)) /\ SizeOf(h, h[m].right) = Cardinality(UpperOf(V, m))
        BY <2>3, TreeSize
    <2>7. h[m].left \in D \cup {0} /\ h[m].right \in D \cup {0}
        BY <2>3, TreeParts
    <2>8. Cardinality(LowerOf(V, m)) < Cardinality(V) /\ Cardinality(UpperOf(V, m)) < Cardinality(V)
        BY <2>5
    <2> QED
        BY <2>3, <2>4, <2>6, <2>7, <2>8
<1>3. Graded(h)
    BY <1>1, <1>2 DEF Graded
<1>4. \A m \in D : h[m] \in NodeIn(Pointers(h))
    BY <1>1, <1>2 DEF NodeIn, Pointers
<1>5. HeapOk(h)
    BY <1>1, <1>4 DEF HeapOk, Ground, LooseOn
<1> QED
    BY <1>1, <1>3, <1>5

\* begin is the least key of a tree.
LEMMA LeftmostTree ==
    ASSUME NEW h, HeapOk(h), Graded(h), NEW n, NEW U, TreeAt(h, n, U)
    PROVE  IsLeast(U, Leftmost(h, n))
<1> DEFINE D == DOMAIN h
<1>1. Ground(D) /\ h \in LooseOn(D)
    BY HeapIsLoose
<1> DEFINE Good == {p \in (D \cup {0}) \X SUBSET D : IsLeast(p[2], Leftmost(h, p[1]))}
<1>2. \A m, V : <<m, V>> \in Good <=> m \in D \cup {0} /\ V \in SUBSET D /\ IsLeast(V, Leftmost(h, m))
    OBVIOUS
<1> HIDE DEF Good
<1>3. <<0, {}>> \in Good
    BY <1>2, LeftmostEq DEF IsLeast
<1>4. ASSUME NEW m, NEW V, TreeAt(h, m, V), m # 0,
             <<h[m].left, LowerOf(V, m)>> \in Good, <<h[m].right, UpperOf(V, m)>> \in Good
      PROVE  <<m, V>> \in Good
    <2>1. m \in V /\ m \in D /\ V \subseteq D /\ TreeAt(h, h[m].left, LowerOf(V, m))
        BY <1>1, <1>4, TreeParts
    <2>2. /\ V \subseteq Nat /\ m \in Nat /\ LowerOf(V, m) \subseteq V
          /\ \A k \in V : k = m \/ k \in LowerOf(V, m) \/ k \in UpperOf(V, m)
          /\ \A k \in LowerOf(V, m) : k < m
          /\ \A k \in UpperOf(V, m) : m < k
        BY <1>1, <1>4, TreeSides
    <2>3. Leftmost(h, m) = IF h[m].left = 0 THEN m ELSE Leftmost(h, h[m].left)
        BY <2>1, LeftmostEq
    <2>4. h[m].left = 0 <=> LowerOf(V, m) = {}
        BY <1>1, <2>1, TreeParts
    <2>5. IsLeast(LowerOf(V, m), Leftmost(h, h[m].left))
        BY <1>2, <1>4
    <2>6. IsLeast(V, Leftmost(h, m))
        <3>1. CASE h[m].left = 0
            <4>1. \A k \in V : m <= k
                BY <2>2, <2>4, <3>1
            <4> QED
                BY <2>1, <2>3, <3>1, <4>1 DEF IsLeast
        <3>2. CASE h[m].left # 0
            <4> DEFINE x == Leftmost(h, h[m].left)
            <4>1. x \in LowerOf(V, m) /\ \A k \in LowerOf(V, m) : x <= k
                BY <2>4, <2>5, <3>2 DEF IsLeast
            <4> HIDE DEF x
            <4>2. x \in Nat /\ x < m
                BY <2>2, <4>1
            <4>3. \A k \in Nat : m < k => x <= k
                BY <2>2, <4>2
            <4>4. \A k \in V : x <= k
                BY <2>2, <4>1, <4>2, <4>3
            <4> QED
                BY <2>2, <2>3, <3>2, <4>1, <4>4 DEF IsLeast, x
        <3> QED
            BY <3>1, <3>2
    <2> QED
        BY <1>2, <2>1, <2>6
<1> HIDE DEF D
<1>5. <<n, U>> \in Good
    BY <1>1, <1>3, <1>4, TreeInduction
<1> QED
    BY <1>2, <1>5

\* The last key of a tree is its greatest.
LEMMA RightmostTree ==
    ASSUME NEW h, HeapOk(h), Graded(h), NEW n, NEW U, TreeAt(h, n, U)
    PROVE  IsGreatest(U, Rightmost(h, n))
<1> DEFINE D == DOMAIN h
<1>1. Ground(D) /\ h \in LooseOn(D)
    BY HeapIsLoose
<1> DEFINE Good == {p \in (D \cup {0}) \X SUBSET D : IsGreatest(p[2], Rightmost(h, p[1]))}
<1>2. \A m, V : <<m, V>> \in Good <=> m \in D \cup {0} /\ V \in SUBSET D /\ IsGreatest(V, Rightmost(h, m))
    OBVIOUS
<1> HIDE DEF Good
<1>3. <<0, {}>> \in Good
    BY <1>2, RightmostEq DEF IsGreatest
<1>4. ASSUME NEW m, NEW V, TreeAt(h, m, V), m # 0,
             <<h[m].left, LowerOf(V, m)>> \in Good, <<h[m].right, UpperOf(V, m)>> \in Good
      PROVE  <<m, V>> \in Good
    <2>1. m \in V /\ m \in D /\ V \subseteq D /\ TreeAt(h, h[m].right, UpperOf(V, m))
        BY <1>1, <1>4, TreeParts
    <2>2. /\ V \subseteq Nat /\ m \in Nat /\ UpperOf(V, m) \subseteq V
          /\ \A k \in V : k = m \/ k \in UpperOf(V, m) \/ k \in LowerOf(V, m)
          /\ \A k \in UpperOf(V, m) : m < k
          /\ \A k \in LowerOf(V, m) : k < m
        BY <1>1, <1>4, TreeSides
    <2>3. Rightmost(h, m) = IF h[m].right = 0 THEN m ELSE Rightmost(h, h[m].right)
        BY <2>1, RightmostEq
    <2>4. h[m].right = 0 <=> UpperOf(V, m) = {}
        BY <1>1, <2>1, TreeParts
    <2>5. IsGreatest(UpperOf(V, m), Rightmost(h, h[m].right))
        BY <1>2, <1>4
    <2>6. IsGreatest(V, Rightmost(h, m))
        <3>1. CASE h[m].right = 0
            <4>1. \A k \in V : k <= m
                BY <2>2, <2>4, <3>1
            <4> QED
                BY <2>1, <2>3, <3>1, <4>1 DEF IsGreatest
        <3>2. CASE h[m].right # 0
            <4> DEFINE x == Rightmost(h, h[m].right)
            <4>1. x \in UpperOf(V, m) /\ \A k \in UpperOf(V, m) : k <= x
                BY <2>4, <2>5, <3>2 DEF IsGreatest
            <4> HIDE DEF x
            <4>2. x \in Nat /\ m < x
                BY <2>2, <4>1
            <4>3. \A k \in Nat : k < m => k <= x
                BY <2>2, <4>2
            <4>4. \A k \in V : k <= x
                BY <2>2, <4>1, <4>2, <4>3
            <4> QED
                BY <2>2, <2>3, <3>2, <4>1, <4>4 DEF IsGreatest, x
        <3> QED
            BY <3>1, <3>2
    <2> QED
        BY <1>2, <2>1, <2>6
<1> HIDE DEF D
<1>5. <<n, U>> \in Good
    BY <1>1, <1>3, <1>4, TreeInduction
<1> QED
    BY <1>2, <1>5

\* What erase_leftmost leaves of a tree: the heap E without its least node.
Erased(D, h, U, x, e) ==
    /\ e.heap \in LooseOn(D \ {x})
    /\ TreeAt(e.heap, e.root, U \ {x})
    /\ \A k \in D \ {x} : e.heap[k].priority = h[k].priority
    /\ \A k \in D \ U : e.heap[k] = h[k]

LEMMA FreedTree ==
    ASSUME NEW D, Ground(D), NEW h \in LooseOn(D), NEW n, NEW U, TreeAt(h, n, U), n # 0, h[n].left = 0
    PROVE  Erased(D, h, U, n, Freed(h, n))
<1> DEFINE E == D \ {n}
<1> DEFINE b == [k \in DOMAIN h \ {n} |-> h[k]]
<1> DEFINE q == h[n].right
<1> DEFINE g == WithParent(b, {q}, 0)
<1>1. n \in U /\ U \subseteq D /\ TreeAt(h, h[n].left, LowerOf(U, n)) /\ TreeAt(h, q, UpperOf(U, n))
    BY TreeParts
<1>2. /\ UpperOf(U, n) \subseteq U \ {n}
      /\ \A k \in U : k = n \/ k \in LowerOf(U, n) \/ k \in UpperOf(U, n)
    BY TreeSides
<1>3. LowerOf(U, n) = {}
    BY <1>1, TreeParts
<1>4. UpperOf(U, n) = U \ {n}
    BY <1>2, <1>3
<1>5. Ground(E)
    BY FS_Subset DEF Ground
<1>6. DOMAIN h = D /\ \A k \in D : h[k] \in NodeIn(Nat)
    BY DEF LooseOn
<1>7. b \in LooseOn(E) /\ \A k \in E : b[k] = h[k]
    BY <1>6 DEF LooseOn
<1> HIDE DEF b, E
<1>8. /\ g \in LooseOn(E)
      /\ \A k \in E : /\ g[k].priority = b[k].priority /\ g[k].size = b[k].size
                      /\ g[k].left = b[k].left /\ g[k].right = b[k].right
                      /\ (k \notin {q} => g[k] = b[k])
    <2> DEFINE ns == {q}
    <2> HIDE DEF ns
    <2>1. /\ WithParent(b, ns, 0) \in LooseOn(E)
          /\ \A k \in E : LET r == WithParent(b, ns, 0)[k] IN
                 /\ r.priority = b[k].priority /\ r.size = b[k].size
                 /\ r.left = b[k].left /\ r.right = b[k].right
                 /\ (k \notin ns => r = b[k])
        BY <1>7, WithParentFields
    <2> QED
        BY <2>1 DEF ns
<1>9. (q # 0 => q \in U \ {n}) /\ 0 \notin D
    <2>1. q # 0 => q \in UpperOf(U, n)
        BY <1>1, TreeParts
    <2> QED
        BY <1>4, <2>1 DEF Ground
<1> HIDE DEF g, q
<1>10. TreeAt(g, q, U \ {n})
    <2> DEFINE W == U \ {n}
    <2>1. TreeAt(h, q, W) /\ W \subseteq E
        BY <1>1, <1>4 DEF E
    <2>2. SameTree(h, g, q, W)
        BY <1>7, <1>8, <2>1 DEF SameTree
    <2> HIDE DEF W
    <2>3. TreeAt(g, q, W)
        BY <1>8, <2>1, <2>2, TreeFrame
    <2> QED
        BY <2>3 DEF W
<1>11. \A k \in E : g[k].priority = h[k].priority
    BY <1>7, <1>8
<1>12. \A k \in D \ U : g[k] = h[k]
    BY <1>1, <1>7, <1>8, <1>9 DEF E
<1>13. Freed(h, n) = [heap |-> g, root |-> q]
    BY DEF Freed, g, b, q
<1> QED
    BY <1>8, <1>10, <1>11, <1>12, <1>13 DEF Erased, E

LEMMA RelinkedTree ==
    ASSUME NEW D, Ground(D), NEW h \in LooseOn(D), NEW n, NEW U, TreeAt(h, n, U), n # 0,
           NEW x \in LowerOf(U, n), NEW e, Erased(D, h, LowerOf(U, n), x, e)
    PROVE  Erased(D, h, U, x, Relinked(e, n))
<1> DEFINE E == D \ {x}
<1> DEFINE L == LowerOf(U, n) \ {x}
<1> DEFINE R == UpperOf(U, n)
<1>1. /\ n \in U /\ n \in D /\ U \subseteq D /\ TreeAt(h, h[n].right, R)
      /\ \A c \in {h[n].left, h[n].right} \ {0} : h[c].priority <= h[n].priority
    BY TreeParts
<1>2. /\ U \subseteq Nat /\ n \in Nat /\ LowerOf(U, n) \subseteq U \ {n} /\ R \subseteq U \ {n}
      /\ \A k \in U : k = n \/ k \in LowerOf(U, n) \/ k \in R
      /\ \A k \in LowerOf(U, n) : k \notin R /\ k < n
      /\ \A k \in R : n < k
    BY TreeSides
<1>3. \A k \in U : h[k].priority <= h[n].priority
    BY TreeTop
<1>4. /\ e.heap \in LooseOn(E) /\ TreeAt(e.heap, e.root, L)
      /\ \A k \in E : e.heap[k].priority = h[k].priority
      /\ \A k \in D \ LowerOf(U, n) : e.heap[k] = h[k]
    BY DEF Erased
<1>5. Ground(E) /\ 0 \notin D
    BY FS_Subset DEF Ground
<1>6. n \in E /\ R \subseteq E /\ L \subseteq E /\ n \notin L /\ R \cap LowerOf(U, n) = {}
    BY <1>1, <1>2
<1>7. e.heap[n] = h[n] /\ \A k \in R : e.heap[k] = h[k]
    BY <1>1, <1>2, <1>4
<1>8. L \cup {n} \cup R = U \ {x}
    BY <1>1, <1>2
<1>9. (\A k \in L : k < n) /\ (\A k \in R : n < k)
    BY <1>2
<1> HIDE DEF E, L, R
<1>10. TreeAt(e.heap, e.heap[n].right, R)
    <2>1. SameTree(h, e.heap, h[n].right, R)
        BY <1>7 DEF SameTree
    <2>2. TreeAt(e.heap, h[n].right, R)
        BY <1>1, <1>4, <1>6, <2>1, TreeFrame
    <2> QED
        BY <1>7, <2>2
<1>11. /\ e.root # 0 => e.heap[e.root].priority <= e.heap[n].priority
       /\ e.heap[n].right # 0 => e.heap[e.heap[n].right].priority <= e.heap[n].priority
    <2>1. e.root # 0 => e.root \in L
        BY <1>4, <1>5, TreeParts
    <2>2. h[n].right # 0 => h[n].right \in R
        BY <1>1, TreeParts
    <2>3. L \subseteq U
        BY <1>8
    <2> QED
        BY <1>1, <1>3, <1>4, <1>6, <1>7, <2>1, <2>2, <2>3
<1> DEFINE ns == {n}
<1>12. \A k \in ns : k \notin L \cup R
    BY <1>2, <1>6
<1> DEFINE g == WithParent(Refresh([e.heap EXCEPT ![n].left = e.root], n), ns, 0)
<1>13. TreeAt(g, n, L \cup {n} \cup R) /\ Keeps(E, L \cup {n} \cup R \cup ns, e.heap, g)
    <2> HIDE DEF ns
    <2> QED
        BY <1>4, <1>5, <1>6, <1>9, <1>10, <1>11, <1>12, OverLeft
<1>14. Relinked(e, n) = [heap |-> g, root |-> n]
    BY DEF Relinked
<1> HIDE DEF g
<1>15. TreeAt(g, n, U \ {x})
    BY <1>8, <1>13
<1>16. g \in LooseOn(E) /\ \A k \in E : g[k].priority = h[k].priority
    BY <1>4, <1>13 DEF Keeps
<1>17. \A k \in D \ U : g[k] = h[k]
    <2>1. \A k \in D \ U : k \in E \ (L \cup {n} \cup R \cup ns) /\ k \in D \ LowerOf(U, n)
        BY <1>1, <1>2, <1>8 DEF E
    <2> QED
        BY <1>4, <1>13, <2>1 DEF Keeps
<1> QED
    BY <1>14, <1>15, <1>16, <1>17 DEF Erased, E

\* Taking the leftmost node out leaves the other keys a tree.
LEMMA EraseTree ==
    ASSUME NEW h, HeapOk(h), Graded(h), NEW n, NEW U, TreeAt(h, n, U), n # 0
    PROVE  Leftmost(h, n) \in U /\ Erased(DOMAIN h, h, U, Leftmost(h, n), EraseLeftmost(h, n))
<1> DEFINE D == DOMAIN h
<1>1. Ground(D) /\ h \in LooseOn(D)
    BY HeapIsLoose
<1> DEFINE Done(m, V) == m # 0 => /\ Leftmost(h, m) \in V
                                  /\ Erased(D, h, V, Leftmost(h, m), EraseLeftmost(h, m))
<1> DEFINE Good == {p \in (D \cup {0}) \X SUBSET D : Done(p[1], p[2])}
<1>2. \A m, V : <<m, V>> \in Good <=> m \in D \cup {0} /\ V \in SUBSET D /\ Done(m, V)
    <2> HIDE DEF Done, D
    <2> QED
        OBVIOUS
<1> HIDE DEF Good
<1>3. <<0, {}>> \in Good
    <2>1. Done(0, {})
        OBVIOUS
    <2> HIDE DEF Done
    <2> QED
        BY <1>2, <2>1
<1>4. ASSUME NEW m, NEW V, TreeAt(h, m, V), m # 0,
             <<h[m].left, LowerOf(V, m)>> \in Good, <<h[m].right, UpperOf(V, m)>> \in Good
      PROVE  <<m, V>> \in Good
    <2>1. m \in V /\ m \in D /\ V \subseteq D
        BY <1>1, <1>4, TreeParts
    <2>2. LowerOf(V, m) \subseteq V
        BY DEF LowerOf
    <2>3. /\ Leftmost(h, m) = IF h[m].left = 0 THEN m ELSE Leftmost(h, h[m].left)
          /\ EraseLeftmost(h, m) = IF h[m].left = 0 THEN Freed(h, m) ELSE Relinked(EraseLeftmost(h, h[m].left), m)
        BY <2>1, LeftmostEq, EraseEq
    <2>4. CASE h[m].left = 0
        <3>1. Erased(D, h, V, m, Freed(h, m))
            <4> HIDE DEF D
            <4> QED
                BY <1>1, <1>4, <2>4, FreedTree
        <3>2. Done(m, V)
            BY <2>1, <2>3, <2>4, <3>1
        <3> HIDE DEF Done, D
        <3> QED
            BY <1>2, <2>1, <3>2
    <2>5. CASE h[m].left # 0
        <3> DEFINE x == Leftmost(h, h[m].left)
        <3> DEFINE e == EraseLeftmost(h, h[m].left)
        <3>1. Done(h[m].left, LowerOf(V, m))
            <4> HIDE DEF Done, D
            <4> QED
                BY <1>2, <1>4
        <3>2. x \in LowerOf(V, m) /\ Erased(D, h, LowerOf(V, m), x, e)
            BY <2>5, <3>1
        <3>3. Leftmost(h, m) = x /\ EraseLeftmost(h, m) = Relinked(e, m)
            BY <2>3, <2>5
        <3> HIDE DEF x, e, D
        <3>4. Erased(D, h, V, x, Relinked(e, m))
            BY <1>1, <1>4, <3>2, RelinkedTree
        <3>5. Done(m, V)
            BY <2>2, <3>2, <3>3, <3>4
        <3> HIDE DEF Done
        <3> QED
            BY <1>2, <2>1, <3>5
    <2> QED
        BY <2>4, <2>5
<1>5. <<n, U>> \in Good
    <2> HIDE DEF D, Done
    <2> QED
        BY <1>1, <1>3, <1>4, TreeInduction
<1>6. Done(n, U)
    <2> HIDE DEF D, Done
    <2> QED
        BY <1>2, <1>5
<1> QED
    BY <1>6

\* A copy of a tree has its nodes, and the parent it was given.
Cloned(h, n, U, parent, c) ==
    /\ DOMAIN c = U
    /\ \A k \in U : c[k] = IF k = n THEN [h[k] EXCEPT !.parent = parent] ELSE h[k]

LEMMA CloneTree ==
    ASSUME NEW h, HeapOk(h), Graded(h), NEW n, NEW U, TreeAt(h, n, U), NEW parent \in Pointers(h)
    PROVE  Cloned(h, n, U, parent, Clone(h, n, parent))
<1> DEFINE D == DOMAIN h
<1>1. Ground(D) /\ h \in LooseOn(D) /\ Pointers(h) = D \cup {0}
    BY HeapIsLoose DEF Pointers
<1> DEFINE Done(m, V) == \A p \in D \cup {0} : Cloned(h, m, V, p, Clone(h, m, p))
<1> DEFINE Good == {p \in (D \cup {0}) \X SUBSET D : Done(p[1], p[2])}
<1>2. \A m, V : <<m, V>> \in Good <=> m \in D \cup {0} /\ V \in SUBSET D /\ Done(m, V)
    <2> HIDE DEF Done, D
    <2> QED
        OBVIOUS
<1> HIDE DEF Good
<1>3. <<0, {}>> \in Good
    <2>1. Done(0, {})
        BY <1>1, CloneEq DEF Cloned, NoNodes
    <2> HIDE DEF Done
    <2> QED
        BY <1>2, <2>1
<1>4. ASSUME NEW m, NEW V, TreeAt(h, m, V), m # 0,
             <<h[m].left, LowerOf(V, m)>> \in Good, <<h[m].right, UpperOf(V, m)>> \in Good
      PROVE  <<m, V>> \in Good
    <2> DEFINE L == LowerOf(V, m)
    <2> DEFINE R == UpperOf(V, m)
    <2>1. /\ m \in V /\ m \in D /\ V \subseteq D
          /\ \A c \in {h[m].left, h[m].right} \ {0} : h[c].parent = m
        BY <1>1, <1>4, TreeParts
    <2>2. /\ L \subseteq V \ {m} /\ R \subseteq V \ {m}
          /\ \A k \in V : k = m \/ k \in L \/ k \in R
        BY <1>1, <1>4, TreeSides
    <2>3. Done(h[m].left, L) /\ Done(h[m].right, R)
        <3> HIDE DEF Done, D, L, R
        <3>1. <<h[m].left, L>> \in Good /\ <<h[m].right, R>> \in Good
            BY <1>4 DEF L, R
        <3> QED
            BY <1>2, <3>1
    <2>4. ASSUME NEW p \in D \cup {0}
          PROVE  Cloned(h, m, V, p, Clone(h, m, p))
        <3> DEFINE left == Clone(h, h[m].left, m)
        <3> DEFINE right == Clone(h, h[m].right, m)
        <3>1. Clone(h, m, p) = CloneOver(h[m], m, p, left, right)
            BY <1>1, <2>1, CloneEq
        <3>2. Cloned(h, h[m].left, L, m, left) /\ Cloned(h, h[m].right, R, m, right)
            BY <2>1, <2>3
        <3>3. \A k \in D : k \in {h[m].left, h[m].right} => [h[k] EXCEPT !.parent = m] = h[k]
            <4>1. \A k \in D : h[k] \in NodeIn(Nat) /\ k # 0
                BY <1>1 DEF LooseOn, Ground
            <4>2. \A k \in D : k \in {h[m].left, h[m].right} => h[k].parent = m
                BY <2>1, <4>1
            <4> QED
                BY <4>1, <4>2 DEF NodeIn
        <3> HIDE DEF left, right, L, R, D
        <3>4. /\ DOMAIN left = L /\ \A k \in L : left[k] = h[k]
              /\ DOMAIN right = R /\ \A k \in R : right[k] = h[k]
            <4>1. L \subseteq D /\ R \subseteq D
                BY <2>1, <2>2
            <4> QED
                BY <3>2, <3>3, <4>1 DEF Cloned
        <3> DEFINE c == Clone(h, m, p)
        <3>5. DOMAIN c = {m} \cup L \cup R
            BY <3>1, <3>4 DEF CloneOver
        <3>6. \A k \in {m} \cup L \cup R :
                  c[k] = IF k = m THEN [h[m] EXCEPT !.parent = p] ELSE IF k \in L THEN left[k] ELSE right[k]
            BY <3>1, <3>4 DEF CloneOver
        <3> HIDE DEF c
        <3>7. V = {m} \cup L \cup R
            BY <2>1, <2>2
        <3>8. \A k \in V : c[k] = IF k = m THEN [h[k] EXCEPT !.parent = p] ELSE h[k]
            BY <3>4, <3>6, <3>7
        <3>9. Cloned(h, m, V, p, c)
            BY <3>5, <3>7, <3>8 DEF Cloned
        <3> QED
            BY <3>9 DEF c
    <2>5. Done(m, V)
        BY <2>4
    <2> HIDE DEF Done, D
    <2> QED
        BY <1>2, <2>1, <2>5
<1>5. <<n, U>> \in Good
    <2> HIDE DEF D, Done
    <2> QED
        BY <1>1, <1>3, <1>4, TreeInduction
<1>6. Done(n, U)
    <2> HIDE DEF D, Done
    <2> QED
        BY <1>2, <1>5
<1> QED
    BY <1>1, <1>6

\* The copy of a tree is a tree of the same keys.
LEMMA CloneIsTree ==
    ASSUME NEW h, HeapOk(h), Graded(h), NEW n, NEW U, TreeAt(h, n, U), NEW parent \in Pointers(h)
    PROVE  /\ Clone(h, n, parent) \in LooseOn(U) /\ TreeAt(Clone(h, n, parent), n, U)
           /\ n # 0 => Clone(h, n, parent)[n].parent = parent
<1> DEFINE D == DOMAIN h
<1>1. Ground(D) /\ h \in LooseOn(D) /\ Pointers(h) = D \cup {0}
    BY HeapIsLoose DEF Pointers
<1>2. U \subseteq D /\ \A k \in D : h[k] \in NodeIn(Nat)
    BY <1>1, TreeParts DEF LooseOn
<1>3. parent \in Nat
    BY <1>1 DEF Ground
<1> DEFINE c == Clone(h, n, parent)
<1>4. DOMAIN c = U /\ \A k \in U : c[k] = IF k = n THEN [h[k] EXCEPT !.parent = parent] ELSE h[k]
    BY CloneTree DEF Cloned
<1>5. c = [k \in U |-> c[k]]
    <2>1. CASE n = 0
        <3>1. c = NoNodes /\ U = {}
            BY <1>1, <2>1, CloneEq, TreeParts
        <3> QED
            BY <3>1 DEF NoNodes
    <2>2. CASE n # 0
        <3>1. c = CloneOver(h[n], n, parent, Clone(h, h[n].left, n), Clone(h, h[n].right, n))
            BY <1>1, <2>2, CloneEq, TreeParts
        <3> HIDE DEF c
        <3>2. c = [k \in DOMAIN c |-> c[k]]
            BY <3>1 DEF CloneOver
        <3> QED
            BY <1>4, <3>2
    <2> QED
        BY <2>1, <2>2
<1> HIDE DEF c, D
<1>6. \A k \in U : /\ c[k] \in NodeIn(Nat)
                   /\ c[k].priority = h[k].priority /\ c[k].size = h[k].size
                   /\ c[k].left = h[k].left /\ c[k].right = h[k].right
                   /\ (k # n => c[k] = h[k]) /\ (k = n => c[k].parent = parent)
    BY <1>2, <1>3, <1>4 DEF NodeIn
<1>7. c \in LooseOn(U)
    BY <1>5, <1>6 DEF LooseOn
<1>8. SameTree(h, c, n, U)
    BY <1>6 DEF SameTree
<1>9. TreeAt(c, n, U)
    BY <1>1, <1>7, <1>8, TreeFrame
<1>10. n # 0 => c[n].parent = parent
    BY <1>1, <1>6, TreeParts
<1> QED
    BY <1>7, <1>9, <1>10 DEF c

-----------------------------------------------------------------------------
(* OrderTree: what the queries answer of a tree.                            *)

\* find goes down to the key exactly if the tree has it.
LEMMA FindTree ==
    ASSUME HeapOk(heap), Graded(heap), NEW U, TreeAt(heap, root, U), NEW key \in Nat
    PROVE  Find(key) = IF key \in U THEN key ELSE 0
<1> DEFINE D == DOMAIN heap
<1>1. Ground(D) /\ heap \in LooseOn(D)
    BY HeapIsLoose
<1>2. PICK find : /\ Find(key) = find[root] /\ find[0] = 0
                  /\ \A n \in D : find[n] = IF n = key THEN n
                                            ELSE IF key < n THEN find[heap[n].left] ELSE find[heap[n].right]
    BY FindEq
<1> DEFINE Good == {p \in (D \cup {0}) \X SUBSET D : find[p[1]] = IF key \in p[2] THEN key ELSE 0}
<1>3. \A m, V : <<m, V>> \in Good <=> m \in D \cup {0} /\ V \in SUBSET D /\ find[m] = IF key \in V THEN key ELSE 0
    OBVIOUS
<1> HIDE DEF Good, D
<1>4. <<0, {}>> \in Good
    BY <1>2, <1>3
<1>5. ASSUME NEW m, NEW V, TreeAt(heap, m, V), m # 0,
             <<heap[m].left, LowerOf(V, m)>> \in Good, <<heap[m].right, UpperOf(V, m)>> \in Good
      PROVE  <<m, V>> \in Good
    <2>1. m \in V /\ m \in D /\ V \subseteq D
        BY <1>1, <1>5, TreeParts
    <2>2. /\ V \subseteq Nat /\ m \in Nat /\ LowerOf(V, m) \subseteq V /\ UpperOf(V, m) \subseteq V
          /\ \A k \in V : k = m \/ k \in LowerOf(V, m) \/ k \in UpperOf(V, m)
          /\ \A k \in LowerOf(V, m) : k < m
          /\ \A k \in UpperOf(V, m) : m < k
        BY <1>1, <1>5, TreeSides
    <2>3. \A k, j \in Nat : k < j => ~(j < k) /\ k # j
        OBVIOUS
    <2>4. /\ key < m => (key \in V <=> key \in LowerOf(V, m))
          /\ ~(key < m) /\ m # key => (key \in V <=> key \in UpperOf(V, m))
        BY <2>2, <2>3
    <2>5. /\ find[heap[m].left] = IF key \in LowerOf(V, m) THEN key ELSE 0
          /\ find[heap[m].right] = IF key \in UpperOf(V, m) THEN key ELSE 0
        BY <1>3, <1>5
    <2>6. find[m] = IF key \in V THEN key ELSE 0
        BY <1>2, <2>1, <2>4, <2>5
    <2> QED
        BY <1>3, <2>1, <2>6
<1>6. <<root, U>> \in Good
    BY <1>1, <1>4, <1>5, TreeInduction
<1> QED
    BY <1>2, <1>3, <1>6

\* The keys that lower_bound and upper_bound look among.
FromKey(U, key, strict) == {k \in U : ~(k < key \/ (strict /\ k = key))}

\* lower_bound and upper_bound find the least key that is high enough.
LEMMA BoundTree ==
    ASSUME HeapOk(heap), Graded(heap), NEW U, TreeAt(heap, root, U), NEW key \in Nat, NEW strict \in BOOLEAN
    PROVE  IsLeast(FromKey(U, key, strict), Bound(key, strict))
<1> DEFINE D == DOMAIN heap
<1> DEFINE C(V) == FromKey(V, key, strict)
<1>1. Ground(D) /\ heap \in LooseOn(D) /\ Pointers(heap) = D \cup {0}
    BY HeapIsLoose DEF Pointers
<1>2. PICK bound : /\ Bound(key, strict) = bound[<<root, 0>>]
                   /\ \A best \in D \cup {0} : bound[<<0, best>>] = best
                   /\ \A n \in D : \A best \in D \cup {0} :
                         bound[<<n, best>>] =
                             IF n < key \/ (strict /\ n = key) THEN bound[<<heap[n].right, best>>]
                             ELSE bound[<<heap[n].left, n>>]
    BY <1>1, BoundEq
<1> DEFINE Done(n, V) == \A best \in D \cup {0} :
                IF C(V) = {} THEN bound[<<n, best>>] = best ELSE IsLeast(C(V), bound[<<n, best>>])
<1> DEFINE Good == {p \in (D \cup {0}) \X SUBSET D : Done(p[1], p[2])}
<1>3. \A m, V : <<m, V>> \in Good <=> m \in D \cup {0} /\ V \in SUBSET D /\ Done(m, V)
    <2> HIDE DEF Done, D
    <2> QED
        OBVIOUS
<1> HIDE DEF Good, D
<1>4. <<0, {}>> \in Good
    <2>1. C({}) = {}
        BY DEF FromKey
    <2>2. Done(0, {})
        BY <1>2, <2>1
    <2> HIDE DEF Done
    <2> QED
        BY <1>3, <2>2
<1>5. ASSUME NEW m, NEW V, TreeAt(heap, m, V), m # 0,
             <<heap[m].left, LowerOf(V, m)>> \in Good, <<heap[m].right, UpperOf(V, m)>> \in Good
      PROVE  <<m, V>> \in Good
    <2> DEFINE L == LowerOf(V, m)
    <2> DEFINE R == UpperOf(V, m)
    <2>1. m \in V /\ m \in D /\ V \subseteq D
        BY <1>1, <1>5, TreeParts
    <2>2. /\ V \subseteq Nat /\ m \in Nat /\ L \subseteq V /\ R \subseteq V
          /\ \A k \in V : k = m \/ k \in L \/ k \in R
          /\ \A k \in L : k < m
          /\ \A k \in R : m < k
        BY <1>1, <1>5, TreeSides
    <2>3. Done(heap[m].left, L) /\ Done(heap[m].right, R)
        <3> HIDE DEF Done
        <3> QED
            BY <1>3, <1>5
    <2> HIDE DEF L, R
    <2>4. ASSUME NEW best \in D \cup {0}
          PROVE  IF C(V) = {} THEN bound[<<m, best>>] = best ELSE IsLeast(C(V), bound[<<m, best>>])
        <3>1. CASE m < key \/ (strict /\ m = key)
            <4>1. bound[<<m, best>>] = bound[<<heap[m].right, best>>]
                BY <1>2, <2>1, <3>1
            <4>2. \A k \in Nat : (k < m \/ k = m) => (k < key \/ (strict /\ k = key))
                BY <2>2, <3>1
            <4>3. C(V) = C(R)
                BY <2>2, <4>2 DEF FromKey
            <4> HIDE DEF C
            <4> QED
                BY <2>3, <4>1, <4>3
        <3>2. CASE ~(m < key \/ (strict /\ m = key))
            <4>1. bound[<<m, best>>] = bound[<<heap[m].left, m>>]
                BY <1>2, <2>1, <3>2
            <4>2. m \in C(V) /\ C(L) \subseteq C(V)
                BY <2>1, <2>2, <3>2 DEF FromKey
            <4>3. \A k \in C(V) : k \in C(L) \/ m <= k
                <5>1. \A k \in V : k \in L \/ m <= k
                    BY <2>2
                <5> QED
                    BY <5>1 DEF FromKey
            <4>4. \A k \in C(L) : k < m /\ k \in Nat
                BY <2>2 DEF FromKey
            <4> HIDE DEF C
            <4>5. CASE C(L) = {}
                <5>1. bound[<<m, best>>] = m
                    BY <2>1, <2>3, <4>1, <4>5
                <5>2. \A k \in C(V) : m <= k
                    BY <4>3, <4>5
                <5> QED
                    BY <4>2, <5>1, <5>2 DEF IsLeast
            <4>6. CASE C(L) # {}
                <5> DEFINE x == bound[<<m, best>>]
                <5>1. IsLeast(C(L), x)
                    BY <2>1, <2>3, <4>1, <4>6
                <5> HIDE DEF x
                <5>2. x \in C(L) /\ \A k \in C(L) : x <= k
                    BY <4>6, <5>1 DEF IsLeast
                <5>3. C(V) \subseteq Nat
                    BY <2>2 DEF C, FromKey
                <5>4. \A k \in C(V) : x <= k
                    <6>1. x < m /\ x \in Nat
                        BY <4>4, <5>2
                    <6>2. \A k \in Nat : m <= k => x <= k
                        BY <2>2, <6>1
                    <6> QED
                        BY <4>3, <5>2, <5>3, <6>2
                <5>5. IsLeast(C(V), x)
                    BY <4>2, <5>2, <5>4 DEF IsLeast
                <5> QED
                    BY <4>2, <5>5 DEF x
            <4> QED
                BY <4>5, <4>6
        <3> QED
            BY <3>1, <3>2
    <2>5. Done(m, V)
        <3> HIDE DEF C
        <3> QED
            BY <2>4
    <2> HIDE DEF Done
    <2> QED
        BY <1>3, <2>1, <2>5
<1>6. <<root, U>> \in Good
    <2> HIDE DEF Done
    <2> QED
        BY <1>1, <1>4, <1>5, TreeInduction
<1>7. Done(root, U)
    <2> HIDE DEF Done
    <2> QED
        BY <1>3, <1>6
<1> HIDE DEF C
<1>8. IF C(U) = {} THEN bound[<<root, 0>>] = 0 ELSE IsLeast(C(U), bound[<<root, 0>>])
    BY <1>7
<1>9. IsLeast(C(U), Bound(key, strict))
    BY <1>2, <1>8 DEF IsLeast
<1> QED
    BY <1>9 DEF C

\* order_of_key counts the lower keys.
LEMMA RankTree ==
    ASSUME HeapOk(heap), Graded(heap), NEW U, TreeAt(heap, root, U), NEW key \in Nat
    PROVE  OrderOfKey(key) = Cardinality(LowerOf(U, key))
<1> DEFINE D == DOMAIN heap
<1>1. Ground(D) /\ heap \in LooseOn(D)
    BY HeapIsLoose
<1>2. PICK rank : /\ OrderOfKey(key) = rank[root] /\ rank[0] = 0
                  /\ \A n \in D : rank[n] = IF n < key THEN SizeOf(heap, heap[n].left) + 1 + rank[heap[n].right]
                                            ELSE rank[heap[n].left]
    BY OrderOfKeyEq
<1> DEFINE Good == {p \in (D \cup {0}) \X SUBSET D : rank[p[1]] = Cardinality(LowerOf(p[2], key))}
<1>3. \A m, V : <<m, V>> \in Good <=> /\ m \in D \cup {0} /\ V \in SUBSET D
                                      /\ rank[m] = Cardinality(LowerOf(V, key))
    OBVIOUS
<1> HIDE DEF Good, D
<1>4. <<0, {}>> \in Good
    <2>1. LowerOf({}, key) = {}
        BY DEF LowerOf
    <2>2. Cardinality({}) = 0
        BY FS_EmptySet
    <2> QED
        BY <1>2, <1>3, <2>1, <2>2
<1>5. ASSUME NEW m, NEW V, TreeAt(heap, m, V), m # 0,
             <<heap[m].left, LowerOf(V, m)>> \in Good, <<heap[m].right, UpperOf(V, m)>> \in Good
      PROVE  <<m, V>> \in Good
    <2>1. m \in V /\ m \in D /\ V \subseteq D /\ TreeAt(heap, heap[m].left, LowerOf(V, m))
        BY <1>1, <1>5, TreeParts
    <2>2. /\ rank[heap[m].left] = Cardinality(LowerOf(LowerOf(V, m), key))
          /\ rank[heap[m].right] = Cardinality(LowerOf(UpperOf(V, m), key))
        BY <1>3, <1>5
    <2>3. SizeOf(heap, heap[m].left) = Cardinality(LowerOf(V, m))
        BY <1>1, <2>1, TreeSize
    <2>4. rank[m] = Cardinality(LowerOf(V, key))
        <3>1. CASE m < key
            <4>1. Cardinality(LowerOf(V, key)) =
                      Cardinality(LowerOf(V, m)) + 1 + Cardinality(LowerOf(UpperOf(V, m), key))
                BY <1>1, <2>1, <3>1, RankAbove
            <4> QED
                BY <1>2, <2>1, <2>2, <2>3, <3>1, <4>1
        <3>2. CASE ~(m < key)
            <4>1. V \subseteq Nat
                BY <1>1, <2>1 DEF Ground
            <4>2. LowerOf(V, key) = LowerOf(LowerOf(V, m), key)
                BY <2>1, <3>2, <4>1, SplitAbove
            <4> QED
                BY <1>2, <2>1, <2>2, <3>2, <4>2
        <3> QED
            BY <3>1, <3>2
    <2> QED
        BY <1>3, <2>1, <2>4
<1>6. <<root, U>> \in Good
    BY <1>1, <1>4, <1>5, TreeInduction
<1> QED
    BY <1>2, <1>3, <1>6

\* find_by_order finds the key of that rank.
LEMMA KthTree ==
    ASSUME HeapOk(heap), Graded(heap), NEW U, TreeAt(heap, root, U), NEW k \in Nat
    PROVE  IsKth(U, k, FindByOrder(k))
<1> DEFINE D == DOMAIN heap
<1>1. Ground(D) /\ heap \in LooseOn(D)
    BY HeapIsLoose
<1>2. PICK find : /\ \A i \in Nat : FindByOrder(i) = find[<<root, i>>] /\ find[<<0, i>>] = 0
                  /\ \A n \in D : \A i \in Nat :
                        LET left == SizeOf(heap, heap[n].left) IN
                        find[<<n, i>>] = IF i < left THEN find[<<heap[n].left, i>>]
                                         ELSE IF i = left THEN n
                                         ELSE find[<<heap[n].right, i - (left + 1)>>]
    BY FindByOrderEq
<1> DEFINE Done(n, V) == \A i \in Nat : IsKth(V, i, find[<<n, i>>])
<1> DEFINE Good == {p \in (D \cup {0}) \X SUBSET D : Done(p[1], p[2])}
<1>3. \A m, V : <<m, V>> \in Good <=> m \in D \cup {0} /\ V \in SUBSET D /\ Done(m, V)
    <2> HIDE DEF Done, D
    <2> QED
        OBVIOUS
<1> HIDE DEF Good, D
<1>4. <<0, {}>> \in Good
    <2>1. Cardinality({}) = 0
        BY FS_EmptySet
    <2>2. \A i \in Nat : ~(i < 0)
        OBVIOUS
    <2>3. Done(0, {})
        BY <1>2, <2>1, <2>2 DEF IsKth
    <2> HIDE DEF Done
    <2> QED
        BY <1>3, <2>3
<1>5. ASSUME NEW m, NEW V, TreeAt(heap, m, V), m # 0,
             <<heap[m].left, LowerOf(V, m)>> \in Good, <<heap[m].right, UpperOf(V, m)>> \in Good
      PROVE  <<m, V>> \in Good
    <2> DEFINE L == LowerOf(V, m)
    <2> DEFINE R == UpperOf(V, m)
    <2> DEFINE left == Cardinality(L)
    <2>1. m \in V /\ m \in D /\ V \subseteq D /\ TreeAt(heap, heap[m].left, L)
        BY <1>1, <1>5, TreeParts
    <2>2. /\ V \subseteq Nat /\ m \in Nat /\ L \subseteq V /\ R \subseteq V
          /\ \A j \in L : j < m
          /\ \A j \in R : m < j
        BY <1>1, <1>5, TreeSides
    <2>3. Done(heap[m].left, L) /\ Done(heap[m].right, R)
        <3> HIDE DEF Done
        <3> QED
            BY <1>3, <1>5
    <2>4. SizeOf(heap, heap[m].left) = left
        BY <1>1, <2>1, TreeSize
    <2>5. IsFiniteSet(V)
        BY <1>1, <2>1, GroundSubset
    <2>6. left \in Nat /\ Cardinality(R) \in Nat /\ Cardinality(V) = 1 + left + Cardinality(R)
        BY <2>1, <2>2, <2>5, SidesSize
    <2>7. \A j \in L : LowerOf(V, j) = LowerOf(L, j)
        <3> SUFFICES ASSUME NEW j \in L PROVE LowerOf(V, j) = LowerOf(L, j)
            OBVIOUS
        <3>1. j \in Nat /\ m \in Nat /\ j < m
            BY <2>2
        <3>2. ~(m < j)
            BY <3>1, \A a, b \in Nat : a < b => ~(b < a)
        <3> QED
            BY <2>1, <2>2, <3>1, <3>2, SplitAbove
    <2>8. \A j \in R : Cardinality(LowerOf(V, j)) = left + 1 + Cardinality(LowerOf(R, j))
        <3> SUFFICES ASSUME NEW j \in R PROVE Cardinality(LowerOf(V, j)) = left + 1 + Cardinality(LowerOf(R, j))
            OBVIOUS
        <3>1. j \in Nat /\ m < j
            BY <2>2
        <3> HIDE DEF L, R
        <3>2. Cardinality(LowerOf(V, j)) = Cardinality(LowerOf(V, m)) + 1 + Cardinality(LowerOf(UpperOf(V, m), j))
            BY <1>1, <2>1, <3>1, RankAbove
        <3> QED
            BY <3>2 DEF L, R
    <2>9. ASSUME NEW i \in Nat
          PROVE  IsKth(V, i, find[<<m, i>>])
        <3>1. find[<<m, i>>] = IF i < left THEN find[<<heap[m].left, i>>]
                               ELSE IF i = left THEN m
                               ELSE find[<<heap[m].right, i - (left + 1)>>]
            BY <1>2, <2>1, <2>4
        <3> HIDE DEF L, R
        <3>2. CASE i < left
            <4>1. find[<<m, i>>] \in L /\ Cardinality(LowerOf(L, find[<<m, i>>])) = i
                BY <2>3, <3>1, <3>2 DEF IsKth
            <4>2. i < Cardinality(V)
                BY <2>6, <3>2
            <4> QED
                BY <2>2, <2>7, <4>1, <4>2 DEF IsKth
        <3>3. CASE i = left
            <4>1. find[<<m, i>>] = m
                BY <2>6, <3>1, <3>3
            <4>2. i < Cardinality(V)
                BY <2>6, <3>3
            <4> QED
                BY <2>1, <3>3, <4>1, <4>2 DEF IsKth, L
        <3>4. CASE ~(i < left) /\ i # left
            <4> DEFINE j == i - (left + 1)
            <4> DEFINE x == find[<<heap[m].right, j>>]
            <4>1. j \in Nat /\ i = left + 1 + j
                BY <2>6, <3>4
            <4>2. find[<<m, i>>] = x
                BY <3>1, <3>4
            <4> HIDE DEF j
            <4>3. IsKth(R, j, x)
                BY <2>3, <4>1
            <4> HIDE DEF x, left
            <4>4. CASE j < Cardinality(R) /\ x \in R /\ Cardinality(LowerOf(R, x)) = j
                <5>1. i < Cardinality(V)
                    BY <2>6, <4>1, <4>4
                <5>2. Cardinality(LowerOf(V, x)) = i
                    BY <2>8, <4>1, <4>4
                <5> QED
                    BY <2>2, <4>2, <4>4, <5>1, <5>2 DEF IsKth
            <4>5. CASE ~(j < Cardinality(R)) /\ x = 0
                <5>1. ~(i < Cardinality(V))
                    BY <2>6, <4>1, <4>5
                <5> QED
                    BY <4>2, <4>5, <5>1 DEF IsKth
            <4> QED
                BY <4>3, <4>4, <4>5 DEF IsKth
        <3> QED
            BY <3>2, <3>3, <3>4
    <2>10. Done(m, V)
        BY <2>9
    <2> HIDE DEF Done
    <2> QED
        BY <1>3, <2>1, <2>10
<1>6. <<root, U>> \in Good
    <2> HIDE DEF Done
    <2> QED
        BY <1>1, <1>4, <1>5, TreeInduction
<1>7. Done(root, U)
    <2> HIDE DEF Done
    <2> QED
        BY <1>3, <1>6
<1> QED
    BY <1>2, <1>7

\* The parents in a tree lead up.
LEMMA TreeRooted ==
    ASSUME NEW h, HeapOk(h), Graded(h), NEW r, TreeAt(h, r, DOMAIN h), r # 0 => h[r].parent = 0
    PROVE  Rooted(h)
<1> DEFINE D == DOMAIN h
<1>1. Ground(D) /\ h \in LooseOn(D)
    BY HeapIsLoose
<1> DEFINE Up(k) == h[k].parent \in D /\ h[k].size < h[h[k].parent].size
<1> DEFINE Good == {p \in (D \cup {0}) \X SUBSET D : \A k \in p[2] \ {p[1]} : Up(k)}
<1>2. \A m, V : <<m, V>> \in Good <=> m \in D \cup {0} /\ V \in SUBSET D /\ \A k \in V \ {m} : Up(k)
    <2> HIDE DEF Up, D
    <2> QED
        OBVIOUS
<1> HIDE DEF Good, D
<1>3. <<0, {}>> \in Good
    BY <1>2
<1>4. ASSUME NEW m, NEW V, TreeAt(h, m, V), m # 0,
             <<h[m].left, LowerOf(V, m)>> \in Good, <<h[m].right, UpperOf(V, m)>> \in Good
      PROVE  <<m, V>> \in Good
    <2>1. /\ m \in D /\ V \subseteq D
          /\ \A c \in {h[m].left, h[m].right} \ {0} : h[c].parent = m
        BY <1>1, <1>4, TreeParts
    <2>2. \A k \in V \ {m} : k \in LowerOf(V, m) \/ k \in UpperOf(V, m)
        BY <1>1, <1>4, TreeSides
    <2>3. \A c \in {h[m].left, h[m].right} \ {0} : h[c].size < h[m].size
        BY <2>1, HeapFacts DEF Graded, SizeOf, D
    <2>4. ASSUME NEW k \in V \ {m} PROVE Up(k)
        <3>1. k # 0
            BY <1>1, <2>1 DEF Ground
        <3>2. CASE k \in {h[m].left, h[m].right}
            BY <2>1, <2>3, <3>1, <3>2
        <3>3. CASE k \notin {h[m].left, h[m].right}
            <4> HIDE DEF Up
            <4> QED
                BY <1>2, <1>4, <2>2, <3>3
        <3> QED
            BY <3>2, <3>3
    <2> HIDE DEF Up
    <2> QED
        BY <1>2, <2>1, <2>4
<1>5. <<r, D>> \in Good
    <2>1. TreeAt(h, r, D)
        BY DEF D
    <2> HIDE DEF Up
    <2> QED
        BY <1>1, <1>3, <1>4, <2>1, TreeInduction
<1>6. \A k \in D \ {r} : Up(k)
    <2> HIDE DEF Up
    <2> QED
        BY <1>2, <1>5
<1>7. 0 \notin D
    BY <1>1 DEF Ground
<1> QED
    BY <1>6, <1>7 DEF Rooted, Pointers, D

\* The nodes on n are those between the two the ways up from n end at.
Bounded(h, K, n, V) ==
    /\ V = Between(K, ClimbLeft(h, n), ClimbRight(h, n))
    /\ ClimbLeft(h, n) \in K \cup {0} /\ ClimbRight(h, n) \in K \cup {0}

LEMMA ChildrenBounded ==
    ASSUME NEW h, HeapOk(h), Graded(h), Rooted(h),
           NEW m, NEW V, TreeAt(h, m, V), m # 0, Bounded(h, DOMAIN h, m, V)
    PROVE  /\ h[m].left # 0 => Bounded(h, DOMAIN h, h[m].left, LowerOf(V, m))
           /\ h[m].right # 0 => Bounded(h, DOMAIN h, h[m].right, UpperOf(V, m))
<1> DEFINE D == DOMAIN h
<1>1. Ground(D) /\ h \in LooseOn(D)
    BY HeapIsLoose
<1> DEFINE a == ClimbLeft(h, m)
<1> DEFINE b == ClimbRight(h, m)
<1>2. V = Between(D, a, b) /\ a \in D \cup {0} /\ b \in D \cup {0}
    BY DEF Bounded
<1> HIDE DEF a, b, D
<1>3. /\ m \in V /\ m \in D /\ TreeAt(h, h[m].left, LowerOf(V, m)) /\ TreeAt(h, h[m].right, UpperOf(V, m))
      /\ \A c \in {h[m].left, h[m].right} \ {0} : h[c].parent = m
    BY <1>1, TreeParts
<1>4. D \subseteq Nat /\ a \in Nat /\ b \in Nat
    BY <1>1, <1>2 DEF Ground
<1>5. LowerOf(V, m) = Between(D, a, m) /\ UpperOf(V, m) = Between(D, m, b)
    BY <1>2, <1>3, <1>4, BetweenSides
<1>6. /\ h[m].left # 0 => h[m].left \in LowerOf(V, m) /\ h[m].left \in D
      /\ h[m].right # 0 => h[m].right \in UpperOf(V, m) /\ h[m].right \in D
    BY <1>1, <1>3, TreeParts
<1>7. h[m].left # 0 => h[m].left # h[m].right
    <2>1. \A k \in LowerOf(V, m) : k \notin UpperOf(V, m)
        BY <1>1, TreeSides
    <2> QED
        BY <1>6, <2>1
<1>8. ASSUME h[m].left # 0 PROVE ClimbRight(h, h[m].left) = m /\ ClimbLeft(h, h[m].left) = a
    <2>1. h[m].left \in DOMAIN h /\ h[h[m].left].parent = m
        BY <1>3, <1>6, <1>8 DEF D
    <2> QED
        BY <1>7, <1>8, <2>1, ClimbRightEq, ClimbLeftEq DEF a
<1>9. ASSUME h[m].right # 0 PROVE ClimbLeft(h, h[m].right) = m /\ ClimbRight(h, h[m].right) = b
    <2>1. h[m].right \in DOMAIN h /\ h[h[m].right].parent = m
        BY <1>3, <1>6, <1>9 DEF D
    <2>2. h[m].left # h[m].right
        BY <1>7, <1>9
    <2> QED
        BY <2>1, <2>2, ClimbRightEq, ClimbLeftEq DEF b
<1> QED
    BY <1>2, <1>3, <1>5, <1>8, <1>9 DEF Bounded, D

\* The keys under a node are those between the ends of its two ways up.
LEMMA NodesBounded ==
    ASSUME NEW h, HeapOk(h), Graded(h), NEW r, TreeAt(h, r, DOMAIN h), r # 0 => h[r].parent = 0
    PROVE  \A k \in DOMAIN h : \E W : TreeAt(h, k, W) /\ Bounded(h, DOMAIN h, k, W)
<1> DEFINE D == DOMAIN h
<1>1. Ground(D) /\ h \in LooseOn(D)
    BY HeapIsLoose
<1>2. Rooted(h)
    BY TreeRooted
<1> DEFINE Has(k) == \E W : TreeAt(h, k, W) /\ Bounded(h, D, k, W)
<1> DEFINE Good == {p \in (D \cup {0}) \X SUBSET D : (p[1] # 0 /\ Bounded(h, D, p[1], p[2])) => \A k \in p[2] : Has(k)}
<1>3. \A m, V : <<m, V>> \in Good <=> /\ m \in D \cup {0} /\ V \in SUBSET D
                                      /\ (m # 0 /\ Bounded(h, D, m, V)) => \A k \in V : Has(k)
    <2> HIDE DEF Has, D
    <2> QED
        OBVIOUS
<1> HIDE DEF Good, D
<1>4. <<0, {}>> \in Good
    BY <1>3
<1>5. ASSUME NEW m, NEW V, TreeAt(h, m, V), m # 0,
             <<h[m].left, LowerOf(V, m)>> \in Good, <<h[m].right, UpperOf(V, m)>> \in Good
      PROVE  <<m, V>> \in Good
    <2>1. /\ m \in D /\ V \subseteq D
          /\ TreeAt(h, h[m].left, LowerOf(V, m)) /\ TreeAt(h, h[m].right, UpperOf(V, m))
        BY <1>1, <1>5, TreeParts
    <2>2. \A k \in V : k = m \/ k \in LowerOf(V, m) \/ k \in UpperOf(V, m)
        BY <1>1, <1>5, TreeSides
    <2>3. ASSUME Bounded(h, D, m, V), NEW k \in V
          PROVE  Has(k)
        <3>1. /\ h[m].left # 0 => Bounded(h, D, h[m].left, LowerOf(V, m))
              /\ h[m].right # 0 => Bounded(h, D, h[m].right, UpperOf(V, m))
            BY <1>2, <1>5, <2>3, ChildrenBounded DEF D
        <3>2. CASE k = m
            BY <1>5, <2>3, <3>2
        <3> HIDE DEF Has
        <3>3. CASE k \in LowerOf(V, m)
            <4>1. h[m].left # 0
                BY <1>1, <2>1, <3>3, TreeParts
            <4> QED
                BY <1>3, <1>5, <3>1, <3>3, <4>1
        <3>4. CASE k \in UpperOf(V, m)
            <4>1. h[m].right # 0
                BY <1>1, <2>1, <3>4, TreeParts
            <4> QED
                BY <1>3, <1>5, <3>1, <3>4, <4>1
        <3> QED
            BY <2>2, <3>2, <3>3, <3>4
    <2> HIDE DEF Has
    <2> QED
        BY <1>3, <2>1, <2>3
<1>6. TreeAt(h, r, D)
    BY DEF D
<1>7. <<r, D>> \in Good
    <2> HIDE DEF Has
    <2> QED
        BY <1>1, <1>4, <1>5, <1>6, TreeInduction
<1>8. r # 0 => Bounded(h, D, r, D)
    <2> SUFFICES ASSUME r # 0 PROVE Bounded(h, D, r, D)
        OBVIOUS
    <2>1. r \in DOMAIN h /\ h[r].parent = 0
        BY <1>1, <1>6, TreeParts DEF D
    <2>2. ClimbLeft(h, r) = 0 /\ ClimbRight(h, r) = 0
        BY <1>2, <2>1, ClimbLeftEq, ClimbRightEq
    <2>3. \A k \in D : 0 < k
        BY <1>1 DEF Ground
    <2>4. Between(D, 0, 0) = D
        BY <2>3 DEF Between
    <2> QED
        BY <2>2, <2>4 DEF Bounded
<1>9. r = 0 => D = {}
    BY <1>1, <1>6, TreeParts
<1>10. \A k \in D : Has(k)
    <2> HIDE DEF Has
    <2> QED
        BY <1>3, <1>7, <1>8, <1>9
<1> QED
    BY <1>10 DEF D

\* ++ of an iterator goes to the next key up, -- to the next one down.
LEMMA SuccessorTree ==
    ASSUME NEW h, HeapOk(h), Graded(h), NEW r, TreeAt(h, r, DOMAIN h), r # 0 => h[r].parent = 0,
           NEW n \in DOMAIN h
    PROVE  IsLeast({k \in DOMAIN h : n < k}, Successor(h, n))
<1> DEFINE D == DOMAIN h
<1>1. Ground(D) /\ h \in LooseOn(D)
    BY HeapIsLoose
<1>2. PICK W : TreeAt(h, n, W) /\ Bounded(h, D, n, W)
    BY NodesBounded
<1> DEFINE a == ClimbLeft(h, n)
<1> DEFINE b == ClimbRight(h, n)
<1>3. W = Between(D, a, b) /\ a \in D \cup {0} /\ b \in D \cup {0}
    BY <1>2 DEF Bounded
<1> DEFINE S == {k \in D : n < k}
<1> DEFINE x == Successor(h, n)
<1>4. n # 0 /\ x = IF h[n].right # 0 THEN Leftmost(h, h[n].right) ELSE b
    BY HeapFacts DEF Successor
<1>5. n \in D
    OBVIOUS
<1>6. IsLeast(S, x)
    <2> HIDE DEF a, b, D, x
    <2>0. D \subseteq Nat /\ 0 \notin D
        BY <1>1 DEF Ground
    <2>1. D \subseteq Nat /\ a \in Nat /\ b \in Nat /\ n \in Nat /\ 0 \notin D
        <3>1. a \in Nat /\ b \in Nat
            BY <1>3, <2>0
        <3> QED
            BY <1>5, <2>0, <3>1
    <2>2. n \in W /\ TreeAt(h, h[n].right, UpperOf(W, n))
        BY <1>1, <1>2, <1>4, TreeParts
    <2>3. a < n /\ (b = 0 \/ n < b)
        BY <1>3, <2>2 DEF Between
    <2>4. \A k \in S : k \in UpperOf(W, n) \/ (b # 0 /\ ~(k < b))
        <3>1. \A k \in Nat : n < k => a < k
            BY <2>1, <2>3
        <3> QED
            BY <1>3, <2>1, <3>1 DEF Between, UpperOf
    <2>5. CASE h[n].right # 0
        <3>1. IsLeast(UpperOf(W, n), x)
            BY <1>4, <2>2, <2>5, LeftmostTree
        <3>2. UpperOf(W, n) # {}
            BY <1>1, <2>2, <2>5, TreeParts
        <3>3. x \in UpperOf(W, n) /\ \A j \in UpperOf(W, n) : x <= j
            BY <3>1, <3>2 DEF IsLeast
        <3>4. x \in S /\ x \in Nat /\ (b = 0 \/ x < b)
            BY <1>3, <2>1, <3>3 DEF Between, UpperOf
        <3>5. ASSUME NEW k \in S PROVE x <= k
            <4>1. k \in Nat
                BY <2>1
            <4>2. CASE k \in UpperOf(W, n)
                BY <3>3, <4>2
            <4>3. CASE b # 0 /\ ~(k < b)
                BY <2>1, <3>4, <4>1, <4>3
            <4> QED
                BY <2>4, <4>2, <4>3
        <3> QED
            BY <3>4, <3>5 DEF IsLeast
    <2>6. CASE h[n].right = 0
        <3>1. UpperOf(W, n) = {} /\ x = b
            BY <1>1, <1>4, <2>2, <2>6, TreeParts
        <3>2. CASE b = 0
            BY <2>4, <3>1, <3>2 DEF IsLeast
        <3>3. CASE b # 0
            <4>1. b \in S
                BY <1>3, <2>3, <3>3
            <4>2. \A k \in S : b <= k
                <5>1. \A k \in S : k \in Nat /\ ~(k < b)
                    BY <2>1, <2>4, <3>1
                <5> QED
                    BY <2>1, <5>1
            <4> QED
                BY <3>1, <4>1, <4>2 DEF IsLeast
        <3> QED
            BY <3>2, <3>3
    <2> QED
        BY <2>5, <2>6
<1> QED
    BY <1>6

\* -- goes to the greatest lower key.
LEMMA PredecessorTree ==
    ASSUME NEW h, HeapOk(h), Graded(h), NEW r, TreeAt(h, r, DOMAIN h), r # 0 => h[r].parent = 0,
           NEW n \in DOMAIN h
    PROVE  IsGreatest({k \in DOMAIN h : k < n}, Predecessor(h, n))
<1> DEFINE D == DOMAIN h
<1>1. Ground(D) /\ h \in LooseOn(D)
    BY HeapIsLoose
<1>2. PICK W : TreeAt(h, n, W) /\ Bounded(h, D, n, W)
    BY NodesBounded
<1> DEFINE a == ClimbLeft(h, n)
<1> DEFINE b == ClimbRight(h, n)
<1>3. W = Between(D, a, b) /\ a \in D \cup {0} /\ b \in D \cup {0}
    BY <1>2 DEF Bounded
<1> DEFINE S == {k \in D : k < n}
<1> DEFINE x == Predecessor(h, n)
<1>4. n # 0 /\ x = IF h[n].left # 0 THEN Rightmost(h, h[n].left) ELSE a
    BY HeapFacts DEF Predecessor
<1>5. n \in D
    OBVIOUS
<1>6. IsGreatest(S, x)
    <2> HIDE DEF a, b, D, x
    <2>0. D \subseteq Nat /\ 0 \notin D
        BY <1>1 DEF Ground
    <2>1. D \subseteq Nat /\ a \in Nat /\ b \in Nat /\ n \in Nat /\ 0 \notin D
        <3>1. a \in Nat /\ b \in Nat
            BY <1>3, <2>0
        <3> QED
            BY <1>5, <2>0, <3>1
    <2>2. n \in W /\ TreeAt(h, h[n].left, LowerOf(W, n))
        BY <1>1, <1>2, <1>4, TreeParts
    <2>3. a < n /\ (b = 0 \/ n < b)
        BY <1>3, <2>2 DEF Between
    <2>4. \A k \in S : k \in LowerOf(W, n) \/ ~(a < k)
        <3>1. \A k \in Nat : k < n => b = 0 \/ k < b
            BY <2>1, <2>3
        <3> QED
            BY <1>3, <2>1, <3>1 DEF Between, LowerOf
    <2>5. CASE h[n].left # 0
        <3>1. IsGreatest(LowerOf(W, n), x)
            BY <1>4, <2>2, <2>5, RightmostTree
        <3>2. LowerOf(W, n) # {}
            BY <1>1, <2>2, <2>5, TreeParts
        <3>3. x \in LowerOf(W, n) /\ \A j \in LowerOf(W, n) : j <= x
            BY <3>1, <3>2 DEF IsGreatest
        <3>4. x \in S /\ x \in Nat /\ a < x
            BY <1>3, <2>1, <3>3 DEF Between, LowerOf
        <3>5. ASSUME NEW k \in S PROVE k <= x
            <4>1. k \in Nat
                BY <2>1
            <4>2. CASE k \in LowerOf(W, n)
                BY <3>3, <4>2
            <4>3. CASE ~(a < k)
                BY <2>1, <3>4, <4>1, <4>3
            <4> QED
                BY <2>4, <4>2, <4>3
        <3> QED
            BY <3>4, <3>5 DEF IsGreatest
    <2>6. CASE h[n].left = 0
        <3>1. LowerOf(W, n) = {} /\ x = a
            BY <1>1, <1>4, <2>2, <2>6, TreeParts
        <3>2. \A k \in S : k \in Nat /\ k # 0 /\ ~(a < k)
            BY <2>1, <2>4, <3>1
        <3>3. CASE a = 0
            <4>1. \A k \in Nat : ~(0 < k) => k = 0
                OBVIOUS
            <4>2. S = {}
                BY <3>2, <3>3, <4>1
            <4> QED
                BY <3>1, <3>3, <4>2 DEF IsGreatest
        <3>4. CASE a # 0
            <4>1. a \in S
                BY <1>3, <2>3, <3>4
            <4>2. \A k \in S : k <= a
                BY <2>1, <3>2
            <4> QED
                BY <3>1, <4>1, <4>2 DEF IsGreatest
        <3> QED
            BY <3>3, <3>4
    <2> QED
        BY <2>5, <2>6
<1> QED
    BY <1>6

-----------------------------------------------------------------------------
(* OrderTree: the keys hang on the root, and every update leaves it so.     *)

TreeInv ==
    /\ keys \subseteq 1..MaxKey
    /\ heap \in LooseOn(keys)
    /\ TreeAt(heap, root, keys)
    /\ root # 0 => heap[root].parent = 0

LEMMA KeysGround == ASSUME NEW K, K \subseteq 1..MaxKey PROVE Ground(K)
<1>1. IsFiniteSet(1..MaxKey)
    BY TreeAssumption, FS_Interval
<1>2. IsFiniteSet(K)
    BY <1>1, FS_Subset
<1>3. \A k \in 1..MaxKey : k \in Nat \ {0}
    BY TreeAssumption
<1> QED
    BY <1>2, <1>3 DEF Ground

\* What TreeInv says of the heap and of the tree on the root.
LEMMA TreeFacts ==
    ASSUME TreeInv
    PROVE  /\ Ground(keys) /\ heap \in LooseOn(keys) /\ HeapOk(heap) /\ Graded(heap) /\ DOMAIN heap = keys
           /\ TreeAt(heap, root, keys) /\ (root # 0 => heap[root].parent = 0)
<1>1. Ground(keys)
    BY KeysGround DEF TreeInv
<1>2. heap \in LooseOn(keys) /\ TreeAt(heap, root, keys) /\ (root # 0 => heap[root].parent = 0)
    BY DEF TreeInv
<1>3. \A m \in keys : \E n, U : TreeAt(heap, n, U) /\ m \in U
    BY <1>2
<1> QED
    BY <1>1, <1>2, <1>3, ForestGraded

\* What insert and erase settle on is a tree without a parent.
LEMMA SettledTree ==
    ASSUME NEW K, K \subseteq 1..MaxKey, keys' = K, NEW m, m.heap \in LooseOn(K), TreeAt(m.heap, m.root, K),
           Settled(m)
    PROVE  TreeInv'
<1> DEFINE g == WithParent(m.heap, {m.root}, 0)
<1>1. Ground(K)
    BY KeysGround
<1>2. TreeAt(g, m.root, K)
    BY <1>1, WithParentTree
<1>3. /\ g \in LooseOn(K)
      /\ \A k \in K : g[k].parent = IF k \in {m.root} THEN 0 ELSE m.heap[k].parent
    BY WithParentFields
<1>4. m.root # 0 => m.root \in K
    BY <1>1, TreeParts
<1>5. heap' = g /\ root' = m.root
    BY DEF Settled
<1> HIDE DEF g
<1>6. m.root # 0 => g[m.root].parent = 0
    BY <1>3, <1>4
<1> QED
    BY <1>2, <1>3, <1>5, <1>6 DEF TreeInv

\* Both halves of a split, in one heap.
LEMMA HalvesTree ==
    ASSUME TreeInv, NEW key \in 1..MaxKey
    PROVE  LET s == Split(heap, root, key) IN
           /\ s.heap \in LooseOn(keys) /\ HeapOk(s.heap) /\ Graded(s.heap) /\ DOMAIN s.heap = keys
           /\ TreeAt(s.heap, s.lo, LowerOf(keys, key)) /\ TreeAt(s.heap, s.hi, FromOf(keys, key))
           /\ keys = LowerOf(keys, key) \cup FromOf(keys, key)
           /\ LowerOf(keys, key) \cap FromOf(keys, key) = {}
           /\ key \notin LowerOf(keys, key)
           /\ Ordered(LowerOf(keys, key), {key} \cup FromOf(keys, key))
<1> DEFINE s == Split(heap, root, key)
<1> DEFINE L == LowerOf(keys, key)
<1> DEFINE F == FromOf(keys, key)
<1>1. Ground(keys) /\ HeapOk(heap) /\ Graded(heap) /\ DOMAIN heap = keys /\ TreeAt(heap, root, keys)
    BY TreeFacts
<1>2. key \in Nat /\ keys \subseteq Nat
    BY <1>1 DEF Ground
<1>3. SplitInto(keys, heap, keys, key, s)
    BY <1>1, <1>2, SplitTree
<1>4. s.heap \in LooseOn(keys) /\ TreeAt(s.heap, s.lo, L) /\ TreeAt(s.heap, s.hi, F)
    BY <1>3 DEF SplitInto, Keeps
<1>5. keys = L \cup F /\ L \cap F = {} /\ key \notin L
    <2>1. ~(key < key)
        BY <1>2
    <2> QED
        BY <2>1 DEF LowerOf, FromOf
<1>6. Ordered(L, {key} \cup F)
    <2>1. \A k \in L : k \in Nat /\ k < key
        BY <1>2 DEF LowerOf
    <2>2. \A k \in F : k \in Nat /\ ~(k < key)
        BY <1>2 DEF FromOf
    <2>3. \A i, j \in Nat : i < key /\ ~(j < key) => i < j
        BY <1>2
    <2> HIDE DEF L, F
    <2> QED
        BY <1>2, <2>1, <2>2, <2>3 DEF Ordered
<1> HIDE DEF s, L, F
<1>7. \A m \in keys : \E n, U : TreeAt(s.heap, n, U) /\ m \in U
    BY <1>4, <1>5
<1>8. HeapOk(s.heap) /\ Graded(s.heap) /\ DOMAIN s.heap = keys
    BY <1>1, <1>4, <1>7, ForestGraded
<1> QED
    BY <1>4, <1>5, <1>6, <1>8 DEF s, L, F

LEMMA MergeTwo ==
    ASSUME NEW D, Ground(D), NEW h \in LooseOn(D), NEW a, NEW U, TreeAt(h, a, U),
           NEW b, NEW V, TreeAt(h, b, V), Ordered(U, V),
           \A m \in D : m \in U \/ m \in V \/ \E n, W : TreeAt(h, n, W) /\ m \in W
    PROVE  MergedInto(D, h, U \cup V, Merge(h, a, b))
<1>1. \A m \in D : \E n, W : TreeAt(h, n, W) /\ m \in W
    OBVIOUS
<1>2. HeapOk(h) /\ Graded(h) /\ DOMAIN h = D
    BY <1>1, ForestGraded
<1> QED
    BY <1>2, MergeTree

\* An insert adds the key.
LEMMA InsertTree ==
    ASSUME TreeInv, NEW key \in 1..MaxKey, NEW priority \in Nat, Insert(key, priority)
    PROVE  TreeInv'
<1>1. /\ Ground(keys) /\ heap \in LooseOn(keys) /\ HeapOk(heap) /\ Graded(heap)
      /\ TreeAt(heap, root, keys) /\ key \in Nat /\ key # 0 /\ keys \subseteq 1..MaxKey
    BY TreeFacts DEF TreeInv
<1>2. Find(key) = IF key \in keys THEN key ELSE 0
    BY <1>1, FindTree
<1>3. CASE key \in keys
    <2>1. keys' = keys /\ heap' = heap /\ root' = root
        BY <1>1, <1>2, <1>3 DEF Insert
    <2> QED
        BY <2>1 DEF TreeInv
<1>4. CASE key \notin keys
    <2> DEFINE s == Split(heap, root, key)
    <2> DEFINE E == keys \cup {key}
    <2> DEFINE fresh == [k \in E |-> IF k = key THEN Node(priority) ELSE s.heap[k]]
    <2> DEFINE below == Merge(fresh, s.lo, key)
    <2> DEFINE above == Merge(below.heap, below.root, s.hi)
    <2> DEFINE L == LowerOf(keys, key)
    <2> DEFINE F == FromOf(keys, key)
    <2>1. /\ s.heap \in LooseOn(keys) /\ DOMAIN s.heap = keys
          /\ TreeAt(s.heap, s.lo, L) /\ TreeAt(s.heap, s.hi, F)
          /\ keys = L \cup F /\ L \cap F = {} /\ key \notin L
          /\ Ordered(L, {key} \cup F)
        BY HalvesTree
    <2>2. Settled(above) /\ keys' = E
        BY <1>2, <1>4, <2>1 DEF Insert
    <2> HIDE DEF L, F, s
    <2>3. E \subseteq 1..MaxKey /\ Ground(E)
        BY <1>1, KeysGround
    <2>4. fresh \in LooseOn(E) /\ fresh[key] = Node(priority) /\ \A k \in keys : fresh[k] = s.heap[k]
        <3>1. Node(priority) \in NodeIn(Nat)
            BY DEF Node, NodeIn
        <3>2. \A k \in keys : s.heap[k] \in NodeIn(Nat)
            BY <2>1 DEF LooseOn
        <3> QED
            BY <1>4, <3>1, <3>2 DEF LooseOn
    <2> HIDE DEF fresh, E
    <2>5. keys \subseteq E /\ key \in E /\ E = L \cup {key} \cup F /\ L \subseteq E /\ F \subseteq E
        BY <2>1 DEF E
    <2>6. TreeAt(fresh, s.lo, L)
        <3>1. SameTree(s.heap, fresh, s.lo, L)
            BY <2>1, <2>4 DEF SameTree
        <3> QED
            BY <1>1, <2>1, <2>4, <2>5, <3>1, TreeFrame
    <2>7. TreeAt(fresh, s.hi, F)
        <3>1. SameTree(s.heap, fresh, s.hi, F)
            BY <2>1, <2>4 DEF SameTree
        <3> QED
            BY <1>1, <2>1, <2>4, <2>5, <3>1, TreeFrame
    <2>8. TreeAt(fresh, key, {key})
        <3>1. /\ fresh[key].left = 0 /\ fresh[key].right = 0 /\ fresh[key].size = 1
            BY <2>4 DEF Node
        <3>2. fresh[key].size = 1 + SizeOf(fresh, fresh[key].left) + SizeOf(fresh, fresh[key].right)
            BY <3>1 DEF SizeOf
        <3>3. TreeAt(fresh, 0, {})
            BY TreeNone
        <3>4. TreeAt(fresh, key, {} \cup {key} \cup {})
            BY <2>3, <2>4, <2>5, <3>1, <3>2, <3>3, TreeMake
        <3> QED
            BY <3>4
    <2>9. Ordered(L, {key}) /\ Ordered(L \cup {key}, F)
        <3>1. \A k \in F : k \in Nat /\ ~(k < key) /\ k # key
            BY <1>1, <1>4, <2>1 DEF F, FromOf, Ground
        <3>2. \A k \in Nat : ~(k < key) /\ k # key => key < k
            BY <1>1
        <3> QED
            BY <2>1, <3>1, <3>2 DEF Ordered
    <2>10. MergedInto(E, fresh, L \cup {key}, below)
        <3>1. \A m \in E : m \in L \/ m \in {key} \/ \E n, W : TreeAt(fresh, n, W) /\ m \in W
            BY <2>5, <2>7
        <3> QED
            BY <2>3, <2>4, <2>6, <2>8, <2>9, <3>1, MergeTwo
    <2> HIDE DEF below
    <2>11. below.heap \in LooseOn(E) /\ TreeAt(below.heap, below.root, L \cup {key})
        BY <2>10 DEF MergedInto, Keeps
    <2>12. TreeAt(below.heap, s.hi, F)
        <3>1. F \cap (L \cup {key}) = {}
            BY <1>4, <2>1
        <3>2. Keeps(E, L \cup {key}, fresh, below.heap)
            BY <2>10 DEF MergedInto
        <3> QED
            BY <2>3, <2>7, <3>1, <3>2, KeepsTree
    <2>13. MergedInto(E, below.heap, L \cup {key} \cup F, above)
        <3>1. \A m \in E : m \in L \cup {key} \/ m \in F \/ \E n, W : TreeAt(below.heap, n, W) /\ m \in W
            BY <2>5
        <3> DEFINE U == L \cup {key}
        <3>2. TreeAt(below.heap, below.root, U) /\ Ordered(U, F)
              /\ \A m \in E : m \in U \/ m \in F \/ \E n, W : TreeAt(below.heap, n, W) /\ m \in W
            BY <2>9, <2>11, <3>1
        <3> HIDE DEF U
        <3>3. MergedInto(E, below.heap, U \cup F, above)
            BY <2>3, <2>11, <2>12, <3>2, MergeTwo
        <3> QED
            BY <3>3 DEF U
    <2> HIDE DEF above
    <2>14. above.heap \in LooseOn(E) /\ TreeAt(above.heap, above.root, E)
        BY <2>5, <2>13 DEF MergedInto, Keeps
    <2> QED
        BY <2>2, <2>3, <2>14, SettledTree
<1> QED
    BY <1>3, <1>4

\* An erase takes the key away, if it was there.
LEMMA EraseKeyTree ==
    ASSUME TreeInv, NEW key \in 1..MaxKey, Erase(key)
    PROVE  TreeInv'
<1> DEFINE s == Split(heap, root, key)
<1> DEFINE rest == IF Leftmost(s.heap, s.hi) = key THEN EraseLeftmost(s.heap, s.hi)
                   ELSE [heap |-> s.heap, root |-> s.hi]
<1> DEFINE merged == Merge(rest.heap, s.lo, rest.root)
<1> DEFINE L == LowerOf(keys, key)
<1> DEFINE F == FromOf(keys, key)
<1> DEFINE E == keys \ {key}
<1>1. Ground(keys) /\ key \in Nat /\ key # 0 /\ keys \subseteq 1..MaxKey
    BY TreeFacts DEF TreeInv
<1>2. /\ s.heap \in LooseOn(keys) /\ HeapOk(s.heap) /\ Graded(s.heap) /\ DOMAIN s.heap = keys
      /\ TreeAt(s.heap, s.lo, L) /\ TreeAt(s.heap, s.hi, F)
      /\ keys = L \cup F /\ L \cap F = {} /\ key \notin L
      /\ Ordered(L, {key} \cup F)
    BY HalvesTree
<1>3. Settled(merged) /\ keys' = E
    BY DEF Erase
<1> HIDE DEF s, merged, L, F
<1>4. E \subseteq 1..MaxKey /\ Ground(E) /\ E = L \cup (F \ {key}) /\ L \subseteq E
    BY <1>1, <1>2, KeysGround
<1>5. IsLeast(F, Leftmost(s.heap, s.hi))
    BY <1>2, LeftmostTree
<1>6. /\ rest.heap \in LooseOn(E)
      /\ TreeAt(rest.heap, s.lo, L) /\ TreeAt(rest.heap, rest.root, F \ {key})
    <2>1. CASE Leftmost(s.heap, s.hi) = key
        <3>1. key \in F
            BY <1>1, <1>5, <2>1 DEF IsLeast
        <3>2. s.hi # 0
            BY <1>1, <1>2, <3>1, TreeParts
        <3>3. rest = EraseLeftmost(s.heap, s.hi)
            BY <2>1
        <3> HIDE DEF rest
        <3>4. Erased(keys, s.heap, F, key, rest)
            BY <1>2, <2>1, <3>2, <3>3, EraseTree
        <3>5. /\ rest.heap \in LooseOn(E) /\ TreeAt(rest.heap, rest.root, F \ {key})
              /\ \A k \in keys \ F : rest.heap[k] = s.heap[k]
            BY <3>4 DEF Erased
        <3>6. SameTree(s.heap, rest.heap, s.lo, L)
            BY <1>2, <3>5 DEF SameTree
        <3>7. TreeAt(rest.heap, s.lo, L)
            BY <1>1, <1>2, <1>4, <3>5, <3>6, TreeFrame
        <3> QED
            BY <3>5, <3>7
    <2>2. CASE Leftmost(s.heap, s.hi) # key
        <3> DEFINE x == Leftmost(s.heap, s.hi)
        <3>1. key \notin F
            <4> SUFFICES ASSUME key \in F PROVE FALSE
                OBVIOUS
            <4>1. x \in F /\ x <= key
                BY <1>5 DEF IsLeast
            <4>2. x \in Nat /\ ~(x < key)
                BY <1>1, <4>1 DEF F, FromOf, Ground
            <4> HIDE DEF x
            <4>3. x = key
                BY <1>1, <4>1, <4>2
            <4> QED
                BY <2>2, <4>3 DEF x
        <3>2. rest.heap = s.heap /\ rest.root = s.hi
            BY <2>2
        <3>3. E = keys /\ F \ {key} = F
            BY <1>2, <3>1
        <3> HIDE DEF rest, E
        <3> QED
            BY <1>2, <3>2, <3>3
    <2> QED
        BY <2>1, <2>2
<1> HIDE DEF rest
<1>7. Ordered(L, F \ {key})
    BY <1>2 DEF Ordered
<1>8. MergedInto(E, rest.heap, L \cup (F \ {key}), merged)
    <2>1. \A m \in E : m \in L \/ m \in F \ {key} \/ \E n, W : TreeAt(rest.heap, n, W) /\ m \in W
        BY <1>4
    <2> DEFINE V == F \ {key}
    <2>2. TreeAt(rest.heap, rest.root, V) /\ Ordered(L, V)
          /\ \A m \in E : m \in L \/ m \in V \/ \E n, W : TreeAt(rest.heap, n, W) /\ m \in W
        BY <1>6, <1>7, <2>1
    <2> HIDE DEF V, E
    <2>3. MergedInto(E, rest.heap, L \cup V, Merge(rest.heap, s.lo, rest.root))
        BY <1>4, <1>6, <2>2, MergeTwo
    <2> QED
        BY <2>3 DEF V, merged
<1>9. merged.heap \in LooseOn(E) /\ TreeAt(merged.heap, merged.root, E)
    BY <1>4, <1>8 DEF MergedInto, Keeps
<1> HIDE DEF E
<1> QED
    BY <1>3, <1>4, <1>9, SettledTree

LEMMA EmptyTree ==
    ASSUME TreeInv, Empty
    PROVE  TreeInv'
<1>1. HeapOk(heap) /\ Graded(heap) /\ DOMAIN heap = keys /\ TreeAt(heap, root, keys) /\ 0 \in Pointers(heap)
    BY TreeFacts DEF Pointers
<1>2. DOMAIN Clone(heap, root, 0) = keys
    BY <1>1, CloneTree DEF Cloned
<1>3. heap' \in LooseOn({}) /\ root' = 0 /\ keys' = {}
    BY <1>1, <1>2 DEF Empty, Destroy, LooseOn
<1>4. TreeAt(heap', 0, {})
    BY TreeNone
<1> QED
    BY <1>3, <1>4 DEF TreeInv

\* A copy has the same keys.
LEMMA CopyTree ==
    ASSUME TreeInv, Copy
    PROVE  TreeInv'
<1>1. HeapOk(heap) /\ Graded(heap) /\ TreeAt(heap, root, keys) /\ 0 \in Pointers(heap)
    BY TreeFacts DEF Pointers
<1> DEFINE c == Clone(heap, root, 0)
<1>2. c \in LooseOn(keys) /\ TreeAt(c, root, keys) /\ (root # 0 => c[root].parent = 0)
    BY <1>1, CloneIsTree
<1>3. heap' = c /\ root' = root /\ keys' = keys
    BY DEF Copy
<1> HIDE DEF c
<1>4. keys \subseteq 1..MaxKey
    BY DEF TreeInv
<1> QED
    BY <1>2, <1>3, <1>4 DEF TreeInv

LEMMA TreeBegins == TreeInit => TreeInv
<1> SUFFICES ASSUME TreeInit PROVE TreeInv
    OBVIOUS
<1>1. heap \in LooseOn({}) /\ root = 0 /\ keys = {}
    BY DEF TreeInit, NoNodes, LooseOn
<1>2. TreeAt(heap, 0, {})
    BY TreeNone
<1> QED
    BY <1>1, <1>2 DEF TreeInv

\* Every step of the treap keeps the invariant.
LEMMA TreeStep == TreeInv /\ [TreeNext]_treeVars => TreeInv'
<1> SUFFICES ASSUME TreeInv, [TreeNext]_treeVars PROVE TreeInv'
    OBVIOUS
<1>1. CASE UNCHANGED treeVars
    BY <1>1 DEF treeVars, TreeInv
<1>2. ASSUME NEW key \in 1..MaxKey, Erase(key) PROVE TreeInv'
    BY <1>2, EraseKeyTree
<1>3. ASSUME NEW key \in 1..MaxKey, NEW p \in 1..MaxPriority, Insert(key, p) PROVE TreeInv'
    <2>1. p \in Nat
        BY TreeAssumption
    <2> QED
        BY <1>3, <2>1, InsertTree
<1>4. CASE Empty
    BY <1>4, EmptyTree
<1>5. CASE Copy
    BY <1>5, CopyTree
<1> QED
    BY <1>1, <1>2, <1>3, <1>4, <1>5 DEF TreeNext

LEMMA TreeHolds == TreeSpec => []TreeInv
    BY TreeBegins, TreeStep, PTL DEF TreeSpec

LEMMA TreeTyped == TreeInv => TreeTypeOK
<1> SUFFICES ASSUME TreeInv PROVE TreeTypeOK
    OBVIOUS
<1>1. /\ Ground(keys) /\ heap \in LooseOn(keys) /\ HeapOk(heap) /\ Graded(heap) /\ DOMAIN heap = keys
      /\ TreeAt(heap, root, keys) /\ (root # 0 => heap[root].parent = 0) /\ 0 \in Pointers(heap)
    BY TreeFacts DEF Pointers
<1>2. root = 0 <=> heap = NoNodes
    <2>1. root = 0 <=> keys = {}
        BY <1>1, TreeParts
    <2>2. keys = {} <=> heap = NoNodes
        BY <1>1 DEF NoNodes, LooseOn
    <2> QED
        BY <2>1, <2>2
<1>3. DOMAIN Clone(heap, root, 0) = DOMAIN heap
    BY <1>1, CloneTree DEF Cloned
<1>4. ASSUME NEW n \in DOMAIN heap
      PROVE  /\ heap[n].size = Cardinality(DOMAIN Clone(heap, n, 0))
             /\ \A m \in {heap[n].left, heap[n].right} \ {0} :
                   heap[m].parent = n /\ heap[m].priority <= heap[n].priority
    <2>1. PICK V : TreeAt(heap, n, V)
        BY <1>1, Subtree
    <2>2. n # 0
        BY <1>1 DEF Ground
    <2>3. DOMAIN Clone(heap, n, 0) = V
        BY <1>1, <2>1, CloneTree DEF Cloned
    <2> QED
        BY <1>1, <2>1, <2>2, <2>3, TreeParts
<1> QED
    BY <1>1, <1>2, <1>3, <1>4 DEF TreeTypeOK

\* The queries of a tree are those of its set.
LEMMA TreeAnswers == TreeInv => AnswersLikeASet
<1> SUFFICES ASSUME TreeInv PROVE AnswersLikeASet
    OBVIOUS
<1>1. /\ Ground(keys) /\ heap \in LooseOn(keys) /\ HeapOk(heap) /\ Graded(heap) /\ DOMAIN heap = keys
      /\ TreeAt(heap, root, keys) /\ (root # 0 => heap[root].parent = 0)
    BY TreeFacts
<1>2. keys \subseteq Nat
    BY <1>1 DEF Ground
<1>3. ASSUME NEW key \in 0..(MaxKey + 1)
      PROVE  /\ Find(key) = IF key \in keys THEN key ELSE 0
             /\ LowerBound(key) = Least(keys \ Below(key))
             /\ UpperBound(key) = Least(Above(key))
             /\ OrderOfKey(key) = Cardinality(Below(key))
    <2>1. key \in Nat
        BY TreeAssumption
    <2>2. Below(key) = LowerOf(keys, key)
        BY DEF Below, LowerOf
    <2>3. FromKey(keys, key, FALSE) = keys \ Below(key)
        BY DEF FromKey, Below
    <2>4. FromKey(keys, key, TRUE) = Above(key)
        <3>1. \A k \in Nat : ~(k < key \/ k = key) <=> k > key
            BY <2>1
        <3> QED
            BY <1>2, <3>1 DEF FromKey, Above
    <2>5. IsLeast(FromKey(keys, key, FALSE), LowerBound(key))
        BY <1>1, <2>1, BoundTree DEF LowerBound
    <2>6. IsLeast(FromKey(keys, key, TRUE), UpperBound(key))
        BY <1>1, <2>1, BoundTree DEF UpperBound
    <2>7. keys \ Below(key) \subseteq Nat /\ Above(key) \subseteq Nat
        BY <1>2 DEF Above
    <2>8. LowerBound(key) = Least(keys \ Below(key))
        BY <2>3, <2>5, <2>7, LeastIs
    <2>9. UpperBound(key) = Least(Above(key))
        BY <2>4, <2>6, <2>7, LeastIs
    <2> QED
        BY <1>1, <2>1, <2>2, <2>8, <2>9, FindTree, RankTree
<1>4. ASSUME NEW k \in 0..MaxKey
      PROVE  FindByOrder(k) = Least({key \in keys : Cardinality(Below(key)) = k})
    <2>1. k \in Nat
        BY TreeAssumption
    <2>2. IsKth(keys, k, FindByOrder(k))
        BY <1>1, <2>1, KthTree
    <2>3. IsLeast({key \in keys : Cardinality(LowerOf(keys, key)) = k}, FindByOrder(k))
        BY <1>1, <2>1, <2>2, KthIsLeast
    <2>4. \A key \in keys : Below(key) = LowerOf(keys, key)
        BY DEF Below, LowerOf
    <2>5. {key \in keys : Cardinality(LowerOf(keys, key)) = k} = {key \in keys : Cardinality(Below(key)) = k}
        BY <2>4
    <2> QED
        BY <1>2, <2>3, <2>5, LeastIs
<1>5. SizeOf(heap, root) = Cardinality(keys) /\ Leftmost(heap, root) = Least(keys)
    BY <1>1, <1>2, TreeSize, LeftmostTree, LeastIs
<1>6. ASSUME NEW key \in keys
      PROVE  PlusPlus(key) = Least(Above(key)) /\ MinusMinus(key) = Greatest(Below(key))
    <2>1. key # 0 /\ key \in DOMAIN heap
        BY <1>1 DEF Ground
    <2>2. TreeAt(heap, root, DOMAIN heap)
        BY <1>1
    <2>3. {k \in DOMAIN heap : key < k} = Above(key) /\ {k \in DOMAIN heap : k < key} = Below(key)
        BY <1>1 DEF Above, Below
    <2>4. IsLeast({k \in DOMAIN heap : key < k}, Successor(heap, key))
        BY <1>1, <2>1, <2>2, SuccessorTree
    <2>5. IsGreatest({k \in DOMAIN heap : k < key}, Predecessor(heap, key))
        BY <1>1, <2>1, <2>2, PredecessorTree
    <2>6. Above(key) \subseteq Nat /\ Below(key) \subseteq Nat
        BY <1>2 DEF Above, Below
    <2>7. PlusPlus(key) = Least(Above(key))
        BY <2>3, <2>4, <2>6, LeastIs DEF PlusPlus
    <2>8. MinusMinus(key) = Greatest(Below(key))
        BY <2>1, <2>3, <2>5, <2>6, GreatestIs DEF MinusMinus
    <2> QED
        BY <2>7, <2>8
<1>7. MinusMinus(0) = Greatest(keys)
    BY <1>1, <1>2, RightmostTree, GreatestIs DEF MinusMinus
<1> QED
    BY <1>3, <1>4, <1>5, <1>6, <1>7 DEF AnswersLikeASet

\* After any inserts, erases, copies and clears the treap's pointers, sizes, parents and
\* priorities agree, and no node that is allocated hangs anywhere but on the root
\* (ost.hpp 50-93, assoc_container.hpp 129-157).
THEOREM TreeStaysSound == TreeSpec => []TreeTypeOK
    BY TreeHolds, TreeTyped, PTL

\* After any inserts, erases, copies and clears find, the bounds, the ranks and both
\* directions of an iterator answer as the sorted set of the keys would, whatever the
\* priorities drawn (assoc_container.hpp 105-223, ost.hpp 95-120).
THEOREM TreeIsASet == TreeSpec => []AnswersLikeASet
    BY TreeHolds, TreeAnswers, PTL

-----------------------------------------------------------------------------
(* Packs: the types.  A download is of a pack, and so is what it goes on to. *)

\* Packs listed in an order are a sequence of packs, and not none if there are some.
LEMMA ListedOfIs ==
    ASSUME NEW some, some \subseteq Packs
    PROVE  ListedOf(some) \in Seq(Packs) /\ (some # {} => ListedOf(some) # << >>)
<1> DEFINE N == Len(Listed)
<1> DEFINE Body(f, i) == IF i = 0 THEN << >>
                         ELSE IF Listed[i] \in some THEN Append(f[i - 1], Listed[i]) ELSE f[i - 1]
<1> DEFINE G == [f \in [0..N -> Seq(Packs)] |-> [i \in 0..N |-> Body(f, i)]]
<1> DEFINE mu == [i \in 0..N |-> i]
<1> DEFINE fix == CHOOSE kept : kept = [i \in 0..Len(Listed) |->
                      IF i = 0 THEN << >>
                      ELSE IF Listed[i] \in some THEN Append(kept[i - 1], Listed[i]) ELSE kept[i - 1]]
<1>1. N \in Nat /\ DOMAIN Listed = 1..N /\ \A i \in 1..N : Listed[i] \in Packs
    BY PacksAssumption
<1>2. \E f \in [0..N -> Seq(Packs)] : f = [i \in 0..N |-> Body(f, i)]
    <2> HIDE DEF N
    <2>1. \A i \in 0..N : i # 0 => i - 1 \in 0..N /\ i \in 1..N /\ i - 1 < i
        BY <1>1
    <2>2. \A f \in [0..N -> Seq(Packs)] : \A i \in 0..N : Body(f, i) \in Seq(Packs)
        <3> SUFFICES ASSUME NEW f \in [0..N -> Seq(Packs)], NEW i \in 0..N PROVE Body(f, i) \in Seq(Packs)
            OBVIOUS
        <3>1. CASE i = 0
            BY <3>1
        <3>2. CASE i # 0
            <4>1. f[i - 1] \in Seq(Packs) /\ Listed[i] \in Packs
                BY <1>1, <2>1, <3>2
            <4>2. Append(f[i - 1], Listed[i]) \in Seq(Packs)
                BY <4>1, AppendProperties
            <4> QED
                BY <3>2, <4>1, <4>2
        <3> QED
            BY <3>1, <3>2
    <2>3. G \in [[0..N -> Seq(Packs)] -> [0..N -> Seq(Packs)]]
        <3> HIDE DEF Body
        <3> QED
            BY <2>2
    <2>4. mu \in [0..N -> Nat] /\ \A i \in 0..N : mu[i] = i /\ mu[i] <= N
        <3>1. \A i \in 0..N : i \in Nat /\ i <= N
            BY <1>1
        <3>2. mu \in [0..N -> Nat]
            BY <3>1
        <3>3. \A i \in 0..N : mu[i] = i
            OBVIOUS
        <3> QED
            BY <3>1, <3>2, <3>3
    <2>5. ASSUME NEW f \in [0..N -> Seq(Packs)], NEW g \in [0..N -> Seq(Packs)], NEW i \in 0..N,
                 \A c \in 0..N : mu[c] < mu[i] => f[c] = g[c]
          PROVE  G[f][i] = G[g][i]
        <3>1. i # 0 => f[i - 1] = g[i - 1]
            BY <2>1, <2>4, <2>5
        <3> QED
            BY <3>1
    <2>6. Seq(Packs) # {} /\ \E n \in Nat : \A i \in 0..N : mu[i] <= n
        <3>1. << >> \in Seq(Packs)
            OBVIOUS
        <3> HIDE DEF mu
        <3>2. N \in Nat /\ \A i \in 0..N : mu[i] <= N
            BY <1>1, <2>4
        <3> QED
            BY <3>1, <3>2
    <2> HIDE DEF G, mu
    <2>7. Contracts(G, 0..N, Seq(Packs), mu)
        <3> DEFINE I == 0..N
        <3>1. /\ G \in [[I -> Seq(Packs)] -> [I -> Seq(Packs)]] /\ mu \in [I -> Nat]
              /\ Seq(Packs) # {} /\ \E n \in Nat : \A i \in I : mu[i] <= n
              /\ \A f, g \in [I -> Seq(Packs)] : \A i \in I :
                    (\A c \in I : mu[c] < mu[i] => f[c] = g[c]) => G[f][i] = G[g][i]
            BY <2>3, <2>4, <2>5, <2>6
        <3> HIDE DEF I
        <3>2. Contracts(G, I, Seq(Packs), mu)
            BY <3>1 DEF Contracts
        <3> QED
            BY <3>2 DEF I
    <2>8. \E f \in [0..N -> Seq(Packs)] : f = G[f]
        <3> DEFINE I == 0..N
        <3> DEFINE V == Seq(Packs)
        <3>1. Contracts(G, I, V, mu)
            BY <2>7
        <3> HIDE DEF I, V
        <3>2. \E f \in [I -> V] : f = G[f]
            BY <3>1, FixedPoint
        <3> QED
            BY <3>2 DEF I, V
    <2> QED
        BY <2>8 DEF G
<1>3. fix = [i \in 0..N |-> Body(fix, i)]
    BY <1>2
<1>4. ListedOf(some) = fix[N]
    BY DEF ListedOf
<1> HIDE DEF fix, N
<1>5. /\ fix[0] = << >>
      /\ \A i \in Nat : i + 1 <= N =>
            fix[i + 1] = IF Listed[i + 1] \in some THEN Append(fix[i], Listed[i + 1]) ELSE fix[i]
    <2>1. 0 \in 0..N /\ \A i \in Nat : i + 1 <= N => i + 1 \in 0..N /\ i + 1 # 0 /\ (i + 1) - 1 = i
        BY <1>1
    <2> QED
        BY <1>3, <2>1
<1> DEFINE Has(i) == \E j \in 1..i : Listed[j] \in some
<1> DEFINE Good == {i \in Nat : i <= N => fix[i] \in Seq(Packs) /\ (Has(i) => fix[i] # << >>)}
<1>6. \A i : i \in Good <=> i \in Nat /\ (i <= N => fix[i] \in Seq(Packs) /\ (Has(i) => fix[i] # << >>))
    <2> HIDE DEF Has
    <2> QED
        OBVIOUS
<1> HIDE DEF Good
<1>7. 0 \in Good
    <2>1. ~Has(0)
        OBVIOUS
    <2>2. << >> \in Seq(Packs)
        OBVIOUS
    <2> HIDE DEF Has
    <2> QED
        BY <1>5, <1>6, <2>1, <2>2
<1>8. ASSUME NEW i \in Nat, i \in Good PROVE i + 1 \in Good
    <2> SUFFICES ASSUME i + 1 <= N
                 PROVE  fix[i + 1] \in Seq(Packs) /\ (Has(i + 1) => fix[i + 1] # << >>)
        <3> HIDE DEF Has
        <3> QED
            BY <1>6
    <2>1. i <= N /\ i + 1 \in 1..N
        BY <1>1
    <2>2. fix[i] \in Seq(Packs) /\ (Has(i) => fix[i] # << >>) /\ Listed[i + 1] \in Packs
        <3> HIDE DEF Has
        <3> QED
            BY <1>1, <1>6, <1>8, <2>1
    <2>3. Has(i + 1) => Has(i) \/ Listed[i + 1] \in some
        <3>1. \A j \in 1..(i + 1) : j \in 1..i \/ j = i + 1
            OBVIOUS
        <3> QED
            BY <3>1
    <2> HIDE DEF Has
    <2>4. Append(fix[i], Listed[i + 1]) \in Seq(Packs) /\ Append(fix[i], Listed[i + 1]) # << >>
        BY <2>2, AppendProperties
    <2> QED
        BY <1>5, <2>2, <2>3, <2>4
<1>9. N \in Good
    <2> HIDE DEF Has
    <2>1. Nat \subseteq Good
        BY <1>7, <1>8, Counting
    <2> QED
        BY <1>1, <2>1
<1>10. fix[N] \in Seq(Packs) /\ (Has(N) => fix[N] # << >>)
    <2>1. N <= N
        BY <1>1
    <2> HIDE DEF Has
    <2> QED
        BY <1>6, <1>9, <2>1
<1>11. some # {} => Has(N)
    BY <1>1 DEF Packs
<1> QED
    BY <1>4, <1>10, <1>11

LEMMA OrderIs ==
    ASSUME Packs # {}
    PROVE  Head(Order) \in Packs /\ Tail(Order) \in Seq(Packs)
<1> DEFINE a == ListedOf(Packs \ Optional)
<1> DEFINE b == ListedOf(Optional)
<1>1. /\ a \in Seq(Packs) /\ b \in Seq(Packs)
      /\ (Packs \ Optional # {} => a # << >>) /\ (Optional # {} => b # << >>)
    BY PacksAssumption, ListedOfIs
<1>2. a # << >> \/ b # << >>
    BY <1>1
<1>3. Order = a \o b
    BY DEF Order
<1> HIDE DEF a, b
<1>4. a \o b \in Seq(Packs) /\ a \o b # << >>
    BY <1>1, <1>2
<1> QED
    BY <1>3, <1>4, HeadTailProperties

JobsOfPacks == \A w \in DOMAIN jobs : jobs[w].pack \in Packs /\ jobs[w].rest \in Seq(Packs)

LEMMA WithOfPacks ==
    ASSUME JobsOfPacks, NEW w, NEW p \in Packs, NEW rest \in Seq(Packs), jobs' = With(w, Job(p, rest))
    PROVE  JobsOfPacks'
    BY DEF JobsOfPacks, With, Job

LEMMA StartAllOfPacks ==
    ASSUME JobsOfPacks, Packs # {}, StartAll
    PROVE  JobsOfPacks'
    BY OrderIs, WithOfPacks DEF StartAll

LEMMA OverOfPacks ==
    ASSUME JobsOfPacks, NEW w \in DOMAIN jobs, NEW ok, Over(w, ok)
    PROVE  JobsOfPacks'
<1>1. CASE w = All /\ jobs[w].rest # << >>
    <2>1. jobs' = With(w, Job(Head(jobs[w].rest), Tail(jobs[w].rest)))
        BY <1>1 DEF Over
    <2>2. Head(jobs[w].rest) \in Packs /\ Tail(jobs[w].rest) \in Seq(Packs)
        BY <1>1, HeadTailProperties DEF JobsOfPacks
    <2> QED
        BY <2>1, <2>2, WithOfPacks
<1>2. CASE ~(w = All /\ jobs[w].rest # << >>)
    BY <1>2 DEF Over, Without, JobsOfPacks
<1> QED
    BY <1>1, <1>2

\* The same downloads, of the same packs.
LEMMA SameOfPacks ==
    ASSUME JobsOfPacks, DOMAIN jobs' = DOMAIN jobs,
           \A v \in DOMAIN jobs : jobs'[v].pack = jobs[v].pack /\ jobs'[v].rest = jobs[v].rest
    PROVE  JobsOfPacks'
    BY DEF JobsOfPacks

LEMMA DownloadOfPacks ==
    ASSUME JobsOfPacks, PacksTyped, NEW w, Download(w)
    PROVE  JobsOfPacks'
<1>1. w \in DOMAIN jobs /\ JobIs(jobs[w])
    BY DEF Download, PacksTyped
<1>2. CASE AskReady(w)
    <2>1. CASE Ready(jobs[w].pack)
        BY <1>1, <1>2, <2>1, OverOfPacks DEF AskReady
    <2>2. CASE ~Ready(jobs[w].pack)
        <3>1. jobs' = [jobs EXCEPT ![w].at = "fetch"]
            BY <1>2, <2>2 DEF AskReady
        <3>2. [jobs[w] EXCEPT !.at = "fetch"].pack = jobs[w].pack /\ [jobs[w] EXCEPT !.at = "fetch"].rest = jobs[w].rest
            BY <1>1 DEF JobIs
        <3> QED
            BY <1>1, <3>1, <3>2, SameOfPacks
    <2> QED
        BY <2>1, <2>2
<1>3. CASE FetchFile(w)
    <2>1. CASE Over(w, FALSE)
        BY <1>1, <2>1, OverOfPacks
    <2>2. CASE jobs' = [jobs EXCEPT ![w].at = "put"]
        <3>1. [jobs[w] EXCEPT !.at = "put"].pack = jobs[w].pack /\ [jobs[w] EXCEPT !.at = "put"].rest = jobs[w].rest
            BY <1>1 DEF JobIs
        <3> QED
            BY <1>1, <2>2, <3>1, SameOfPacks
    <2> QED
        BY <1>3, <2>1, <2>2 DEF FetchFile
<1>4. CASE PutFile(w)
    <2>1. CASE Over(w, TRUE)
        BY <1>1, <2>1, OverOfPacks
    <2>2. CASE jobs' = [jobs EXCEPT ![w].at = "fetch", ![w].file = @ + 1]
        <3> DEFINE next == [[jobs[w] EXCEPT !.at = "fetch"] EXCEPT !.file = @ + 1]
        <3>1. jobs' = [jobs EXCEPT ![w] = next]
            BY <1>1, <2>2
        <3>2. next.pack = jobs[w].pack /\ next.rest = jobs[w].rest
            BY <1>1 DEF JobIs
        <3> HIDE DEF next
        <3> QED
            BY <1>1, <3>1, <3>2, SameOfPacks
    <2> QED
        BY <1>1, <1>4, <2>1, <2>2, OverOfPacks DEF PutFile
<1> QED
    BY <1>2, <1>3, <1>4 DEF Download

\* Every step keeps the downloads downloads of packs.
LEMMA PacksOfPacks == JobsOfPacks /\ PacksInv /\ [PacksNext]_packVars => JobsOfPacks'
<1> SUFFICES ASSUME JobsOfPacks, PacksInv, [PacksNext]_packVars PROVE JobsOfPacks'
    OBVIOUS
<1>0. PacksTyped
    BY DEF PacksInv
<1>1. ASSUME jobs' = jobs PROVE JobsOfPacks'
    BY <1>1 DEF JobsOfPacks
<1>2. ASSUME NEW p \in Packs, BarDownload(p) \/ PanelDownload(p) PROVE JobsOfPacks'
    <2>1. << >> \in Seq(Packs)
        OBVIOUS
    <2> QED
        BY <1>2, <2>1, WithOfPacks DEF BarDownload, PanelDownload
<1>3. CASE DownloadAll
    BY <1>3, StartAllOfPacks DEF DownloadAll
<1>4. ASSUME NEW on, NEW seen, StartAutomatically(on, seen) PROVE JobsOfPacks'
    <2>1. CASE AutoStarts(on, seen) /\ CanStart(All)
        <3>1. Packs # {} /\ StartAll
            BY <1>4, <2>1 DEF StartAutomatically, AutoStarts
        <3> QED
            BY <3>1, StartAllOfPacks
    <2>2. CASE ~(AutoStarts(on, seen) /\ CanStart(All))
        BY <1>1, <1>4, <2>2 DEF StartAutomatically
    <2> QED
        BY <2>1, <2>2
<1>5. CASE SetAutoDownload
    BY <1>4, <1>5 DEF SetAutoDownload
<1>6. CASE LandPanel
    BY <1>4, <1>6 DEF LandPanel
<1>7. ASSUME NEW p \in Packs, Deleted(p) PROVE JobsOfPacks'
    <2>1. DOMAIN jobs' = DOMAIN jobs
        BY <1>7 DEF Deleted
    <2>2. \A v \in DOMAIN jobs : [jobs[v] EXCEPT !.gone = TRUE].pack = jobs[v].pack
                                 /\ [jobs[v] EXCEPT !.gone = TRUE].rest = jobs[v].rest
        BY <1>0 DEF PacksTyped, JobIs
    <2>3. \A v \in DOMAIN jobs : jobs'[v] = jobs[v] \/ jobs'[v] = [jobs[v] EXCEPT !.gone = TRUE]
        BY <1>7 DEF Deleted
    <2> QED
        BY <2>1, <2>2, <2>3, SameOfPacks
<1>8. CASE Reload
    BY <1>8, NothingUnderWay DEF Reload, JobsOfPacks
<1>9. ASSUME NEW p \in Packs, PanelRemove(p) \/ LookBar(p) \/ LandBar(p) PROVE JobsOfPacks'
    BY <1>1, <1>9 DEF PanelRemove, LookBar, LandBar
<1>10. CASE ClosePanel \/ LookPanel
    BY <1>1, <1>10 DEF ClosePanel, LookPanel
<1>11. ASSUME NEW w \in Who, Download(w) PROVE JobsOfPacks'
    BY <1>0, <1>11, DownloadOfPacks
<1>12. CASE UNCHANGED packVars
    BY <1>1, <1>12 DEF packVars
<1>13. ASSUME NEW w \in DOMAIN jobs, AskFails(w) PROVE JobsOfPacks'
    BY <1>0, <1>13, OverOfPacks DEF AskFails
<1>14. CASE LoopDies
    BY <1>14 DEF LoopDies, Without, JobsOfPacks
<1>15. ASSUME NEW p \in Packs, LookBarFails(p) \/ LookPanelFails \/ RemoveFails(p) PROVE JobsOfPacks'
    BY <1>1, <1>15 DEF LookBarFails, LookPanelFails, RemoveFails
<1>16. CASE Throw
    BY <1>1, <1>13, <1>14, <1>15, <1>16 DEF Throw, LookPanelFails
<1> QED
    BY <1>2, <1>3, <1>5, <1>6, <1>7, <1>8, <1>9, <1>10, <1>11, <1>12, <1>16 DEF PacksNext, User, Work

LEMMA PacksHold == PacksSpec => [](PacksInv /\ JobsOfPacks)
<1>1. PacksInit => JobsOfPacks
    BY NothingUnderWay DEF PacksInit, JobsOfPacks
<1> QED
    BY <1>1, PacksStart, PacksKeep, PacksOfPacks, PTL DEF PacksSpec

\* However downloads, removals and reloads interleave, no download is past its pack's last
\* file, nothing but a pack's files is in its cache, and a look says yes, no or nothing
\* (usePack.ts 25-47, useStorage.ts 51-110).
THEOREM PacksStayTyped == PacksSpec => []PacksTypeOK
<1>1. PacksInv /\ JobsOfPacks => PacksTypeOK
    BY DEF PacksInv, PacksTyped, JobsOfPacks, JobIs, PacksTypeOK
<1> QED
    BY <1>1, PacksHold, PTL

-----------------------------------------------------------------------------
(* The bench: what moves on it moves as it does alone.                      *)

\* A behaviour of the bench is one of every part, so that what is proved of a part on its
\* own holds where the runs check it: for every value of the constants.
THEOREM BenchIsItsParts ==
    FairSpec => TreeSpec /\ PacksSpec /\ SysrootSpec /\ ArchiveSpec /\ ProvenanceSpec
<1>1. Init => TreeInit /\ PacksInit /\ SysrootInit /\ ArchiveInit /\ ProvenanceInit
    BY DEF Init
<1>2. [Next]_vars => /\ [TreeNext]_treeVars /\ [PacksNext]_packVars /\ [SysrootNext]_imageVars
                     /\ [ArchiveNext]_archiveVars /\ [ProvenanceNext]_provenanceVars
    BY DEF Next, vars, others
<1> QED
    BY <1>1, <1>2, PTL DEF FairSpec, TreeSpec, PacksSpec, SysrootSpec, ArchiveSpec, ProvenanceSpec

\* On the bench the treap's links, sizes and priorities agree, and the packs' caches,
\* downloads and looks name files and answers there are (ost.hpp 49-93, usePack.ts 25-47).
THEOREM BenchStaysTyped == FairSpec => []TypeOK
<1>1. TreeTypeOK /\ PacksTypeOK => TypeOK
    BY DEF TypeOK
<1> QED
    BY <1>1, BenchIsItsParts, TreeStaysSound, PacksStayTyped, PTL

=============================================================================
