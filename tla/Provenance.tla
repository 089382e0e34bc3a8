----------------------------- MODULE Provenance -----------------------------
(***************************************************************************)
(* Where a paste comes from: the recorder follows the text of every        *)
(* problem opened in a supervised round by applying the editor's edits to  *)
(* it, and calls a paste novel when none of those texts contains it.       *)
(*                                                                         *)
(* recordEdit awaits a digest between judging a paste and applying it; the *)
(* digests settle in any order, and what is typed meanwhile is applied     *)
(* first.  So are other losses of step real, and `drifted` names them:     *)
(* they are where the recorder's promise stops.                            *)
(***************************************************************************)
EXTENDS Naturals, SequencesExt

CONSTANTS
    Tasks,          \* the problems of the workspace
    Chars,          \* the characters there are
    Starters,       \* STARTERS: the texts a problem begins with
    NoTask,         \* the workspace has not been loaded
    MaxText,        \* bound on the length of a text
    MaxInserted,    \* bound on what one edit inserts
    MaxDigests,     \* bound on the digests under way
    MaxEdits        \* bound on the edits made

ASSUME ProvenanceAssumption ==
    /\ Starters \subseteq Seq(Chars) /\ NoTask \notin Tasks
    /\ {MaxText, MaxInserted, MaxDigests, MaxEdits} \subseteq Nat

VARIABLES
    text,       \* per problem: its source, which is what its editor shows
    open,       \* current?.id
    recorder,   \* recorder.current is there: the notice is acknowledged
    documents,  \* the recorder's text of a problem, where it has one
    digests,    \* pastes that are judged and not applied
    verdict,    \* the last paste: whether it was called novel, and whether it was
    drifted,    \* (history) problems whose text the recorder has lost step with
    edits

provenanceVars == <<text, open, recorder, documents, digests, verdict, drifted, edits>>

ProvenanceInit ==
    /\ text \in [Tasks -> Starters]
    /\ open = NoTask
    /\ recorder \in BOOLEAN
    /\ documents = [p \in {} |-> << >>]
    /\ digests = << >>
    /\ verdict = [novel |-> TRUE, new |-> TRUE]
    /\ drifted = {}
    /\ edits = 0

Awaiting(p) == \E i \in DOMAIN digests : digests[i].task = p

Set(docs, p, t) == [q \in DOMAIN docs \cup {p} |-> IF q = p THEN t ELSE docs[q]]

\* A problem is opened: noteDocument(), if there is a recorder to note it.  A paste that is
\* still to be applied is in this text already.
OpenTask(p) ==
    /\ open # p
    /\ open' = p
    /\ documents' = IF recorder THEN Set(documents, p, text[p]) ELSE documents
    /\ drifted' = IF Awaiting(p) THEN drifted \cup {p} ELSE drifted \ {p}
    /\ UNCHANGED <<text, recorder, digests, verdict, edits>>

\* The notice is acknowledged; a problem that is open by then has not been noted.
Acknowledged ==
    /\ ~recorder
    /\ recorder' = TRUE
    /\ drifted' = drifted \cup ({open} \cap Tasks)
    /\ UNCHANGED <<text, open, documents, digests, verdict, edits>>

\* The starter of the other language: no edit tells the recorder.
SwapStarter(starter) ==
    /\ open # NoTask
    /\ text' = [text EXCEPT ![open] = starter]
    /\ drifted' = IF text'[open] # text[open] THEN drifted \cup {open} ELSE drifted
    /\ UNCHANGED <<open, recorder, documents, digests, verdict, edits>>

-----------------------------------------------------------------------------
(* Edits: t[from + 1 .. to] is replaced.                                    *)

Least2(a, b) == IF a <= b THEN a ELSE b

Replace(t, edit) == SubSeq(t, 1, edit.from) \o edit.inserted \o SubSeq(t, edit.to + 1, Len(t))

\* applyEdit(): the range is clamped to the text the recorder has.
ApplyEdit(docs, p, edit) ==
    LET current == IF p \in DOMAIN docs THEN docs[p] ELSE << >>
        from == Least2(edit.from, Len(current))
        to == IF edit.to < from THEN from ELSE Least2(edit.to, Len(current))
    IN  Set(docs, p, Replace(current, [edit EXCEPT !.from = from, !.to = to]))

Includes(t, part) == \E i \in 0..(Len(t) - Len(part)) : SubSeq(t, i + 1, i + Len(part)) = part

Novel(texts, part) == ~\E p \in DOMAIN texts : Includes(texts[p], part)

\* What the recorder should have: the texts themselves.
Opened == [p \in DOMAIN documents |-> text[p]]

\* The texts are those the recorder has, as far as is known.
InStep == \A p \in DOMAIN documents : p \notin drifted /\ ~Awaiting(p)

Judged(part) ==
    LET novel == Novel(documents, part)
    IN  [novel |-> novel, new |-> IF InStep /\ open \notin drifted THEN Novel(Opened, part) ELSE novel]

\* (mutation) The text is updated before the paste is judged.
RecordEditFirst(edit, pasted) ==
    LET applied == ApplyEdit(documents, open, edit)
    IN  /\ documents' = applied
        /\ digests' = digests
        /\ verdict' = IF pasted THEN [Judged(edit.inserted) EXCEPT !.novel = Novel(applied, edit.inserted)]
                      ELSE verdict

\* recordEdit(): a paste is judged and waits for its digest, other edits are applied.
RecordEdit(edit, pasted) ==
    IF pasted /\ edit.inserted # << >>
    THEN /\ verdict' = Judged(edit.inserted)
         /\ digests' = Append(digests, [task |-> open, edit |-> edit])
         /\ UNCHANGED documents
    ELSE /\ documents' = ApplyEdit(documents, open, edit)
         /\ UNCHANGED <<digests, verdict>>

Ranges(t) == {range \in (0..Len(t)) \X (0..Len(t)) : range[1] <= range[2]}

Editing ==
    /\ open # NoTask /\ edits < MaxEdits
    /\ edits' = edits + 1
    /\ UNCHANGED <<open, recorder>>

\* One range of the text is replaced, by typing or by a paste; with a paste of the same
\* problem still to be applied, the two change places.
Edit(pasted) ==
    /\ Editing
    /\ \E range \in Ranges(text[open]), part \in BoundedSeq(Chars, MaxInserted) :
          LET edit == [from |-> range[1], to |-> range[2], inserted |-> part]
          IN  /\ range[1] < range[2] \/ part # << >>
              /\ Len(Replace(text[open], edit)) <= MaxText
              /\ text' = [text EXCEPT ![open] = Replace(@, edit)]
              /\ IF recorder THEN RecordEdit(edit, pasted) ELSE UNCHANGED <<documents, digests, verdict>>
    /\ Len(digests') <= MaxDigests
    /\ drifted' = IF Awaiting(open) THEN drifted \cup {open} ELSE drifted

\* A command of the editor inserts at several places at once (Tab over some lines); the
\* positions of all of them are those in the text before.
EditTwice ==
    /\ Editing
    /\ \E i, j \in 0..Len(text[open]), c \in Chars :
          LET first == [from |-> i, to |-> i, inserted |-> <<c>>]
              second == [from |-> j, to |-> j, inserted |-> <<c>>]
          IN  /\ i < j /\ Len(text[open]) + 2 <= MaxText
              /\ text' = [text EXCEPT ![open] = Replace(Replace(@, second), first)]
              /\ documents' = IF recorder
                              THEN ApplyEdit(ApplyEdit(documents, open, first), open, second)
                              ELSE documents
    /\ drifted' = drifted \cup {open}
    /\ UNCHANGED <<digests, verdict>>

\* A digest is there, and its paste is applied to the text as it is by now.
Digest ==
    /\ \E i \in DOMAIN digests :
          /\ documents' = ApplyEdit(documents, digests[i].task, digests[i].edit)
          /\ digests' = RemoveAt(digests, i)
    /\ UNCHANGED <<text, open, recorder, verdict, drifted, edits>>

ProvenanceNext ==
    \/ \E p \in Tasks : OpenTask(p)
    \/ Acknowledged
    \/ \E starter \in Starters : SwapStarter(starter)
    \/ \E pasted \in BOOLEAN : Edit(pasted)
    \/ EditTwice
    \/ Digest

ProvenanceSpec == ProvenanceInit /\ [][ProvenanceNext]_provenanceVars

-----------------------------------------------------------------------------
(* Properties.                                                              *)

\* A paste is called novel exactly when none of the problems opened in the round contained
\* it, and the text kept for a problem is the problem's text once its pastes are applied;
\* up to the first edit that overtakes a paste, comes in several places at once, or comes
\* before the recorder was told of the problem or of its change of language
\* (recorder.ts 77-117, App.tsx 61-66).
NovelMeansNew ==
    /\ verdict.novel = verdict.new
    /\ \A p \in DOMAIN documents : p \in drifted \/ Awaiting(p) \/ documents[p] = text[p]

=============================================================================
