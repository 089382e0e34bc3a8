-------------------------- MODULE SessionStoreProofs --------------------------
(***************************************************************************)
(* What TLAPS proves of SessionStore, for every set of participants, every *)
(* finite set of chunk numbers and every number of requests, failures and  *)
(* crashes: the types, that no chunk is in a file twice, that a failure    *)
(* refuses one request, and that what was acknowledged is kept, but for a  *)
(* line glued to one left without its newline.                             *)
(***************************************************************************)
EXTENDS SessionStore, DataProofs

-----------------------------------------------------------------------------
(* The invariant.                                                           *)

Typed ==
    /\ up \in BOOLEAN
    /\ disk \in [Files -> Seq(Line)]
    /\ bare \in [Files -> BOOLEAN]
    /\ work \in [Files -> Seq(Request)]
    /\ fresh = [f \in Files |-> fresh[f]]
    /\ acked \in [Files -> SUBSET Seqs]
    /\ refused \subseteq 0..(requests - 1)
    /\ IsFiniteSet(refused)
    /\ requests \in Nat
    /\ crashes \in Nat
    /\ writeFaults \in Nat

\* Every request in a chain has been received.
IdsGiven == \A f \in Files : \A i \in 1..Len(work[f]) : work[f][i].id < requests

\* What a running append is about to write: what its request has and the file,
\* which could be read, has not, each chunk once.
FreshOK(f) ==
    fresh[f] # NotRead =>
        /\ work[f] # << >>
        /\ Readable(f)
        /\ fresh[f] \in Seq(Seqs)
        /\ fresh[f] # << >>
        /\ ToSet(fresh[f]) = Head(work[f]).seqs \ Held(f)
        /\ \A i, j \in 1..Len(fresh[f]) : i # j => fresh[f][i] # fresh[f][j]

BareHasLine == \A f \in Files : bare[f] => disk[f] # << >>

StoreInv ==
    /\ Typed
    /\ IdsGiven
    /\ \A f \in Files : FreshOK(f)
    /\ BareHasLine
    /\ NoDuplicates
    /\ RefusedForCause

-----------------------------------------------------------------------------
(* What a write leaves in a file.                                           *)

\* The lines of a text that reached the file before it was cut: the first ones,
\* the last of them torn or bare or neither.
LEMMA CutIsPrefix ==
    ASSUME NEW lines \in Seq(Line), NEW cut \in CutShort(lines)
    PROVE  /\ cut.lines \in Seq(Line)
           /\ Len(cut.lines) <= Len(lines)
           /\ \A i \in 1..Len(cut.lines) : cut.lines[i].seq = lines[i].seq
           /\ cut.bare \in BOOLEAN
           /\ cut.bare => cut.lines # << >>
<1>1. Len(lines) \in Nat /\ \A i \in 1..Len(lines) : lines[i] \in Line
    BY ElementOfSeq
<1>2. ASSUME NEW n \in 0..Len(lines)
      PROVE  /\ SubSeq(lines, 1, n) \in Seq(Line)
             /\ Len(SubSeq(lines, 1, n)) = n
             /\ \A i \in 1..n : SubSeq(lines, 1, n)[i] = lines[i]
    <2>1. \A i \in 1..n : lines[i] \in Line
        BY <1>1
    <2> QED
        BY <1>1, <2>1, SubSeqProperties
<1>3. CASE \E n \in 0..(Len(lines) - 1) : cut = [lines |-> SubSeq(lines, 1, n), bare |-> FALSE]
    <2>1. PICK n \in 0..(Len(lines) - 1) : cut = [lines |-> SubSeq(lines, 1, n), bare |-> FALSE]
        BY <1>3
    <2>2. n \in 0..Len(lines) /\ cut.lines = SubSeq(lines, 1, n) /\ cut.bare = FALSE
        BY <1>1, <2>1
    <2>3. cut.bare \in BOOLEAN /\ ~cut.bare
        BY <2>2
    <2>4. /\ cut.lines \in Seq(Line) /\ Len(cut.lines) = n
          /\ \A i \in 1..n : cut.lines[i] = lines[i]
        BY <1>2, <2>2
    <2>5. n <= Len(lines)
        BY <2>2
    <2> QED
        BY <2>3, <2>4, <2>5
<1>4. CASE \E n \in 0..(Len(lines) - 1) :
              cut = [lines |-> SubSeq(lines, 1, n) \o <<[lines[n+1] EXCEPT !.whole = FALSE]>>, bare |-> TRUE]
    <2>1. PICK n \in 0..(Len(lines) - 1) :
              cut = [lines |-> SubSeq(lines, 1, n) \o <<[lines[n+1] EXCEPT !.whole = FALSE]>>, bare |-> TRUE]
        BY <1>4
    <2> DEFINE torn == [lines[n+1] EXCEPT !.whole = FALSE]
    <2>2. n \in 0..Len(lines) /\ n \in Nat /\ n + 1 \in 1..Len(lines)
        BY <1>1
    <2>3. torn \in Line /\ torn.seq = lines[n+1].seq /\ torn.whole = FALSE
        BY <1>1, <2>2 DEF Line
    <2> HIDE DEF torn
    <2>4. cut.lines = SubSeq(lines, 1, n) \o <<torn>> /\ cut.bare = TRUE
        BY <2>1 DEF torn
    <2>5. <<torn>> \in Seq(Line) /\ Len(<<torn>>) = 1 /\ <<torn>>[1] = torn
        BY <2>3
    <2>6. /\ cut.lines \in Seq(Line)
          /\ Len(cut.lines) = n + 1
          /\ \A i \in 1..(n + 1) : cut.lines[i] = IF i <= n THEN lines[i] ELSE torn
        BY <1>2, <2>2, <2>4, <2>5, ConcatProperties
    <2>7. cut.lines[n + 1] = torn /\ cut.lines # << >>
        BY <2>2, <2>6
    <2>8. \A i \in 1..(n + 1) : cut.lines[i].seq = lines[i].seq
        BY <2>2, <2>3, <2>6
    <2>9. cut.bare \in BOOLEAN
        BY <2>4
    <2>10. n + 1 <= Len(lines) /\ Len(cut.lines) = n + 1
        BY <2>2, <2>6
    <2> QED
        BY <2>6, <2>7, <2>8, <2>9, <2>10
<1>5. CASE \E n \in 1..Len(lines) : "bare" \in Cuts /\ cut = [lines |-> SubSeq(lines, 1, n), bare |-> TRUE]
    <2>1. PICK n \in 1..Len(lines) : "bare" \in Cuts /\ cut = [lines |-> SubSeq(lines, 1, n), bare |-> TRUE]
        BY <1>5
    <2>2. n \in 0..Len(lines) /\ n > 0 /\ cut.lines = SubSeq(lines, 1, n) /\ cut.bare = TRUE
        BY <1>1, <2>1
    <2>3. cut.lines # << >>
        BY <1>2, <2>2
    <2> QED
        BY <1>1, <1>2, <2>1, <2>2, <2>3
<1> QED
    BY <1>3, <1>4, <1>5 DEF CutShort

\* The file after a write of `lines` to `d`: the old lines, the last of them spoilt
\* if it was bare, and then the new ones, the first of them lost to it if it was.
Grown(d, isBare, lines, a) ==
    /\ a \in Seq(Line)
    /\ Len(a) \in Nat /\ Len(d) \in Nat /\ Len(d) <= Len(a)
    /\ \A i \in 1..Len(d) : a[i].seq = d[i].seq /\ (a[i].whole => d[i].whole)
    /\ \A i \in 1..Len(d) : ~(i = Len(d) /\ isBare) => a[i] = d[i]
    /\ \E c \in {0, 1} : \A i \in (Len(d) + 1)..Len(a) :
           i - Len(d) + c \in 1..Len(lines) /\ a[i] = lines[i - Len(d) + c]
    /\ ~isBare => /\ Len(a) = Len(d) + Len(lines)
                  /\ \A i \in 1..Len(lines) : a[Len(d) + i] = lines[i]
    /\ isBare /\ lines # << >> =>
           /\ ~a[Len(d)].whole
           /\ Len(a) = Len(d) + (Len(lines) - 1)
           /\ \A i \in 1..(Len(lines) - 1) : a[Len(d) + i] = lines[i + 1]
    /\ lines = << >> => a = d
    /\ lines # << >> => a # << >>

LEMMA AppendedLines ==
    ASSUME disk \in [Files -> Seq(Line)], NEW f \in Files, bare[f] => disk[f] # << >>,
           NEW lines \in Seq(Line)
    PROVE  Grown(disk[f], bare[f], lines, Appended(f, lines))
<1> DEFINE d == disk[f]
<1> DEFINE a == Appended(f, lines)
<1> SUFFICES Grown(d, bare[f], lines, a)
    OBVIOUS
<1> DEFINE n == Len(d)
<1> DEFINE m == Len(lines)
<1>1. d \in Seq(Line) /\ n \in Nat /\ m \in Nat
    OBVIOUS
<1>2. \A i \in 1..n : d[i] \in Line
    BY <1>1, ElementOfSeq
<1>3. CASE ~bare[f] \/ lines = << >>
    <2>1. a = d \o lines
        BY <1>3 DEF Appended
    <2> HIDE DEF a, d
    <2>2. /\ a \in Seq(Line) /\ Len(a) = n + m
          /\ \A i \in 1..(n + m) : a[i] = IF i <= n THEN d[i] ELSE lines[i - n]
        BY <1>1, <2>1, ConcatProperties
    <2> HIDE DEF n, m
    <2>3. \A i \in 1..n : a[i] = d[i]
        BY <1>1, <2>2
    <2>4. \A i \in (n + 1)..Len(a) : i - n + 0 \in 1..m /\ a[i] = lines[i - n + 0]
        BY <1>1, <2>2
    <2>5. \A i \in 1..m : a[n + i] = lines[i]
        BY <1>1, <2>2
    <2>6. lines # << >> => a # << >>
        <3>1. lines # << >> => m > 0
            BY <1>1 DEF m
        <3> QED
            BY <1>1, <2>2, <3>1
    <2>9. lines = << >> => a = d
        BY <1>1, <2>1
    <2>7. \E c \in {0, 1} : \A i \in (n + 1)..Len(a) : i - n + c \in 1..m /\ a[i] = lines[i - n + c]
        BY <2>4
    <2>8. Len(a) \in Nat /\ n <= Len(a)
        BY <1>1, <2>2
    <2> QED
        BY <1>1, <1>3, <2>2, <2>3, <2>5, <2>6, <2>7, <2>8, <2>9 DEF n, m, Grown
<1>4. CASE bare[f] /\ lines # << >>
    <2> DEFINE x == [Last(d) EXCEPT !.whole = FALSE]
    <2> DEFINE t == Tail(lines)
    <2>1. a = Front(d) \o <<x>> \o t
        BY <1>4 DEF Appended
    <2> HIDE DEF a, d
    <2>2. n > 0 /\ m > 0
        BY <1>1, <1>4 DEF d
    <2>3. x \in Line /\ x.seq = d[n].seq /\ x.whole = FALSE
        <3>1. d[n] \in Line /\ Last(d) = d[n]
            BY <1>1, <1>2, <2>2 DEF Last
        <3> QED
            BY <3>1 DEF Line
    <2>4. /\ Front(d) \in Seq(Line) /\ Len(Front(d)) = n - 1
          /\ \A i \in 1..(n - 1) : Front(d)[i] = d[i]
        <3>1. Front(d) = SubSeq(d, 1, n - 1)
            BY DEF Front
        <3> DEFINE k == n - 1
        <3>2. k \in Int /\ 1 \in Int /\ \A i \in 1..k : d[i] \in Line
            BY <1>1, <1>2
        <3> HIDE DEF k, n
        <3>3. /\ SubSeq(d, 1, k) \in Seq(Line)
              /\ Len(SubSeq(d, 1, k)) = IF 1 <= k THEN k - 1 + 1 ELSE 0
              /\ \A i \in 1..(k - 1 + 1) : SubSeq(d, 1, k)[i] = d[1 + i - 1]
            BY <3>2, SubSeqProperties
        <3>4. k >= 0 /\ k - 1 + 1 = k /\ (IF 1 <= k THEN k - 1 + 1 ELSE 0) = k
            <4>1. k >= 0
                BY <1>1, <2>2 DEF k
            <4> QED
                BY <3>2, <4>1
        <3>5. /\ SubSeq(d, 1, k) \in Seq(Line) /\ Len(SubSeq(d, 1, k)) = k
              /\ \A i \in 1..k : SubSeq(d, 1, k)[i] = d[i]
            BY <3>2, <3>3, <3>4
        <3> QED
            BY <3>1, <3>5 DEF k
    <2>5. /\ t \in Seq(Line) /\ Len(t) = m - 1
          /\ \A i \in 1..(m - 1) : t[i] = lines[i + 1]
        BY <1>4, HeadTailProperties
    <2> HIDE DEF x, t, n, m
    <2>6. <<x>> \in Seq(Line) /\ Len(<<x>>) = 1 /\ <<x>>[1] = x
        BY <2>3
    <2>7. /\ Front(d) \o <<x>> \in Seq(Line) /\ Len(Front(d) \o <<x>>) = n
          /\ \A i \in 1..n : (Front(d) \o <<x>>)[i] = IF i <= n - 1 THEN d[i] ELSE x
        <3>1. /\ Front(d) \o <<x>> \in Seq(Line)
              /\ Len(Front(d) \o <<x>>) = (n - 1) + 1
              /\ \A i \in 1..((n - 1) + 1) :
                     (Front(d) \o <<x>>)[i] = IF i <= n - 1 THEN Front(d)[i] ELSE <<x>>[i - (n - 1)]
            BY <2>4, <2>6, ConcatProperties
        <3> QED
            BY <1>1, <2>4, <2>6, <3>1
    <2> DEFINE u == Front(d) \o <<x>>
    <2>8. /\ a \in Seq(Line) /\ Len(a) = n + (m - 1)
          /\ \A i \in 1..(n + (m - 1)) : a[i] = IF i <= n THEN u[i] ELSE t[i - n]
        <3>1. u \in Seq(Line) /\ Len(u) = n
            BY <2>7
        <3> HIDE DEF u
        <3>2. a = u \o t
            BY <2>1 DEF u
        <3>3. /\ u \o t \in Seq(Line) /\ Len(u \o t) = Len(u) + Len(t)
              /\ \A i \in 1..(Len(u) + Len(t)) :
                     (u \o t)[i] = IF i <= Len(u) THEN u[i] ELSE t[i - Len(u)]
            BY <2>5, <3>1, ConcatProperties
        <3> QED
            BY <2>5, <3>1, <3>2, <3>3
    <2>9. \A i \in 1..n : a[i] = IF i <= n - 1 THEN d[i] ELSE x
        <3>1. \A i \in 1..n : i \in 1..(n + (m - 1)) /\ i <= n
            BY <1>1, <2>2
        <3> QED
            BY <2>7, <2>8, <3>1
    <2>10. /\ \A i \in 1..n : a[i].seq = d[i].seq /\ (a[i].whole => d[i].whole)
           /\ \A i \in 1..n : i # n => a[i] = d[i]
        <3>1. a[n] = x
            BY <1>1, <2>2, <2>9
        <3>2. \A i \in 1..n : i # n => a[i] = d[i]
            BY <1>1, <2>9
        <3> QED
            BY <2>3, <3>1, <3>2
    <2>11. \A i \in (n + 1)..Len(a) : i - n + 1 \in 1..m /\ a[i] = lines[i - n + 1]
        BY <1>1, <2>2, <2>5, <2>8
    <2>12. a # << >> /\ ~a[n].whole
        <3>1. Len(a) > 0
            BY <1>1, <2>2, <2>8
        <3>2. a[n] = x
            BY <1>1, <2>2, <2>9
        <3> QED
            BY <2>3, <3>1, <3>2
    <2>15. \A i \in 1..(m - 1) : a[n + i] = lines[i + 1]
        <3>1. \A i \in 1..(m - 1) : /\ n + i \in 1..(n + (m - 1)) /\ ~(n + i <= n)
                                    /\ (n + i) - n = i
            BY <1>1, <2>2
        <3> QED
            BY <2>5, <2>8, <3>1
    <2>13. \E c \in {0, 1} : \A i \in (n + 1)..Len(a) : i - n + c \in 1..m /\ a[i] = lines[i - n + c]
        BY <2>11
    <2>14. Len(a) \in Nat /\ n <= Len(a)
        BY <1>1, <2>2, <2>8
    <2> QED
        BY <1>1, <1>4, <2>8, <2>10, <2>12, <2>13, <2>14, <2>15 DEF n, m, Grown
<1> QED
    BY <1>3, <1>4

\* What a read decides to write: each missing chunk once.
LEMMA MissingListed ==
    ASSUME NEW S \in SUBSET Seqs, S # {}
    PROVE  /\ Ascending(S) \in Seq(Seqs)
           /\ Ascending(S) # << >>
           /\ Ascending(S) # NotRead
           /\ ToSet(Ascending(S)) = S
           /\ \A i, j \in 1..Len(Ascending(S)) : i # j => Ascending(S)[i] # Ascending(S)[j]
<1> DEFINE n == Cardinality(S)
<1> DEFINE s == Ascending(S)
<1>1. S \in SUBSET Nat /\ IsFiniteSet(S)
    BY StoreAssumption, FS_Subset
<1>2. /\ n \in Nat
      /\ s \in [1..n -> S]
      /\ \A k \in S : \E i \in 1..n : s[i] = k
      /\ \A i, j \in 1..n : i # j => s[i] # s[j]
    BY <1>1, AscendingLists
<1>3. n # 0
    BY <1>1, FS_EmptySet
<1> HIDE DEF n, s
<1>4. s \in Seq(S) /\ DOMAIN s = 1..n /\ Len(s) = n
    BY <1>2
<1>5. s \in Seq(Seqs)
    BY <1>2
<1>6. s # << >> /\ s # NotRead
    <2>1. 1 \in 1..n /\ s[1] \in Nat
        <3>1. 1 \in 1..n
            BY <1>2, <1>3
        <3>2. s[1] \in S
            BY <1>2, <3>1
        <3> QED
            BY <1>1, <3>1, <3>2
    <2>2. NotRead[1] = -1 /\ -1 \notin Nat
        BY DEF NotRead
    <2> QED
        BY <1>3, <1>4, <2>1, <2>2
<1>7. ToSet(s) = S
    BY <1>2, <1>4 DEF ToSet
<1> QED
    BY <1>2, <1>4, <1>5, <1>6, <1>7 DEF s

\* The lines written for them.
LEMMA LinesWritten ==
    ASSUME NEW s \in Seq(Seqs)
    PROVE  /\ Lines(s) \in Seq(Line)
           /\ Len(Lines(s)) = Len(s)
           /\ \A i \in 1..Len(s) : Lines(s)[i].seq = s[i] /\ Lines(s)[i].whole
<1> DEFINE n == Len(s)
<1>1. n \in Nat /\ DOMAIN s = 1..n /\ \A i \in 1..n : s[i] \in Seqs
    BY ElementOfSeq
<1>2. Lines(s) = [i \in 1..n |-> [seq |-> s[i], whole |-> TRUE]]
    BY <1>1 DEF Lines
<1>3. \A i \in 1..n : [seq |-> s[i], whole |-> TRUE] \in Line
    BY <1>1 DEF Line
<1> HIDE DEF n
<1>4. Lines(s) \in [1..n -> Line]
    BY <1>2, <1>3
<1>5. Lines(s) \in Seq(Line) /\ Len(Lines(s)) = n
    BY <1>1, <1>4
<1> QED
    BY <1>2, <1>5 DEF n

-----------------------------------------------------------------------------
(* What a write leaves in the store.                                        *)

\* Lines of what was missing, all of them or the first few, reach a file that
\* could be read: it gets no chunk twice, and no file becomes readable.
LEMMA WriteKeeps ==
    ASSUME StoreInv, NEW f \in Files, fresh[f] # NotRead,
           NEW lines \in Seq(Line), Len(lines) <= Len(fresh[f]),
           \A i \in 1..Len(lines) : lines[i].seq = fresh[f][i],
           NEW endsBare \in BOOLEAN, endsBare => lines # << >>,
           Write(f, lines, endsBare)
    PROVE  /\ disk' \in [Files -> Seq(Line)]
           /\ bare' \in [Files -> BOOLEAN]
           /\ \A g \in Files : g # f => disk'[g] = disk[g]
           /\ BareHasLine'
           /\ NoDuplicates'
           /\ \A g \in Files : Readable(g)' => Readable(g)
<1> DEFINE d == disk[f]
<1> DEFINE a == Appended(f, lines)
<1> DEFINE n == Len(d)
<1>1. Typed /\ FreshOK(f) /\ BareHasLine /\ NoDuplicates
    BY DEF StoreInv
<1>2. d \in Seq(Line) /\ n \in Nat /\ DOMAIN d = 1..n
    BY <1>1 DEF Typed
<1>3. Grown(d, bare[f], lines, a)
    <2>1. bare[f] => d # << >>
        BY <1>1 DEF BareHasLine
    <2>2. disk \in [Files -> Seq(Line)]
        BY <1>1 DEF Typed
    <2> QED
        BY <2>1, <2>2, AppendedLines
<1>4. DOMAIN a = 1..Len(a)
    BY <1>3 DEF Grown
<1>5. disk' = [disk EXCEPT ![f] = a] /\ bare' = [bare EXCEPT ![f] = IF lines = << >> THEN @ ELSE endsBare]
    BY DEF Write
<1> HIDE DEF a
<1>0. /\ a \in Seq(Line)
      /\ Len(a) \in Nat /\ n <= Len(a)
      /\ \A i \in 1..n : a[i].seq = d[i].seq /\ (a[i].whole => d[i].whole)
      /\ \E c \in {0, 1} : \A i \in (n + 1)..Len(a) :
             i - n + c \in 1..Len(lines) /\ a[i] = lines[i - n + c]
      /\ lines # << >> => a # << >>
    BY <1>3 DEF Grown
<1>6. /\ disk' \in [Files -> Seq(Line)] /\ disk'[f] = a
      /\ \A g \in Files : g # f => disk'[g] = disk[g]
    BY <1>1, <1>0, <1>5 DEF Typed
<1>7. /\ bare' \in [Files -> BOOLEAN]
      /\ bare'[f] = IF lines = << >> THEN bare[f] ELSE endsBare
      /\ \A g \in Files : g # f => bare'[g] = bare[g]
    BY <1>1, <1>5 DEF Typed
<1>8. BareHasLine'
    <2> SUFFICES ASSUME NEW g \in Files, bare'[g]
                 PROVE  disk'[g] # << >>
        BY DEF BareHasLine
    <2>1. CASE g # f
        BY <1>1, <1>6, <1>7, <2>1 DEF BareHasLine
    <2>2. CASE g = f /\ lines # << >>
        BY <1>0, <1>6, <2>2
    <2>3. CASE g = f /\ lines = << >>
        <3>1. d # << >>
            BY <1>1, <1>7, <2>3 DEF BareHasLine
        <3>2. n > 0
            BY <1>2, <3>1
        <3>3. Len(a) > 0
            BY <1>2, <1>0, <3>2
        <3> QED
            BY <1>6, <2>3, <3>3
    <2> QED
        BY <2>1, <2>2, <2>3
<1>9. NoDuplicates'
    <2> SUFFICES ASSUME NEW g \in Files, NEW i \in DOMAIN disk'[g], NEW j \in DOMAIN disk'[g], i # j
                 PROVE  disk'[g][i].seq # disk'[g][j].seq
        BY DEF NoDuplicates
    <2>1. CASE g # f
        BY <1>1, <1>6, <2>1 DEF NoDuplicates
    <2>2. CASE g = f
        <3>1. i \in 1..Len(a) /\ j \in 1..Len(a)
            BY <1>4, <1>6, <2>2
        <3>2. \A x, y \in 1..n : x # y => a[x].seq # a[y].seq
            BY <1>1, <1>2, <1>0 DEF NoDuplicates
        <3>3. PICK c \in {0, 1} : \A x \in (n + 1)..Len(a) :
                  x - n + c \in 1..Len(lines) /\ a[x] = lines[x - n + c]
            BY <1>0
        <3>4. /\ fresh[f] \in Seq(Seqs)
              /\ ToSet(fresh[f]) = Head(work[f]).seqs \ Held(f)
              /\ \A x, y \in 1..Len(fresh[f]) : x # y => fresh[f][x] # fresh[f][y]
            BY <1>1 DEF FreshOK
        <3>5. \A x \in 1..Len(lines) : x \in 1..Len(fresh[f])
            BY <3>4
        <3>6. \A x, y \in (n + 1)..Len(a) : x # y => a[x].seq # a[y].seq
            <4> SUFFICES ASSUME NEW x \in (n + 1)..Len(a), NEW y \in (n + 1)..Len(a), x # y
                         PROVE  a[x].seq # a[y].seq
                OBVIOUS
            <4>1. /\ x - n + c \in 1..Len(lines) /\ a[x].seq = fresh[f][x - n + c]
                  /\ y - n + c \in 1..Len(lines) /\ a[y].seq = fresh[f][y - n + c]
                BY <3>3
            <4>2. x - n + c # y - n + c
                BY <1>2, <1>0
            <4> QED
                BY <3>4, <3>5, <4>1, <4>2
        <3>7. \A x \in 1..n, y \in (n + 1)..Len(a) : a[x].seq # a[y].seq
            <4> SUFFICES ASSUME NEW x \in 1..n, NEW y \in (n + 1)..Len(a)
                         PROVE  a[x].seq # a[y].seq
                OBVIOUS
            <4>1. y - n + c \in 1..Len(lines) /\ a[y].seq = fresh[f][y - n + c]
                BY <3>3
            <4>2. fresh[f][y - n + c] \in ToSet(fresh[f])
                <5> DEFINE k == y - n + c
                <5>0. k \in 1..Len(fresh[f])
                    BY <3>5, <4>1
                <5> HIDE DEF k
                <5>1. k \in DOMAIN fresh[f]
                    BY <3>4, <5>0
                <5>2. fresh[f][k] \in ToSet(fresh[f])
                    BY <5>1 DEF ToSet
                <5> QED
                    BY <5>2 DEF k
            <4>3. d[x].seq \in Held(f)
                BY <1>2 DEF Held, ToSet
            <4> QED
                BY <1>0, <3>4, <4>1, <4>2, <4>3
        <3>8. \A x \in 1..Len(a) : x \in 1..n \/ x \in (n + 1)..Len(a)
            BY <1>2, <1>0
        <3>9. a[i].seq # a[j].seq
            BY <3>1, <3>2, <3>6, <3>7, <3>8
        <3> QED
            BY <1>6, <2>2, <3>9
    <2> QED
        BY <2>1, <2>2
<1>10. ASSUME NEW g \in Files, Readable(g)'
       PROVE  Readable(g)
    <2>1. CASE g # f
        BY <1>6, <1>10, <2>1 DEF Readable
    <2>2. CASE g = f
        <3>1. \A i \in 1..Len(a) : a[i].whole
            BY <1>4, <1>6, <1>10, <2>2 DEF Readable, ToSet
        <3>2. \A i \in 1..n : i \in 1..Len(a)
            BY <1>2, <1>0
        <3>3. \A i \in 1..n : d[i].whole
            BY <1>0, <3>1, <3>2
        <3> QED
            BY <1>2, <2>2, <3>3 DEF Readable, ToSet
    <2> QED
        BY <2>1, <2>2
<1> QED
    BY <1>6, <1>7, <1>8, <1>9, <1>10

\* The running append is done: what waited behind it is next.
LEMMA FinishKeeps ==
    ASSUME Typed, IdsGiven, NEW f \in Files, work[f] # << >>, Finish(f), requests' = requests
    PROVE  /\ work' \in [Files -> Seq(Request)]
           /\ fresh' = [g \in Files |-> fresh'[g]]
           /\ fresh'[f] = NotRead
           /\ \A g \in Files : g # f => work'[g] = work[g] /\ fresh'[g] = fresh[g]
           /\ IdsGiven'
           /\ Head(work[f]) \in Request
           /\ Head(work[f]).id \in 0..(requests - 1)
<1>1. work[f] \in Seq(Request)
    BY DEF Typed
<1>2. /\ Head(work[f]) \in Request /\ Head(work[f]) = work[f][1]
      /\ Tail(work[f]) \in Seq(Request)
      /\ Len(Tail(work[f])) = Len(work[f]) - 1
      /\ \A i \in 1..Len(Tail(work[f])) : Tail(work[f])[i] = work[f][i + 1]
    BY <1>1, HeadTailProperties
<1>3. Len(work[f]) \in Nat /\ Len(work[f]) > 0
    BY <1>1
<1>4. /\ work' \in [Files -> Seq(Request)]
      /\ work'[f] = Tail(work[f])
      /\ fresh' = [g \in Files |-> fresh'[g]]
      /\ fresh'[f] = NotRead
      /\ \A g \in Files : g # f => work'[g] = work[g] /\ fresh'[g] = fresh[g]
    BY <1>2 DEF Finish, Typed
<1>5. IdsGiven'
    <2> SUFFICES ASSUME NEW g \in Files, NEW i \in 1..Len(work'[g])
                 PROVE  work'[g][i].id < requests
        BY DEF IdsGiven
    <2>1. CASE g # f
        BY <1>4, <2>1 DEF IdsGiven
    <2>2. CASE g = f
        <3>1. i + 1 \in 1..Len(work[f]) /\ work'[f][i] = work[f][i + 1]
            BY <1>2, <1>3, <1>4, <2>2
        <3> QED
            BY <2>2, <3>1 DEF IdsGiven
    <2> QED
        BY <2>1, <2>2
<1>6. Head(work[f]).id \in 0..(requests - 1)
    <2>1. work[f][1].id < requests /\ work[f][1].id \in Nat
        BY <1>2, <1>3 DEF IdsGiven, Request
    <2> QED
        BY <1>2, <2>1 DEF Typed
<1> QED
    BY <1>2, <1>4, <1>5, <1>6

-----------------------------------------------------------------------------
(* The steps.                                                               *)

\* As long as no file becomes readable, refusals stay within the failures.
LEMMA CauseKept ==
    ASSUME StoreInv, \A g \in Files : Readable(g)' => Readable(g),
           refused' = refused, writeFaults' \in Nat, writeFaults' >= writeFaults
    PROVE  RefusedForCause'
<1>1. Cardinality(refused) \in Nat /\ writeFaults \in Nat
    BY FS_CardinalityType DEF StoreInv, Typed
<1>2. (\A g \in Files : Readable(g)') => Cardinality(refused) <= writeFaults
    BY DEF StoreInv, RefusedForCause
<1>3. (\A g \in Files : Readable(g)') => Cardinality(refused') <= writeFaults'
    BY <1>1, <1>2
<1> QED
    BY <1>3 DEF RefusedForCause

\* A running append goes by its request and its file, and by nothing else.
LEMMA FreshStays ==
    ASSUME NEW g \in Files, FreshOK(g), fresh'[g] = fresh[g], disk'[g] = disk[g],
           \/ work'[g] = work[g]
           \/ work[g] # << >> => work'[g] # << >> /\ Head(work'[g]) = Head(work[g])
    PROVE  FreshOK(g)'
<1>1. Held(g)' = Held(g) /\ (Readable(g)' <=> Readable(g))
    BY DEF Held, Readable
<1>2. work[g] # << >> => work'[g] # << >> /\ Head(work'[g]) = Head(work[g])
    OBVIOUS
<1> QED
    BY <1>1, <1>2 DEF FreshOK

\* A request joins the chain behind those that wait.
LEMMA ReceiveKeeps ==
    ASSUME StoreInv, NEW f \in Files, NEW seqs \in SUBSET Seqs, Receive(f, seqs)
    PROVE  StoreInv'
<1> DEFINE r == [id |-> requests, seqs |-> seqs]
<1> DEFINE q == Append(work[f], r)
<1>1. Typed /\ IdsGiven /\ (\A g \in Files : FreshOK(g)) /\ BareHasLine /\ NoDuplicates
    BY DEF StoreInv
<1>2. /\ work' = [work EXCEPT ![f] = q] /\ requests' = requests + 1
      /\ UNCHANGED <<up, disk, bare, fresh, acked, refused, crashes, writeFaults>>
    BY DEF Receive
<1>3. r \in Request /\ r.id = requests
    BY <1>1 DEF Typed, Request
<1> HIDE DEF r
<1>4. /\ work[f] \in Seq(Request) /\ q \in Seq(Request)
      /\ Len(work[f]) \in Nat /\ Len(q) = Len(work[f]) + 1
      /\ \A i \in 1..Len(work[f]) : q[i] = work[f][i]
      /\ q[Len(work[f]) + 1] = r
    BY <1>1, <1>3 DEF Typed
<1>5. q # << >> /\ (work[f] # << >> => Head(q) = Head(work[f]))
    <2>1. q # << >> /\ Head(q) = q[1]
        <3>1. Len(q) > 0
            BY <1>4
        <3>2. q # << >>
            BY <3>1
        <3> QED
            BY <1>4, <3>2, HeadTailProperties
    <2>2. ASSUME work[f] # << >>
          PROVE  Head(q) = Head(work[f])
        <3>1. Head(work[f]) = work[f][1] /\ 1 \in 1..Len(work[f])
            BY <1>4, <2>2
        <3> QED
            BY <1>4, <2>1, <3>1
    <2> QED
        BY <2>1, <2>2
<1> HIDE DEF q
<1>6. /\ work' \in [Files -> Seq(Request)] /\ work'[f] = q
      /\ \A g \in Files : g # f => work'[g] = work[g]
    BY <1>1, <1>2, <1>4 DEF Typed
<1>7. Typed'
    <2>1. refused' \subseteq 0..(requests' - 1)
        BY <1>1, <1>2 DEF Typed
    <2>2. requests' \in Nat
        BY <1>1, <1>2 DEF Typed
    <2> QED
        BY <1>1, <1>2, <1>6, <2>1, <2>2 DEF Typed
<1>8. IdsGiven'
    <2> SUFFICES ASSUME NEW g \in Files, NEW i \in 1..Len(work'[g])
                 PROVE  work'[g][i].id < requests + 1
        BY <1>2 DEF IdsGiven
    <2>0. requests \in Nat
        BY <1>1 DEF Typed
    <2>1. CASE g # f
        <3>1. work[g] \in Seq(Request) /\ i \in 1..Len(work[g]) /\ work'[g][i] = work[g][i]
            BY <1>1, <1>6, <2>1 DEF Typed
        <3>2. work[g][i] \in Request /\ work[g][i].id < requests
            BY <1>1, <3>1, ElementOfSeq DEF IdsGiven
        <3> QED
            BY <2>0, <3>1, <3>2 DEF Request
    <2>2. CASE g = f
        <3>1. CASE i \in 1..Len(work[f])
            <4>1. work[f][i] \in Request /\ work[f][i].id < requests /\ work'[g][i] = work[f][i]
                BY <1>1, <1>4, <1>6, <2>2, <3>1, ElementOfSeq DEF IdsGiven
            <4> QED
                BY <2>0, <4>1 DEF Request
        <3>2. CASE i = Len(work[f]) + 1
            BY <1>3, <1>4, <1>6, <2>0, <2>2, <3>2
        <3> QED
            BY <1>4, <1>6, <2>2, <3>1, <3>2
    <2> QED
        BY <2>1, <2>2
<1>9. ASSUME NEW g \in Files
      PROVE  FreshOK(g)'
    <2>1. FreshOK(g) /\ fresh' = fresh /\ disk' = disk
        BY <1>1, <1>2
    <2>2. CASE g # f
        <3>1. work'[g] = work[g]
            BY <1>6, <2>2
        <3> QED
            BY <2>1, <3>1, FreshStays
    <2>3. CASE g = f
        <3>1. work[g] # << >> => work'[g] # << >> /\ Head(work'[g]) = Head(work[g])
            BY <1>5, <1>6, <2>3
        <3> QED
            BY <2>1, <3>1, FreshStays
    <2> QED
        BY <2>2, <2>3
<1>10. BareHasLine' /\ NoDuplicates'
    BY <1>1, <1>2 DEF BareHasLine, NoDuplicates
<1>11. RefusedForCause'
    BY <1>2 DEF StoreInv, RefusedForCause, Readable
<1> QED
    BY <1>7, <1>8, <1>9, <1>10, <1>11 DEF StoreInv

\* The running append decides what to write.
LEMMA ReadFreshKeeps ==
    ASSUME StoreInv, NEW f \in Files, ReadFresh(f)
    PROVE  StoreInv'
<1> DEFINE S == Head(work[f]).seqs \ Held(f)
<1>1. Typed /\ IdsGiven /\ (\A g \in Files : FreshOK(g)) /\ BareHasLine /\ NoDuplicates
    BY DEF StoreInv
<1>2. /\ work[f] # << >> /\ Readable(f) /\ S # {}
      /\ fresh' = [fresh EXCEPT ![f] = Ascending(S)]
      /\ UNCHANGED <<up, disk, bare, work, acked, refused, storeCounts>>
    BY DEF ReadFresh, Running
<1>3. S \in SUBSET Seqs
    <2>1. Head(work[f]) \in Request
        BY <1>1, <1>2, HeadTailProperties DEF Typed
    <2> QED
        BY <2>1 DEF Request
<1>4. /\ Ascending(S) \in Seq(Seqs) /\ Ascending(S) # << >> /\ ToSet(Ascending(S)) = S
      /\ \A i, j \in 1..Len(Ascending(S)) : i # j => Ascending(S)[i] # Ascending(S)[j]
    BY <1>2, <1>3, MissingListed
<1>5. /\ fresh' = [g \in Files |-> fresh'[g]]
      /\ fresh'[f] = Ascending(S)
      /\ \A g \in Files : g # f => fresh'[g] = fresh[g]
    BY <1>1, <1>2 DEF Typed
<1>6. FreshOK(f)'
    BY <1>2, <1>4, <1>5 DEF FreshOK, Readable, Held
<1> HIDE DEF S
<1>7. ASSUME NEW g \in Files
      PROVE  FreshOK(g)'
    <2>1. CASE g = f
        BY <1>6, <2>1
    <2>2. CASE g # f
        <3>1. FreshOK(g) /\ fresh'[g] = fresh[g] /\ work' = work /\ disk' = disk
            BY <1>1, <1>2, <1>5, <2>2
        <3> QED
            BY <3>1, FreshStays
    <2> QED
        BY <2>1, <2>2
<1>8. Typed' /\ IdsGiven' /\ BareHasLine' /\ NoDuplicates'
    BY <1>1, <1>2, <1>5 DEF Typed, IdsGiven, BareHasLine, NoDuplicates, storeCounts
<1>9. RefusedForCause'
    BY <1>2 DEF StoreInv, RefusedForCause, Readable, storeCounts
<1> QED
    BY <1>7, <1>8, <1>9 DEF StoreInv

\* The running append ends, whatever it left in its file.
LEMMA EndKeeps ==
    ASSUME StoreInv, NEW f \in Files, Running(f), Finish(f),
           disk' \in [Files -> Seq(Line)], bare' \in [Files -> BOOLEAN],
           \A g \in Files : g # f => disk'[g] = disk[g],
           BareHasLine', NoDuplicates', RefusedForCause',
           acked' \in [Files -> SUBSET Seqs],
           refused' = refused \/ refused' = refused \cup {Head(work[f]).id},
           up' = up, requests' = requests, crashes' = crashes, writeFaults' \in Nat
    PROVE  StoreInv'
<1>1. Typed /\ IdsGiven /\ work[f] # << >> /\ \A g \in Files : FreshOK(g)
    BY DEF StoreInv, Running
<1>2. /\ work' \in [Files -> Seq(Request)]
      /\ fresh' = [g \in Files |-> fresh'[g]]
      /\ fresh'[f] = NotRead
      /\ \A g \in Files : g # f => work'[g] = work[g] /\ fresh'[g] = fresh[g]
      /\ IdsGiven'
      /\ Head(work[f]).id \in 0..(requests - 1)
    BY <1>1, FinishKeeps
<1>3. refused' \subseteq 0..(requests' - 1) /\ IsFiniteSet(refused')
    <2>1. refused \subseteq 0..(requests - 1) /\ IsFiniteSet(refused)
        BY <1>1 DEF Typed
    <2>2. \A x : IsFiniteSet(refused \cup {x})
        BY <2>1, FS_AddElement
    <2> QED
        BY <1>2, <2>1, <2>2
<1>4. Typed'
    BY <1>1, <1>2, <1>3 DEF Typed
<1>5. ASSUME NEW g \in Files
      PROVE  FreshOK(g)'
    <2>1. CASE g = f
        BY <1>2, <2>1 DEF FreshOK
    <2>2. CASE g # f
        <3>1. FreshOK(g) /\ fresh'[g] = fresh[g] /\ work'[g] = work[g] /\ disk'[g] = disk[g]
            BY <1>1, <1>2, <2>2
        <3> QED
            BY <3>1, FreshStays
    <2> QED
        BY <2>1, <2>2
<1> QED
    BY <1>2, <1>4, <1>5 DEF StoreInv

\* A file that cannot be read refuses the request, and stays unreadable.
LEMMA ReadThrowsKeeps ==
    ASSUME StoreInv, NEW f \in Files, ReadThrows(f)
    PROVE  StoreInv'
<1>1. /\ Running(f) /\ Finish(f) /\ ~Readable(f)
      /\ refused' = refused \cup {Head(work[f]).id}
      /\ UNCHANGED <<up, disk, bare, acked, requests, crashes, writeFaults>>
    BY DEF ReadThrows, Refuse, storeCounts
<1>2. ~Readable(f)'
    BY <1>1 DEF Readable
<1>3. RefusedForCause'
    BY <1>2 DEF RefusedForCause
<1>4. BareHasLine' /\ NoDuplicates'
    BY <1>1 DEF StoreInv, BareHasLine, NoDuplicates
<1>5. /\ disk' \in [Files -> Seq(Line)] /\ bare' \in [Files -> BOOLEAN]
      /\ acked' \in [Files -> SUBSET Seqs] /\ writeFaults' \in Nat
      /\ \A g \in Files : disk'[g] = disk[g]
    BY <1>1 DEF StoreInv, Typed
<1> QED
    BY <1>1, <1>3, <1>4, <1>5, EndKeeps

\* Everything offered is held: it is acknowledged.
LEMMA ReadAllHeldKeeps ==
    ASSUME StoreInv, NEW f \in Files, ReadAllHeld(f)
    PROVE  StoreInv'
<1>1. /\ Running(f) /\ Finish(f)
      /\ acked' = [acked EXCEPT ![f] = @ \cup Head(work[f]).seqs]
      /\ UNCHANGED <<up, disk, bare, refused, requests, crashes, writeFaults>>
    BY DEF ReadAllHeld, Acknowledge, storeCounts
<1>2. Head(work[f]).seqs \subseteq Seqs
    <2>1. Head(work[f]) \in Request
        BY <1>1, FinishKeeps DEF StoreInv, Running
    <2> QED
        BY <2>1 DEF Request
<1>3. BareHasLine' /\ NoDuplicates' /\ RefusedForCause'
    BY <1>1 DEF StoreInv, BareHasLine, NoDuplicates, RefusedForCause, Readable
<1>4. acked' \in [Files -> SUBSET Seqs]
    BY <1>1, <1>2 DEF StoreInv, Typed
<1>5. /\ disk' \in [Files -> Seq(Line)] /\ bare' \in [Files -> BOOLEAN] /\ writeFaults' \in Nat
      /\ \A g \in Files : disk'[g] = disk[g]
    BY <1>1 DEF StoreInv, Typed
<1> QED
    BY <1>1, <1>3, <1>4, <1>5, EndKeeps

\* The whole text is in the file.
LEMMA AppendFileKeeps ==
    ASSUME StoreInv, NEW f \in Files, AppendFile(f)
    PROVE  StoreInv'
<1> DEFINE lines == Lines(fresh[f])
<1>1. /\ Running(f) /\ fresh[f] # NotRead /\ Finish(f)
      /\ Write(f, lines, FALSE)
      /\ acked' = [acked EXCEPT ![f] = @ \cup Head(work[f]).seqs]
      /\ UNCHANGED <<up, refused, requests, crashes, writeFaults>>
    BY DEF AppendFile, Acknowledge, storeCounts
<1>2. fresh[f] \in Seq(Seqs)
    BY <1>1 DEF StoreInv, FreshOK
<1>3. /\ lines \in Seq(Line) /\ Len(lines) = Len(fresh[f])
      /\ \A i \in 1..Len(fresh[f]) : lines[i].seq = fresh[f][i]
    BY <1>2, LinesWritten
<1> HIDE DEF lines
<1>4. Len(lines) <= Len(fresh[f]) /\ \A i \in 1..Len(lines) : lines[i].seq = fresh[f][i]
    <2>1. Len(fresh[f]) \in Nat
        BY <1>2
    <2> QED
        BY <1>3, <2>1
<1>5. /\ disk' \in [Files -> Seq(Line)] /\ bare' \in [Files -> BOOLEAN]
      /\ \A g \in Files : g # f => disk'[g] = disk[g]
      /\ BareHasLine' /\ NoDuplicates'
      /\ \A g \in Files : Readable(g)' => Readable(g)
    <2>1. FALSE \in BOOLEAN /\ (FALSE => lines # << >>)
        OBVIOUS
    <2> QED
        BY <1>1, <1>3, <1>4, <2>1, WriteKeeps
<1>6. Head(work[f]).seqs \subseteq Seqs
    <2>1. Head(work[f]) \in Request
        BY <1>1, FinishKeeps DEF StoreInv, Running
    <2> QED
        BY <2>1 DEF Request
<1>7. acked' \in [Files -> SUBSET Seqs] /\ writeFaults' \in Nat /\ writeFaults' >= writeFaults
    BY <1>1, <1>6 DEF StoreInv, Typed
<1>8. RefusedForCause'
    BY <1>1, <1>5, <1>7, CauseKept
<1> QED
    BY <1>1, <1>5, <1>7, <1>8, EndKeeps

\* What a write that is cut short keeps.
LEMMA CutWriteKeeps ==
    ASSUME StoreInv, NEW f \in Files, fresh[f] # NotRead,
           \E cut \in CutShort(Lines(fresh[f])) : Write(f, cut.lines, cut.bare)
    PROVE  /\ disk' \in [Files -> Seq(Line)]
           /\ bare' \in [Files -> BOOLEAN]
           /\ \A g \in Files : g # f => disk'[g] = disk[g]
           /\ BareHasLine'
           /\ NoDuplicates'
           /\ \A g \in Files : Readable(g)' => Readable(g)
<1> DEFINE lines == Lines(fresh[f])
<1>1. PICK cut \in CutShort(lines) : Write(f, cut.lines, cut.bare)
    OBVIOUS
<1>2. fresh[f] \in Seq(Seqs)
    BY DEF StoreInv, FreshOK
<1>3. /\ lines \in Seq(Line) /\ Len(lines) = Len(fresh[f]) /\ Len(fresh[f]) \in Nat
      /\ \A i \in 1..Len(fresh[f]) : lines[i].seq = fresh[f][i]
    BY <1>2, LinesWritten
<1> HIDE DEF lines
<1>4. /\ cut.lines \in Seq(Line) /\ Len(cut.lines) <= Len(lines)
      /\ \A i \in 1..Len(cut.lines) : cut.lines[i].seq = lines[i].seq
      /\ cut.bare \in BOOLEAN /\ (cut.bare => cut.lines # << >>)
    BY <1>1, <1>3, CutIsPrefix
<1>5. Len(cut.lines) <= Len(fresh[f]) /\ \A i \in 1..Len(cut.lines) : cut.lines[i].seq = fresh[f][i]
    BY <1>3, <1>4
<1> QED
    BY <1>1, <1>4, <1>5, WriteKeeps

\* A write fails part of the way: its request is refused, and counted.
LEMMA AppendFailsKeeps ==
    ASSUME StoreInv, NEW f \in Files, AppendFails(f)
    PROVE  StoreInv'
<1>1. /\ Running(f) /\ Finish(f) /\ fresh[f] # NotRead
      /\ writeFaults' = writeFaults + 1
      /\ \E cut \in CutShort(Lines(fresh[f])) : Write(f, cut.lines, cut.bare)
      /\ refused' = refused \cup {Head(work[f]).id}
      /\ UNCHANGED <<up, acked, requests, crashes>>
    BY DEF AppendFails, Refuse
<1>2. /\ disk' \in [Files -> Seq(Line)] /\ bare' \in [Files -> BOOLEAN]
      /\ \A g \in Files : g # f => disk'[g] = disk[g]
      /\ BareHasLine' /\ NoDuplicates'
      /\ \A g \in Files : Readable(g)' => Readable(g)
    BY <1>1, CutWriteKeeps
<1>3. Cardinality(refused') <= Cardinality(refused) + 1
    <2>1. IsFiniteSet(refused) /\ Cardinality(refused) \in Nat
        BY FS_CardinalityType DEF StoreInv, Typed
    <2>2. CASE Head(work[f]).id \in refused
        <3>1. refused' = refused
            BY <1>1, <2>2
        <3> QED
            BY <2>1, <3>1
    <2>3. CASE Head(work[f]).id \notin refused
        <3>1. Cardinality(refused') = Cardinality(refused) + 1
            BY <1>1, <2>1, <2>3, FS_AddElement
        <3> QED
            BY <2>1, <3>1
    <2> QED
        BY <2>2, <2>3
<1>4. RefusedForCause'
    <2>1. /\ Cardinality(refused) \in Nat /\ writeFaults \in Nat /\ IsFiniteSet(refused)
        BY FS_CardinalityType DEF StoreInv, Typed
    <2>2. IsFiniteSet(refused')
        BY <1>1, <2>1, FS_AddElement
    <2>3. Cardinality(refused') \in Nat
        BY <2>2, FS_CardinalityType
    <2>4. (\A g \in Files : Readable(g)') => Cardinality(refused) <= writeFaults
        BY <1>2 DEF StoreInv, RefusedForCause
    <2>5. (\A g \in Files : Readable(g)') => Cardinality(refused') <= writeFaults'
        BY <1>1, <1>3, <2>1, <2>3, <2>4
    <2> QED
        BY <2>5 DEF RefusedForCause
<1>5. acked' \in [Files -> SUBSET Seqs] /\ writeFaults' \in Nat
    BY <1>1 DEF StoreInv, Typed
<1> QED
    BY <1>1, <1>2, <1>4, <1>5, EndKeeps

\* The process dies and forgets every chain, in the middle of a write or not.
LEMMA ForgetKeeps ==
    ASSUME StoreInv, Forget,
           disk' \in [Files -> Seq(Line)], bare' \in [Files -> BOOLEAN],
           BareHasLine', NoDuplicates', \A g \in Files : Readable(g)' => Readable(g),
           crashes' = crashes + 1,
           UNCHANGED <<acked, refused, requests, writeFaults>>
    PROVE  StoreInv'
<1>1. Typed
    BY DEF StoreInv
<1>2. /\ up' \in BOOLEAN
      /\ work' \in [Files -> Seq(Request)] /\ \A g \in Files : work'[g] = << >>
      /\ fresh' = [g \in Files |-> NotRead] /\ \A g \in Files : fresh'[g] = NotRead
    <2>1. /\ up' = FALSE /\ work' = [g \in Files |-> << >>]
          /\ fresh' = [g \in Files |-> NotRead]
        BY DEF Forget
    <2>2. << >> \in Seq(Request)
        OBVIOUS
    <2>3. work' \in [Files -> Seq(Request)]
        BY <2>1, <2>2
    <2> QED
        BY <2>1, <2>3
<1>3. Typed'
    <2>1. fresh' = [g \in Files |-> fresh'[g]]
        BY <1>2
    <2> QED
        BY <1>1, <1>2, <2>1 DEF Typed
<1>4. IdsGiven' /\ \A g \in Files : FreshOK(g)'
    BY <1>2 DEF IdsGiven, FreshOK
<1>5. RefusedForCause'
    <2>1. writeFaults' \in Nat /\ writeFaults' >= writeFaults /\ refused' = refused
        BY <1>1 DEF Typed
    <2> QED
        BY <2>1, CauseKept
<1> QED
    BY <1>3, <1>4, <1>5 DEF StoreInv

LEMMA CrashKeeps ==
    ASSUME StoreInv, Crash
    PROVE  StoreInv'
<1>1. Forget /\ crashes' = crashes + 1 /\ UNCHANGED <<disk, bare, acked, refused, requests, writeFaults>>
    BY DEF Crash
<1>2. /\ disk' \in [Files -> Seq(Line)] /\ bare' \in [Files -> BOOLEAN]
      /\ BareHasLine' /\ NoDuplicates' /\ \A g \in Files : Readable(g)' => Readable(g)
    BY <1>1 DEF StoreInv, Typed, BareHasLine, NoDuplicates, Readable
<1> QED
    BY <1>1, <1>2, ForgetKeeps

LEMMA CrashInWriteKeeps ==
    ASSUME StoreInv, NEW f \in Files, CrashInWrite(f)
    PROVE  StoreInv'
<1>1. /\ Forget /\ fresh[f] # NotRead /\ crashes' = crashes + 1
      /\ \E cut \in CutShort(Lines(fresh[f])) : Write(f, cut.lines, cut.bare)
      /\ UNCHANGED <<acked, refused, requests, writeFaults>>
    BY DEF CrashInWrite
<1>2. /\ disk' \in [Files -> Seq(Line)] /\ bare' \in [Files -> BOOLEAN]
      /\ BareHasLine' /\ NoDuplicates' /\ \A g \in Files : Readable(g)' => Readable(g)
    BY <1>1, CutWriteKeeps
<1> QED
    BY <1>1, <1>2, ForgetKeeps

LEMMA RestartKeeps ==
    ASSUME StoreInv, Restart
    PROVE  StoreInv'
<1>1. up' = TRUE /\ UNCHANGED <<disk, bare, work, fresh, acked, refused, requests, crashes, writeFaults>>
    BY DEF Restart, storeCounts
<1> QED
    BY <1>1 DEF StoreInv, Typed, IdsGiven, FreshOK, Held, Readable, BareHasLine,
                NoDuplicates, RefusedForCause

LEMMA StutterKeeps ==
    ASSUME StoreInv, UNCHANGED vars
    PROVE  StoreInv'
BY DEF vars, storeVars, storeCounts, StoreInv, Typed, IdsGiven, FreshOK, Held, Readable,
       BareHasLine, NoDuplicates, RefusedForCause

LEMMA StepKeeps ==
    ASSUME StoreInv, [Next]_vars
    PROVE  StoreInv'
<1>1. ASSUME NEW f \in Files, NEW seqs \in SUBSET Seqs, Receive(f, seqs)
      PROVE  StoreInv'
    BY <1>1, ReceiveKeeps
<1>2. ASSUME NEW f \in Files, WorkStep(f)
      PROVE  StoreInv'
    BY <1>2, ReadThrowsKeeps, ReadAllHeldKeeps, ReadFreshKeeps, AppendFileKeeps DEF WorkStep
<1>3. ASSUME NEW f \in Files, AppendFails(f)
      PROVE  StoreInv'
    BY <1>3, AppendFailsKeeps
<1>4. ASSUME NEW f \in Files, CrashInWrite(f)
      PROVE  StoreInv'
    BY <1>4, CrashInWriteKeeps
<1> QED
    BY <1>1, <1>2, <1>3, <1>4, CrashKeeps, RestartKeeps, StutterKeeps DEF Next

LEMMA InitStore == Init => StoreInv
<1> SUFFICES ASSUME Init
             PROVE  StoreInv
    OBVIOUS
<1>1. Typed
    BY FS_EmptySet DEF Init, Typed
<1>2. IdsGiven /\ (\A f \in Files : FreshOK(f)) /\ BareHasLine /\ NoDuplicates
    BY DEF Init, IdsGiven, FreshOK, BareHasLine, NoDuplicates
<1>3. RefusedForCause
    BY FS_EmptySet DEF Init, RefusedForCause
<1> QED
    BY <1>1, <1>2, <1>3 DEF StoreInv

-----------------------------------------------------------------------------
(* The theorems.                                                            *)

LEMMA Invariant == Spec => []StoreInv
<1>1. StoreInv /\ [Next]_vars => StoreInv'
    BY StepKeeps
<1> QED
    BY <1>1, InitStore, PTL DEF Spec

\* The types of the server's files, chains and answers (store.ts 29-120).
THEOREM StoreTypes == Spec => []TypeOK
<1>1. StoreInv => TypeOK
    <2> SUFFICES ASSUME StoreInv
                 PROVE  TypeOK
        OBVIOUS
    <2>1. ASSUME NEW f \in Files, fresh[f] # NotRead
          PROVE  fresh[f] # << >> /\ ToSet(fresh[f]) \subseteq Seqs
        BY <2>1 DEF StoreInv, FreshOK, ToSet
    <2> QED
        BY <2>1 DEF StoreInv, Typed, TypeOK
<1> QED
    BY <1>1, Invariant, PTL

\* Appends are idempotent by sequence number (store.ts 29-31).
THEOREM Idempotent == Spec => []NoDuplicates
<1>1. StoreInv => NoDuplicates
    BY DEF StoreInv
<1> QED
    BY <1>1, Invariant, PTL

\* The chain of a file is not poisoned by a rejected link (store.ts 54-57).
THEOREM OneRefusalPerFailure == Spec => []RefusedForCause
<1>1. StoreInv => RefusedForCause
    BY DEF StoreInv
<1> QED
    BY <1>1, Invariant, PTL

-----------------------------------------------------------------------------
(* What a step changes of the chunks a file holds whole.                    *)

\* A write adds no chunk that is not in its lines.
LEMMA WriteHoldsNoMore ==
    ASSUME StoreInv, NEW f \in Files, NEW lines \in Seq(Line), NEW endsBare,
           Write(f, lines, endsBare), NEW S, \A i \in 1..Len(lines) : lines[i].seq \in S
    PROVE  WholeSeqs(f)' \subseteq WholeSeqs(f) \cup S
<1> DEFINE d == disk[f]
<1> DEFINE a == Appended(f, lines)
<1>1. disk \in [Files -> Seq(Line)] /\ (bare[f] => disk[f] # << >>)
    BY DEF StoreInv, Typed, BareHasLine
<1>2. Grown(d, bare[f], lines, a)
    BY <1>1, AppendedLines
<1>3. disk'[f] = a
    BY <1>1 DEF Write
<1>4. d \in Seq(Line) /\ Len(d) \in Nat /\ DOMAIN d = 1..Len(d)
    BY <1>1
<1> HIDE DEF a, d
<1>5. ASSUME NEW seq \in WholeSeqs(f)'
      PROVE  seq \in WholeSeqs(f) \cup S
    <2>1. PICK line \in ToSet(a) : line.whole /\ line.seq = seq
        BY <1>3, <1>5 DEF WholeSeqs
    <2> PICK i \in DOMAIN a : a[i] = line
        BY <2>1 DEF ToSet
    <2>2. i \in 1..Len(a) /\ Len(a) \in Nat
        BY <1>2 DEF Grown
    <2>3. CASE i <= Len(d)
        <3>1. i \in 1..Len(d)
            BY <1>4, <2>2, <2>3
        <3>2. d[i].whole /\ d[i].seq = seq
            BY <1>2, <2>1, <3>1 DEF Grown
        <3>3. d[i] \in ToSet(d)
            BY <1>4, <3>1 DEF ToSet
        <3> QED
            BY <3>2, <3>3 DEF WholeSeqs, d
    <2>4. CASE ~(i <= Len(d))
        <3> i \in (Len(d) + 1)..Len(a)
            BY <1>4, <2>2, <2>4
        <3>1. PICK c \in {0, 1} : i - Len(d) + c \in 1..Len(lines) /\ a[i] = lines[i - Len(d) + c]
            BY <1>2 DEF Grown
        <3> QED
            BY <2>1, <3>1
    <2> QED
        BY <2>3, <2>4
<1> QED
    BY <1>5

\* A cut write adds only chunks of the running request.
LEMMA CutWriteHoldsNoMore ==
    ASSUME StoreInv, NEW f \in Files, fresh[f] # NotRead,
           \E cut \in CutShort(Lines(fresh[f])) : Write(f, cut.lines, cut.bare)
    PROVE  WholeSeqs(f)' \subseteq WholeSeqs(f) \cup Head(work[f]).seqs
<1> DEFINE lines == Lines(fresh[f])
<1>1. PICK cut \in CutShort(lines) : Write(f, cut.lines, cut.bare)
    OBVIOUS
<1>2. fresh[f] \in Seq(Seqs) /\ ToSet(fresh[f]) = Head(work[f]).seqs \ Held(f)
    BY DEF StoreInv, FreshOK
<1>3. /\ lines \in Seq(Line) /\ Len(lines) = Len(fresh[f])
      /\ \A i \in 1..Len(fresh[f]) : lines[i].seq = fresh[f][i]
    BY <1>2, LinesWritten
<1> HIDE DEF lines
<1>4. /\ cut.lines \in Seq(Line)
      /\ Len(cut.lines) <= Len(lines)
      /\ \A i \in 1..Len(cut.lines) : cut.lines[i].seq = lines[i].seq
    BY <1>1, <1>3, CutIsPrefix
<1>5. \A i \in 1..Len(cut.lines) : cut.lines[i].seq \in Head(work[f]).seqs
    <2> SUFFICES ASSUME NEW i \in 1..Len(cut.lines)
                 PROVE  cut.lines[i].seq \in Head(work[f]).seqs
        OBVIOUS
    <2>1. i \in 1..Len(fresh[f])
        <3>1. Len(cut.lines) \in Nat /\ Len(lines) \in Nat
            BY <1>3, <1>4
        <3> QED
            BY <1>3, <1>4, <3>1
    <2>2. fresh[f][i] \in ToSet(fresh[f])
        BY <1>2, <2>1 DEF ToSet
    <2> QED
        BY <1>2, <1>3, <1>4, <2>1, <2>2
<1> QED
    BY <1>1, <1>4, <1>5, WriteHoldsNoMore

\* Whatever the append at the head of a chain does, its file comes to hold no whole
\* chunk that was not asked for ...
LEMMA StepHoldsNoMore ==
    ASSUME StoreInv, NEW f \in Files, WorkStep(f) \/ AppendFails(f) \/ CrashInWrite(f)
    PROVE  WholeSeqs(f)' \subseteq WholeSeqs(f) \cup Head(work[f]).seqs
<1>1. CASE AppendFile(f)
    <2> DEFINE lines == Lines(fresh[f])
    <2>1. fresh[f] # NotRead /\ Write(f, lines, FALSE)
        BY <1>1 DEF AppendFile
    <2>2. fresh[f] \in Seq(Seqs) /\ ToSet(fresh[f]) = Head(work[f]).seqs \ Held(f)
        BY <2>1 DEF StoreInv, FreshOK
    <2>3. /\ lines \in Seq(Line) /\ Len(lines) = Len(fresh[f])
          /\ \A i \in 1..Len(fresh[f]) : lines[i].seq = fresh[f][i]
        BY <2>2, LinesWritten
    <2> HIDE DEF lines
    <2>4. \A i \in 1..Len(lines) : lines[i].seq \in Head(work[f]).seqs
        <3>1. \A i \in 1..Len(fresh[f]) : fresh[f][i] \in ToSet(fresh[f])
            BY <2>2 DEF ToSet
        <3> QED
            BY <2>2, <2>3, <3>1
    <2> QED
        BY <2>1, <2>3, <2>4, WriteHoldsNoMore
<1>2. CASE AppendFails(f) \/ CrashInWrite(f)
    BY <1>2, CutWriteHoldsNoMore DEF AppendFails, CrashInWrite
<1>3. CASE ReadThrows(f) \/ ReadAllHeld(f) \/ ReadFresh(f)
    BY <1>3 DEF ReadThrows, ReadAllHeld, ReadFresh, WholeSeqs
<1> QED
    BY <1>1, <1>2, <1>3 DEF WorkStep

\* In a file that can be read every line is whole.
LEMMA ReadableIsWhole ==
    ASSUME NEW f \in Files, Readable(f)
    PROVE  Held(f) = WholeSeqs(f)
BY DEF Readable, Held, WholeSeqs

\* A write behind a line without its newline spoils that line and the first of its
\* own, and with them the file; any other write spoils nothing.
LEMMA WriteSpoils ==
    ASSUME StoreInv, NEW f \in Files, NEW lines \in Seq(Line), NEW endsBare,
           Write(f, lines, endsBare)
    PROVE  /\ \A g \in Files : g # f => disk'[g] = disk[g]
           /\ \E old, new :
                  /\ WholeSeqs(f) \ WholeSeqs(f)' \subseteq {old}
                  /\ \A i \in 1..Len(lines) :
                         lines[i].whole => lines[i].seq \in WholeSeqs(f)' \cup {new}
           /\ Readable(f)' =>
                  /\ WholeSeqs(f) \subseteq WholeSeqs(f)'
                  /\ \A i \in 1..Len(lines) : lines[i].whole => lines[i].seq \in WholeSeqs(f)'
<1> DEFINE d == disk[f]
<1> DEFINE a == Appended(f, lines)
<1>1. disk \in [Files -> Seq(Line)] /\ (bare[f] => disk[f] # << >>) /\ bare[f] \in BOOLEAN
    BY DEF StoreInv, Typed, BareHasLine
<1>2. Grown(d, bare[f], lines, a)
    BY <1>1, AppendedLines
<1>3. disk'[f] = a /\ \A g \in Files : g # f => disk'[g] = disk[g]
    BY <1>1 DEF Write
<1>4. /\ d \in Seq(Line) /\ Len(d) \in Nat /\ DOMAIN d = 1..Len(d)
      /\ Len(lines) \in Nat
      /\ bare[f] => Len(d) > 0
    BY <1>1
<1> HIDE DEF a, d
<1>5. a \in Seq(Line) /\ Len(a) \in Nat /\ DOMAIN a = 1..Len(a)
    BY <1>2 DEF Grown
<1>6. ASSUME NEW i \in 1..Len(a), a[i].whole
      PROVE  a[i].seq \in WholeSeqs(f)'
    <2>1. a[i] \in ToSet(a)
        BY <1>5 DEF ToSet
    <2> QED
        BY <1>3, <1>6, <2>1 DEF WholeSeqs
<1>7. ASSUME NEW seq \in WholeSeqs(f)
      PROVE  \E i \in 1..Len(d) : d[i].whole /\ d[i].seq = seq
    <2>1. PICK line \in ToSet(d) : line.whole /\ line.seq = seq
        BY <1>7 DEF WholeSeqs, d
    <2> QED
        BY <1>4, <2>1 DEF ToSet
<1>8. CASE ~bare[f] \/ lines = << >>
    <2>1. /\ \A i \in 1..Len(d) : i \in 1..Len(a) /\ a[i] = d[i]
          /\ \A i \in 1..Len(lines) : Len(d) + i \in 1..Len(a) /\ a[Len(d) + i] = lines[i]
        <3>1. CASE ~bare[f]
            <4>1. /\ \A i \in 1..Len(d) : a[i] = d[i]
                  /\ Len(a) = Len(d) + Len(lines)
                  /\ \A i \in 1..Len(lines) : a[Len(d) + i] = lines[i]
                BY <1>2, <3>1 DEF Grown
            <4>2. /\ \A i \in 1..Len(d) : i \in 1..Len(a)
                  /\ \A i \in 1..Len(lines) : Len(d) + i \in 1..Len(a)
                BY <1>4, <4>1
            <4> QED
                BY <4>1, <4>2
        <3>2. CASE lines = << >>
            <4>1. a = d /\ Len(lines) = 0
                BY <1>2, <3>2 DEF Grown
            <4> QED
                BY <1>4, <4>1
        <3> QED
            BY <1>8, <3>1, <3>2
    <2>2. WholeSeqs(f) \subseteq WholeSeqs(f)'
        BY <1>6, <1>7, <2>1
    <2>3. \A i \in 1..Len(lines) : lines[i].whole => lines[i].seq \in WholeSeqs(f)'
        BY <1>6, <2>1
    <2> QED
        BY <1>3, <2>2, <2>3
<1>9. CASE bare[f] /\ lines # << >>
    <2> DEFINE n == Len(d)
    <2>1. /\ n \in 1..Len(a) /\ ~a[n].whole
          /\ \A i \in 1..n : i # n => i \in 1..Len(a) /\ a[i] = d[i]
          /\ \A i \in 2..Len(lines) : n + (i - 1) \in 1..Len(a) /\ a[n + (i - 1)] = lines[i]
        <3>1. /\ ~a[n].whole /\ Len(a) = n + (Len(lines) - 1)
              /\ \A i \in 1..(Len(lines) - 1) : a[n + i] = lines[i + 1]
              /\ n <= Len(a)
              /\ \A i \in 1..n : ~(i = n /\ bare[f]) => a[i] = d[i]
            BY <1>2, <1>9 DEF Grown
        <3>2. \A i \in 2..Len(lines) : i - 1 \in 1..(Len(lines) - 1) /\ (i - 1) + 1 = i
            BY <1>4
        <3>3. \A i \in 2..Len(lines) : a[n + (i - 1)] = lines[i]
            BY <3>1, <3>2
        <3>4. n \in Nat /\ n > 0 /\ Len(a) \in Nat /\ Len(lines) \in Nat
            BY <1>4, <1>5, <1>9
        <3>5. /\ n \in 1..Len(a)
              /\ \A i \in 1..n : i \in 1..Len(a)
              /\ \A i \in 2..Len(lines) : n + (i - 1) \in 1..Len(a)
            <4>1. n <= Len(a) /\ Len(a) = n + (Len(lines) - 1)
                BY <3>1
            <4> HIDE DEF n
            <4> QED
                BY <3>4, <4>1
        <3>6. \A i \in 1..n : i # n => a[i] = d[i]
            BY <3>1
        <3> QED
            BY <3>1, <3>3, <3>5, <3>6
    <2>2. ~Readable(f)'
        <3>1. a[n] \in ToSet(a)
            BY <1>5, <2>1 DEF ToSet
        <3> QED
            BY <1>3, <2>1, <3>1 DEF Readable
    <2>3. WholeSeqs(f) \ WholeSeqs(f)' \subseteq {d[n].seq}
        BY <1>6, <1>7, <2>1
    <2>4. \A i \in 1..Len(lines) :
              lines[i].whole => lines[i].seq \in WholeSeqs(f)' \cup {lines[1].seq}
        <3>1. \A i \in 1..Len(lines) : i = 1 \/ i \in 2..Len(lines)
            BY <1>4
        <3> QED
            BY <1>6, <2>1, <3>1
    <2> QED
        BY <1>3, <2>2, <2>3, <2>4
<1> QED
    BY <1>8, <1>9

\* What a step at the head of a chain takes, keeps and loses: nothing in a file that
\* cannot be read, nothing either if it can be read afterwards, and otherwise two
\* chunks at most.
LEMMA StepSpoils ==
    ASSUME StoreInv, NEW f \in Files, WorkStep(f) \/ AppendFails(f) \/ CrashInWrite(f)
    PROVE  /\ \A g \in Files : g # f => disk'[g] = disk[g] /\ acked'[g] = acked[g]
           /\ acked[f] \subseteq acked'[f]
           /\ \E old, new :
                  /\ WholeSeqs(f) \ WholeSeqs(f)' \subseteq {old}
                  /\ acked'[f] \subseteq acked[f] \cup WholeSeqs(f)' \cup {old, new}
           /\ Readable(f)' => /\ WholeSeqs(f) \subseteq WholeSeqs(f)'
                              /\ acked'[f] \subseteq acked[f] \cup WholeSeqs(f)'
           /\ ~Readable(f) => disk' = disk /\ acked' = acked
<1>1. acked \in [Files -> SUBSET Seqs]
    BY DEF StoreInv, Typed
<1>2. CASE ReadThrows(f) \/ ReadFresh(f)
    <2>1. disk' = disk /\ acked' = acked
        BY <1>2 DEF ReadThrows, Refuse, ReadFresh
    <2>2. WholeSeqs(f)' = WholeSeqs(f)
        BY <2>1 DEF WholeSeqs
    <2> QED
        BY <2>1, <2>2
<1>3. CASE ReadAllHeld(f)
    <2>1. /\ disk' = disk /\ Readable(f)
          /\ acked' = [acked EXCEPT ![f] = @ \cup Head(work[f]).seqs]
          /\ Head(work[f]).seqs \subseteq Held(f)
        BY <1>3 DEF ReadAllHeld, Acknowledge
    <2>2. WholeSeqs(f)' = WholeSeqs(f)
        BY <2>1 DEF WholeSeqs
    <2>3. Head(work[f]).seqs \subseteq WholeSeqs(f)
        BY <2>1, ReadableIsWhole
    <2>4. /\ acked'[f] = acked[f] \cup Head(work[f]).seqs
          /\ \A g \in Files : g # f => acked'[g] = acked[g]
        BY <1>1, <2>1
    <2> QED
        BY <2>1, <2>2, <2>3, <2>4
<1>4. CASE AppendFile(f)
    <2> DEFINE lines == Lines(fresh[f])
    <2>1. /\ fresh[f] # NotRead /\ Write(f, lines, FALSE)
          /\ acked' = [acked EXCEPT ![f] = @ \cup Head(work[f]).seqs]
        BY <1>4 DEF AppendFile, Acknowledge
    <2>2. /\ fresh[f] \in Seq(Seqs) /\ Readable(f)
          /\ ToSet(fresh[f]) = Head(work[f]).seqs \ Held(f)
        BY <2>1 DEF StoreInv, FreshOK
    <2>3. /\ lines \in Seq(Line) /\ Len(lines) = Len(fresh[f])
          /\ \A i \in 1..Len(fresh[f]) : lines[i].seq = fresh[f][i] /\ lines[i].whole
        BY <2>2, LinesWritten
    <2> HIDE DEF lines
    <2>4. /\ \A g \in Files : g # f => disk'[g] = disk[g]
          /\ \E old, new :
                 /\ WholeSeqs(f) \ WholeSeqs(f)' \subseteq {old}
                 /\ \A i \in 1..Len(lines) :
                        lines[i].whole => lines[i].seq \in WholeSeqs(f)' \cup {new}
          /\ Readable(f)' =>
                 /\ WholeSeqs(f) \subseteq WholeSeqs(f)'
                 /\ \A i \in 1..Len(lines) : lines[i].whole => lines[i].seq \in WholeSeqs(f)'
        BY <2>1, <2>3, WriteSpoils
    <2>5. PICK old, new :
                 /\ WholeSeqs(f) \ WholeSeqs(f)' \subseteq {old}
                 /\ \A i \in 1..Len(lines) :
                        lines[i].whole => lines[i].seq \in WholeSeqs(f)' \cup {new}
        BY <2>4
    <2>6. \A seq \in Head(work[f]).seqs :
              seq \in WholeSeqs(f) \/ \E i \in 1..Len(lines) : lines[i].whole /\ lines[i].seq = seq
        <3> SUFFICES ASSUME NEW seq \in Head(work[f]).seqs, seq \notin WholeSeqs(f)
                     PROVE  \E i \in 1..Len(lines) : lines[i].whole /\ lines[i].seq = seq
            OBVIOUS
        <3>1. seq \in ToSet(fresh[f])
            BY <2>2, ReadableIsWhole
        <3>2. PICK i \in DOMAIN fresh[f] : fresh[f][i] = seq
            BY <3>1 DEF ToSet
        <3>3. i \in 1..Len(fresh[f])
            BY <2>2, <3>2
        <3> QED
            BY <2>3, <3>2, <3>3
    <2>7. Head(work[f]).seqs \subseteq WholeSeqs(f)' \cup {old, new}
        BY <2>5, <2>6
    <2>8. Readable(f)' => Head(work[f]).seqs \subseteq WholeSeqs(f)'
        BY <2>4, <2>6
    <2>9. /\ acked'[f] = acked[f] \cup Head(work[f]).seqs
          /\ \A g \in Files : g # f => acked'[g] = acked[g]
        BY <1>1, <2>1
    <2> QED
        BY <2>2, <2>4, <2>5, <2>7, <2>8, <2>9
<1>5. CASE AppendFails(f) \/ CrashInWrite(f)
    <2> DEFINE lines == Lines(fresh[f])
    <2>1. fresh[f] # NotRead /\ acked' = acked
        BY <1>5 DEF AppendFails, Refuse, CrashInWrite
    <2>2. PICK cut \in CutShort(lines) : Write(f, cut.lines, cut.bare)
        BY <1>5 DEF AppendFails, CrashInWrite
    <2>3. fresh[f] \in Seq(Seqs) /\ Readable(f)
        BY <2>1 DEF StoreInv, FreshOK
    <2>4. lines \in Seq(Line)
        BY <2>3, LinesWritten
    <2> HIDE DEF lines
    <2>5. cut.lines \in Seq(Line)
        BY <2>2, <2>4, CutIsPrefix
    <2>6. /\ \A g \in Files : g # f => disk'[g] = disk[g]
          /\ \E old, new : WholeSeqs(f) \ WholeSeqs(f)' \subseteq {old}
          /\ Readable(f)' => WholeSeqs(f) \subseteq WholeSeqs(f)'
        BY <2>2, <2>5, WriteSpoils
    <2> QED
        BY <2>1, <2>3, <2>6
<1> QED
    BY <1>2, <1>3, <1>4, <1>5 DEF WorkStep

\* What was acknowledged of a file that could be read is in it or among the two.
LEMMA StepKeepsAcked ==
    ASSUME StoreInv, AckedIsKept, [Next]_vars
    PROVE  AckedIsKept'
<1>1. ASSUME UNCHANGED <<disk, acked>>
      PROVE  AckedIsKept'
    BY <1>1 DEF AckedIsKept, WholeSeqs, Readable
<1>2. ASSUME NEW f \in Files, WorkStep(f) \/ AppendFails(f) \/ CrashInWrite(f)
      PROVE  AckedIsKept'
    <2>1. /\ \A g \in Files : g # f => disk'[g] = disk[g] /\ acked'[g] = acked[g]
          /\ \E old, new :
                 /\ WholeSeqs(f) \ WholeSeqs(f)' \subseteq {old}
                 /\ acked'[f] \subseteq acked[f] \cup WholeSeqs(f)' \cup {old, new}
          /\ Readable(f)' => /\ WholeSeqs(f) \subseteq WholeSeqs(f)'
                             /\ acked'[f] \subseteq acked[f] \cup WholeSeqs(f)'
          /\ ~Readable(f) => disk' = disk /\ acked' = acked
        BY <1>2, StepSpoils
    <2>2. CASE ~Readable(f)
        BY <1>1, <2>1, <2>2
    <2>3. CASE Readable(f)
        <3>1. acked[f] \subseteq WholeSeqs(f)
            BY <2>3 DEF AckedIsKept
        <3>2. Readable(f)' => acked'[f] \subseteq WholeSeqs(f)'
            BY <2>1, <3>1
        <3>3. \E old, new : acked'[f] \ WholeSeqs(f)' \subseteq {old, new}
            BY <2>1, <3>1
        <3>4. acked'[f] \subseteq Seqs
            BY <1>2, StepKeeps DEF StoreInv, Typed, Next
        <3>5. ASSUME acked'[f] \ WholeSeqs(f)' # {}
              PROVE  \E old, new \in Seqs : acked'[f] \ WholeSeqs(f)' \subseteq {old, new}
            <4>1. PICK old, new : acked'[f] \ WholeSeqs(f)' \subseteq {old, new}
                BY <3>3
            <4>2. PICK some \in acked'[f] \ WholeSeqs(f)' : some \in Seqs
                BY <3>4, <3>5
            <4>3. (old \in Seqs /\ new \in Seqs) \/ old \notin Seqs \/ new \notin Seqs
                OBVIOUS
            <4>4. CASE old \in Seqs /\ new \in Seqs
                BY <4>1, <4>4
            <4>5. CASE old \notin Seqs
                BY <3>4, <4>1, <4>2, <4>5
            <4>6. CASE new \notin Seqs
                BY <3>4, <4>1, <4>2, <4>6
            <4> QED
                BY <4>4, <4>5, <4>6
        <3>6. ASSUME NEW g \in Files, acked'[g] \ WholeSeqs(g)' # {}
              PROVE  /\ ~Readable(g)'
                     /\ \E old, new \in Seqs : acked'[g] \ WholeSeqs(g)' \subseteq {old, new}
            <4>1. CASE g = f
                BY <3>2, <3>5, <3>6, <4>1
            <4>2. CASE g # f
                <5>1. /\ WholeSeqs(g)' = WholeSeqs(g) /\ acked'[g] = acked[g]
                      /\ Readable(g)' <=> Readable(g)
                    BY <2>1, <4>2 DEF WholeSeqs, Readable
                <5> QED
                    BY <3>6, <5>1 DEF AckedIsKept
            <4> QED
                BY <4>1, <4>2
        <3> QED
            BY <3>6 DEF AckedIsKept
    <2> QED
        BY <2>2, <2>3
<1>3. ASSUME NEW f \in Files, NEW seqs \in SUBSET Seqs, Receive(f, seqs)
      PROVE  AckedIsKept'
    BY <1>1, <1>3 DEF Receive
<1>4. ASSUME Crash \/ Restart \/ UNCHANGED vars
      PROVE  AckedIsKept'
    BY <1>1, <1>4 DEF Crash, Restart, vars, storeVars
<1> QED
    BY <1>2, <1>3, <1>4 DEF Next

\* What was acknowledged stays in its file as it was written (store.ts 10-11, 29-31),
\* wherever a write may be cut: only a line glued to one left without its newline can
\* take it back, two chunks at most, and then the file no longer reads (store.ts 47, 67).
THEOREM AckedIsKeptAlways == Spec => []AckedIsKept
<1>1. Init => AckedIsKept
    BY DEF Init, AckedIsKept
<1>2. StoreInv /\ AckedIsKept /\ [Next]_vars => AckedIsKept'
    BY StepKeepsAcked
<1> QED
    BY <1>1, <1>2, Invariant, PTL DEF Spec

=============================================================================
