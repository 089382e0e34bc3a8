------------------------------ MODULE RunsProofs ------------------------------
(***************************************************************************)
(* What TLAPS proves of Runs, for every input, capacity, number of cases,  *)
(* runs, lines and messages: typed input arrives whole and once, a prompt  *)
(* belongs to the read that is blocked, results belong to their run and    *)
(* their cases, a finished case shows everything, and a stop is final.     *)
(***************************************************************************)
EXTENDS Runs, FiniteSetTheorems, FunctionTheorems, SequenceTheorems, WellFoundedInduction, TLAPS

-----------------------------------------------------------------------------
(* The invariant.                                                           *)

Phases == {"idle", "boot", "build", "case"}
Calls == [no: Nat, at: Phases, lang: Languages, pch: BOOLEAN, live: BOOLEAN,
          k: 0..Cases, aborted: BOOLEAN]
Runtimes == {"none", "booting", "ready", "failed"}
Programs == [at: {"none", "start", "run", "read", "over"}, wrote: Nat, seen: Nat,
             buf: Seq(Nat), got: Seq(Nat)]

Lasting == Traps \cup {"finished", "error", "stopped"}
KindsAt(at) == CASE at = "boot" -> {"ready", "failed"}
                 [] at = "build" -> {"built", "not-built", "failed"}
                 [] at = "case" -> Lasting \cup {"output", "needs-input"}
                 [] OTHER -> {}
Kinds == Lasting \cup {"ready", "failed", "built", "not-built", "output", "needs-input"}

\* The lines a user can send, as far as they fit.
Lines == {Fitting(Line(n)) : n \in 1..MaxTyped}

\* The stores that are still to come of a line v and of an end of input.
LengthAndReady(v) == << [field |-> "length", value |-> Len(v)], [field |-> "state", value |-> "ready"] >>
JustReady == << [field |-> "state", value |-> "ready"] >>
AllOf(v) == << [field |-> "bytes", value |-> v],
               [field |-> "length", value |-> Len(v)],
               [field |-> "state", value |-> "ready"] >>
LengthAndEof == << [field |-> "length", value |-> 0], [field |-> "state", value |-> "eof"] >>
JustEof == << [field |-> "state", value |-> "eof"] >>

Writers == {<< >>, JustReady, LengthAndEof, JustEof}
               \cup {AllOf(v) : v \in Lines} \cup {LengthAndReady(v) : v \in Lines}

Typed ==
    /\ chan \in [state: States, length: 0..Capacity, bytes: Seq(Nat)]
    /\ writer \in Writers
    /\ reader \in {"no", "ask", "wait", "woken"}
    /\ call \in Calls
    /\ prompt \in 0..Cases
    /\ python \in Runtimes
    /\ cpp \in [at: Runtimes, pch: BOOLEAN]
    /\ builder \in {"none", "asked", "compiled"}
    /\ prog \in Programs
    /\ inbox \in Seq([kind: Kinds])
    /\ typed \in Seq(Lines)

\* What goes with what the call awaits.
PhaseInv ==
    /\ call.at # "case" => prog = NoProgram /\ prompt = 0
    /\ call.at = "case" => prog.at # "none" /\ call.k # 0
    /\ call.at = "case" /\ call.lang = "python" => python = "ready"
    /\ call.at = "boot" /\ call.lang = "python" => typed = << >> /\ call.k # 0
    /\ call.at = "boot" /\ call.lang = "cpp" => cpp.pch = call.pch
    /\ call.at = "build" => call.lang = "cpp" /\ cpp = [at |-> "ready", pch |-> call.pch]
    /\ call.at # "build" => builder = "none"
    /\ \A i \in DOMAIN inbox : inbox[i].kind \in KindsAt(call.at)
    /\ prompt # 0 => prompt = call.k

\* A worker is in readStdinBlocking exactly while its program is in a read.
ReaderInv ==
    /\ reader = "no" <=> prog.at # "read"
    /\ reader # "no" => call.live

\* Output is on its way until it is seen, and what ends an execution comes last.
Outputs(messages) == {i \in DOMAIN messages : messages[i].kind = "output"}

MessagesInv ==
    call.at = "case" =>
        /\ prog.wrote = prog.seen + Cardinality(Outputs(inbox))
        /\ \A i \in DOMAIN inbox :
              inbox[i].kind \notin {"output", "needs-input"} => i = Len(inbox) /\ prog.at = "over"

\* What the program of a live case gets, in the order it gets it.
Expected == Preload(call.lang) \o FlattenSeq(typed)
LastLine == typed[Len(typed)]

\* A question of the program is on its way to the page.
Question == \E i \in DOMAIN inbox : inbox[i].kind = "needs-input"
OneQuestion == \A i, j \in DOMAIN inbox :
    inbox[i].kind = "needs-input" /\ inbox[j].kind = "needs-input" => i = j
Quiet == prompt = 0 /\ ~Question

\* The reader waits and the page has not answered ...
Unanswered ==
    /\ writer = << >> /\ chan.state = "waiting"
    /\ prog.got = Expected
    /\ OneQuestion
    /\ prompt # 0 => ~Question

\* ... or is storing its answer, a line or the end of the input.
LineStored == writer = << >> /\ chan.state = "ready" /\ chan.bytes = LastLine /\ chan.length = Len(LastLine)
LineUnderWay ==
    \/ writer = AllOf(LastLine) /\ chan.state = "waiting"
    \/ writer = LengthAndReady(LastLine) /\ chan.state = "waiting" /\ chan.bytes = LastLine
    \/ /\ writer = JustReady /\ chan.state = "waiting"
       /\ chan.bytes = LastLine /\ chan.length = Len(LastLine)
    \/ LineStored
LineGiven == typed # << >> /\ prog.got \o LastLine = Expected

EofStored == writer = << >> /\ chan.state = "eof"
EofUnderWay ==
    \/ writer \in {LengthAndEof, JustEof} /\ chan.state = "waiting"
    \/ EofStored

\* The conversation between the page and the program of a case that is not stopped.
TalkInv ==
    call.at = "case" /\ ~call.aborted =>
        /\ reader = "no" => writer = << >> /\ Quiet /\ prog.got \o prog.buf = Expected
        /\ reader # "no" => prog.buf = << >>
        /\ reader = "ask" => writer = << >> /\ Quiet /\ chan.state = "waiting" /\ prog.got = Expected
        /\ reader = "wait" => \/ Unanswered
                              \/ Quiet /\ LineGiven /\ LineUnderWay
                              \/ Quiet /\ EofUnderWay /\ prog.got = Expected
        /\ reader = "woken" => /\ Quiet
                               /\ \/ LineGiven /\ LineStored
                                  \/ EofStored /\ prog.got = Expected

\* A result is of a case of the latest run that is over ...
OnePerCase ==
    \A i \in DOMAIN results :
        /\ results[i].no = call.no
        /\ i <= call.k
        /\ i = call.k => call.at = "idle"

\* ... and was recorded since the problem that is open was opened.
AwayInv ==
    /\ away \in BOOLEAN
    /\ \A i \in DOMAIN results : away = results[i].late

ShownInv ==
    /\ DOMAIN results \subseteq 1..Cases
    /\ OnePerCase
    /\ FinishedIsComplete

\* The bytes a length speaks of are there, since no line is shorter than the one
\* before it: also after a stop, when a late question may have got two answers.
NoLonger(m) == \A n \in 1..MaxTyped : Len(typed) < n => m <= Len(Fitting(Line(n)))
SizeInv ==
    /\ chan.length <= Len(chan.bytes)
    /\ NoLonger(chan.length)
    /\ \A v \in Lines : writer = AllOf(v) => chan.length <= Len(v) /\ NoLonger(Len(v))
    /\ \A v \in Lines : writer = LengthAndReady(v) => Len(chan.bytes) = Len(v) /\ NoLonger(Len(v))

RunInv == Typed /\ PhaseInv /\ ReaderInv /\ MessagesInv /\ TalkInv /\ ShownInv

-----------------------------------------------------------------------------
(* Flattening a sequence of sequences.                                      *)

\* The function FlattenSeq is defined by: what the first i pieces come to.
IsFlat(f, s) == f = [i \in 1..Len(s) |-> IF i = 1 THEN s[i] ELSE f[i - 1] \o s[i]]
Flat(s) == CHOOSE f : IsFlat(f, s)

LEMMA FlattenIs == \A s : FlattenSeq(s) = IF Len(s) = 0 THEN s ELSE Flat(s)[Len(s)]
BY DEF FlattenSeq, Flat, IsFlat

\* A non-empty set of natural numbers has a least member.
LEMMA LeastMember ==
    ASSUME NEW S \in SUBSET Nat, S # {}
    PROVE  \E m \in S : \A k \in S : m <= k
<1>1. PICK m \in S : \A k \in S : ~(<<k, m>> \in OpToRel(<, Nat))
    BY NatLessThanWellFounded, WFMin
<1>2. \A k \in S : ~(k < m)
    BY <1>1 DEF OpToRel
<1> QED
    BY <1>2

LEMMA FlatUnique ==
    ASSUME NEW s \in Seq(Seq(Nat)), NEW f, NEW g, IsFlat(f, s), IsFlat(g, s)
    PROVE  f = g
<1> DEFINE D == {i \in 1..Len(s) : f[i] # g[i]}
<1> DEFINE F == [i \in 1..Len(s) |-> IF i = 1 THEN s[i] ELSE f[i - 1] \o s[i]]
<1> DEFINE G == [i \in 1..Len(s) |-> IF i = 1 THEN s[i] ELSE g[i - 1] \o s[i]]
<1>1. f = F /\ g = G
    BY DEF IsFlat
<1>2. \A i \in 1..Len(s) : /\ f[i] = IF i = 1 THEN s[i] ELSE f[i - 1] \o s[i]
                           /\ g[i] = IF i = 1 THEN s[i] ELSE g[i - 1] \o s[i]
    <2> SUFFICES ASSUME NEW i \in 1..Len(s)
                 PROVE  /\ f[i] = IF i = 1 THEN s[i] ELSE f[i - 1] \o s[i]
                        /\ g[i] = IF i = 1 THEN s[i] ELSE g[i - 1] \o s[i]
        OBVIOUS
    <2>1. F[i] = (IF i = 1 THEN s[i] ELSE f[i - 1] \o s[i]) /\ G[i] = IF i = 1 THEN s[i] ELSE g[i - 1] \o s[i]
        OBVIOUS
    <2> HIDE DEF F, G
    <2> QED
        BY <1>1, <2>1
<1>3. D = {}
    <2> SUFFICES ASSUME D # {} PROVE FALSE
        OBVIOUS
    <2>1. PICK m \in D : \A k \in D : m <= k
        <3>1. D \in SUBSET Nat
            OBVIOUS
        <3> HIDE DEF D
        <3> QED
            BY <3>1, LeastMember
    <2>2. m \in 1..Len(s) /\ f[m] # g[m]
        OBVIOUS
    <2>3. CASE m = 1
        BY <1>2, <2>2, <2>3
    <2>4. CASE m # 1
        <3>1. m - 1 \in 1..Len(s) /\ m - 1 \notin D
            BY <2>1, <2>2, <2>4
        <3>2. f[m - 1] = g[m - 1]
            BY <3>1
        <3> QED
            BY <1>2, <2>2, <2>4, <3>2
    <2> QED
        BY <2>3, <2>4
<1>4. f = [i \in 1..Len(s) |-> f[i]] /\ g = [i \in 1..Len(s) |-> g[i]]
    <2>1. F = [i \in 1..Len(s) |-> F[i]] /\ G = [i \in 1..Len(s) |-> G[i]]
        OBVIOUS
    <2> HIDE DEF F, G
    <2> QED
        BY <1>1, <2>1
<1>5. \A i \in 1..Len(s) : f[i] = g[i]
    BY <1>3
<1> HIDE DEF D
<1> QED
    BY <1>4, <1>5, Zenon

\* Piece by piece, the first n pieces come to something.
LEMMA FlatExists ==
    ASSUME NEW s \in Seq(Seq(Nat))
    PROVE  \E f \in [1..Len(s) -> Seq(Nat)] : IsFlat(f, s)
<1> DEFINE Follows(f, n) == \A i \in 1..n : f[i] = IF i = 1 THEN s[i] ELSE f[i - 1] \o s[i]
<1> DEFINE Bad == {n \in 0..Len(s) : ~\E f \in [1..n -> Seq(Nat)] : Follows(f, n)}
<1>0. Len(s) \in Nat /\ \A i \in 1..Len(s) : s[i] \in Seq(Nat)
    BY LenProperties, ElementOfSeq
<1>1. Bad = {}
    <2> SUFFICES ASSUME Bad # {} PROVE FALSE
        OBVIOUS
    <2>1. PICK m \in Bad : \A k \in Bad : m <= k
        <3>1. Bad \in SUBSET Nat
            OBVIOUS
        <3> HIDE DEF Bad
        <3> QED
            BY <3>1, LeastMember
    <2>2. m \in 0..Len(s) /\ ~\E f \in [1..m -> Seq(Nat)] : Follows(f, m)
        OBVIOUS
    <2>3. m # 0
        <3>1. SUFFICES ASSUME m = 0 PROVE FALSE
            OBVIOUS
        <3>2. [i \in 1..0 |-> << >>] \in [1..0 -> Seq(Nat)]
            OBVIOUS
        <3>3. Follows([i \in 1..0 |-> << >>], 0)
            OBVIOUS
        <3> QED
            BY <2>2, <3>1, <3>2, <3>3
    <2>4. m - 1 \in 0..Len(s) /\ m - 1 \notin Bad
        <3>1. m \in Nat \ {0} /\ ~(m <= m - 1)
            BY <1>0, <2>2, <2>3
        <3> HIDE DEF Bad
        <3> QED
            BY <1>0, <2>1, <2>2, <3>1
    <2>5. PICK f \in [1..(m - 1) -> Seq(Nat)] : Follows(f, m - 1)
        BY <2>4
    <2> DEFINE last == IF m = 1 THEN s[m] ELSE f[m - 1] \o s[m]
    <2> DEFINE g == [i \in 1..m |-> IF i = m THEN last ELSE f[i]]
    <2>6. last \in Seq(Nat)
        <3>1. s[m] \in Seq(Nat)
            BY <1>0, <2>2, <2>3
        <3>2. CASE m = 1
            BY <3>1, <3>2
        <3>3. CASE m # 1
            <4>1. f[m - 1] \in Seq(Nat)
                BY <1>0, <2>2, <2>3, <2>5, <3>3
            <4> QED
                BY <3>1, <3>3, <4>1, ConcatProperties
        <3> QED
            BY <3>2, <3>3
    <2>7. g \in [1..m -> Seq(Nat)]
        BY <2>2, <2>3, <2>5, <2>6
    <2>8. Follows(g, m)
        <3> SUFFICES ASSUME NEW i \in 1..m
                     PROVE  g[i] = IF i = 1 THEN s[i] ELSE g[i - 1] \o s[i]
            OBVIOUS
        <3>0. m \in Nat /\ i \in Nat
            BY <1>0, <2>2
        <3>1. CASE i = m
            <4>1. m # 1 => m - 1 \in 1..m /\ m - 1 # m
                BY <2>3, <3>0
            <4>2. m # 1 => g[m - 1] = f[m - 1]
                BY <4>1
            <4>3. g[m] = last
                BY <3>1
            <4> HIDE DEF g
            <4> QED
                BY <3>1, <4>2, <4>3
        <3>2. CASE i # m
            <4>1. i \in 1..(m - 1) /\ (i # 1 => i - 1 \in 1..(m - 1))
                BY <3>0, <3>2
            <4>2. g[i] = f[i] /\ (i # 1 => g[i - 1] = f[i - 1])
                BY <3>0, <3>2, <4>1
            <4>3. f[i] = IF i = 1 THEN s[i] ELSE f[i - 1] \o s[i]
                BY <2>5, <4>1
            <4> HIDE DEF g
            <4> QED
                BY <4>2, <4>3
        <3> QED
            BY <3>1, <3>2
    <2> HIDE DEF g, Follows
    <2> QED
        BY <2>2, <2>7, <2>8
<1>2. Len(s) \in 0..Len(s) /\ Len(s) \notin Bad
    <2> HIDE DEF Bad
    <2> QED
        BY <1>0, <1>1
<1>3. PICK f \in [1..Len(s) -> Seq(Nat)] : Follows(f, Len(s))
    BY <1>2
<1>4. IsFlat(f, s)
    BY <1>3 DEF IsFlat
<1> QED
    BY <1>4

\* FlattenSeq does not depend on what comes later, and appends what comes last.
LEMMA FlattenAppend ==
    ASSUME NEW s \in Seq(Seq(Nat)), NEW v \in Seq(Nat)
    PROVE  /\ FlattenSeq(s) \in Seq(Nat)
           /\ FlattenSeq(Append(s, v)) = FlattenSeq(s) \o v
<1> DEFINE n == Len(s)
<1> DEFINE t == Append(s, v)
<1>0. n \in Nat
    BY LenProperties
<1>1. /\ n \in Nat /\ t \in Seq(Seq(Nat)) /\ Len(t) = n + 1
      /\ \A i \in 1..n : t[i] = s[i]
      /\ t[n + 1] = v
    BY AppendProperties, LenProperties
<1>2. Flat(s) \in [1..n -> Seq(Nat)] /\ IsFlat(Flat(s), s)
    <2>1. IsFlat(Flat(s), s)
        BY FlatExists DEF Flat
    <2> QED
        BY <2>1, FlatExists, FlatUnique
<1>3. IsFlat(Flat(t), t)
    BY <1>1, FlatExists DEF Flat
<1> HIDE DEF t, n
<1>4. CASE n = 0
    <2>1. s = << >> /\ Len(s) = 0
        BY <1>4, EmptySeq DEF n
    <2>2. Flat(t)[1] = v
        BY <1>1, <1>3, <1>4 DEF IsFlat
    <2>3. FlattenSeq(s) = << >>
        BY <2>1, FlattenIs
    <2>4. FlattenSeq(t) = v
        <3>1. Len(t) = 1
            BY <1>1, <1>4
        <3>2. FlattenSeq(t) = IF Len(t) = 0 THEN t ELSE Flat(t)[Len(t)]
            BY FlattenIs, Zenon
        <3> QED
            BY <2>2, <3>1, <3>2
    <2>5. << >> \o v = v /\ << >> \in Seq(Nat)
        BY ConcatEmptySeq, EmptySeq
    <2> QED
        BY <2>3, <2>4, <2>5 DEF t
<1>5. CASE n # 0
    <2> DEFINE f == Flat(t)
    <2>1. \A i \in 1..(n + 1) : f[i] = IF i = 1 THEN t[i] ELSE f[i - 1] \o t[i]
        BY <1>1, <1>3 DEF IsFlat
    <2> HIDE DEF f
    <2> DEFINE g == [i \in 1..n |-> f[i]]
    <2>2. IsFlat(g, s)
        <3>1. \A i \in 1..n : f[i] = IF i = 1 THEN s[i] ELSE g[i - 1] \o s[i]
            <4> SUFFICES ASSUME NEW i \in 1..n
                         PROVE  f[i] = IF i = 1 THEN s[i] ELSE g[i - 1] \o s[i]
                OBVIOUS
            <4>1. i \in 1..(n + 1) /\ t[i] = s[i]
                BY <1>1
            <4>2. i # 1 => i - 1 \in 1..n
                BY <1>1
            <4>3. i # 1 => g[i - 1] = f[i - 1]
                BY <4>2
            <4>4. f[i] = IF i = 1 THEN t[i] ELSE f[i - 1] \o t[i]
                BY <2>1, <4>1
            <4> HIDE DEF g
            <4> QED
                BY <4>1, <4>3, <4>4
        <3> QED
            BY <3>1, Zenon DEF IsFlat, n
    <2>3. g = Flat(s)
        BY <1>2, <2>2, FlatUnique
    <2>4. f[n] = Flat(s)[n]
        BY <1>1, <1>5, <2>3
    <2>5. f[n + 1] = f[n] \o v
        <3>1. n + 1 \in 1..(n + 1) /\ n + 1 # 1 /\ (n + 1) - 1 = n
            BY <1>0, <1>5
        <3> QED
            BY <1>1, <2>1, <3>1
    <2>6. FlattenSeq(s) = Flat(s)[n] /\ FlattenSeq(t) = f[n + 1]
        BY <1>1, <1>5, FlattenIs DEF f, n
    <2>7. Flat(s)[n] \in Seq(Nat)
        BY <1>1, <1>2, <1>5
    <2> QED
        BY <2>4, <2>5, <2>6, <2>7 DEF t
<1> QED
    BY <1>4, <1>5

LEMMA FlattenNothing == FlattenSeq(<< >>) = << >>
<1>1. Len(<< >>) = 0
    BY EmptySeq
<1> QED
    BY <1>1, FlattenIs

-----------------------------------------------------------------------------
(* Lines, and what is left of their stores.                                 *)

LEMMA LineFits ==
    ASSUME NEW v \in Lines
    PROVE  v \in Seq(Nat) /\ Len(v) \in 0..Capacity
<1>1. PICK n \in 1..MaxTyped : v = Fitting(Line(n))
    BY DEF Lines
<1> DEFINE letters == [i \in 1..n |-> n]
<1>2. n \in Nat /\ Capacity \in Nat
    BY ChannelAssumption, RunsAssumption
<1>3. letters \in [1..n -> Nat]
    BY <1>2
<1>4. letters \in Seq(Nat)
    <2> HIDE DEF letters
    <2> QED
        BY <1>2, <1>3, SeqDef
<1>5. Line(n) \in Seq(Nat) /\ Len(Line(n)) \in Nat
    BY <1>4, AppendProperties, LenProperties DEF Line
<1> DEFINE m == IF Len(Line(n)) < Capacity THEN Len(Line(n)) ELSE Capacity
<1>6. m \in 0..Capacity /\ m <= Len(Line(n))
    BY <1>2, <1>5
<1>7. v = SubSeq(Line(n), 1, m)
    BY <1>1 DEF Fitting
<1>8. \A i \in 1..m : Line(n)[i] \in Nat
    BY <1>2, <1>5, <1>6, ElementOfSeq
<1> HIDE DEF m, letters
<1>9. v \in Seq(Nat) /\ Len(v) = IF 1 <= m THEN m - 1 + 1 ELSE 0
    BY <1>2, <1>6, <1>7, <1>8, SubSeqProperties
<1> QED
    BY <1>2, <1>6, <1>9

LEMMA LineGrows ==
    ASSUME NEW n \in 1..MaxTyped
    PROVE  Len(Fitting(Line(n))) = IF n + 1 < Capacity THEN n + 1 ELSE Capacity
<1> DEFINE letters == [i \in 1..n |-> n]
<1>1. n \in Nat /\ Capacity \in Nat /\ letters \in [1..n -> Nat]
    BY ChannelAssumption, RunsAssumption
<1>2. letters \in Seq(Nat) /\ Len(letters) = n
    <2>1. DOMAIN letters = 1..n
        OBVIOUS
    <2> HIDE DEF letters
    <2>2. letters \in Seq(Nat)
        BY <1>1, SeqDef
    <2>3. 1..Len(letters) = 1..n /\ Len(letters) \in Nat
        BY <2>1, <2>2, LenProperties
    <2> QED
        BY <1>1, <2>2, <2>3
<1>3. Line(n) \in Seq(Nat) /\ Len(Line(n)) = n + 1
    BY <1>2, AppendProperties DEF Line
<1> DEFINE m == IF n + 1 < Capacity THEN n + 1 ELSE Capacity
<1>4. m \in Nat /\ m <= n + 1 /\ Fitting(Line(n)) = SubSeq(Line(n), 1, m)
    BY <1>1, <1>3 DEF Fitting
<1>5. \A i \in 1..m : Line(n)[i] \in Nat
    BY <1>1, <1>3, <1>4, ElementOfSeq
<1> HIDE DEF m, letters
<1>6. Len(SubSeq(Line(n), 1, m)) = IF 1 <= m THEN m - 1 + 1 ELSE 0
    BY <1>4, <1>5, SubSeqProperties
<1> QED
    BY <1>4, <1>6 DEF m

LEMMA LinesAreTexts == ASSUME NEW s \in Seq(Lines) PROVE s \in Seq(Seq(Nat))
<1>1. Lines \subseteq Seq(Nat)
    BY LineFits
<1> QED
    BY <1>1, SeqMonotonic

LEMMA PreloadType == ASSUME NEW lang PROVE Preload(lang) \in Seq(Nat)
<1>1. Input \in Seq(Nat) /\ 0 \in Nat
    BY RunsAssumption
<1>2. Append(Input, 0) \in Seq(Nat)
    BY <1>1, AppendProperties
<1> QED
    BY <1>1, <1>2 DEF Preload

LEMMA NothingTyped ==
    ASSUME NEW lang
    PROVE  /\ Preload(lang) \o FlattenSeq(<< >>) = Preload(lang)
           /\ << >> \o Preload(lang) = Preload(lang)
<1>1. Preload(lang) \o << >> = Preload(lang) /\ << >> \o Preload(lang) = Preload(lang)
    BY PreloadType, ConcatEmptySeq
<1> QED
    BY <1>1, FlattenNothing

LEMMA JoinTexts == \A s, t, u \in Seq(Nat) : (s \o t) \o u = s \o (t \o u)
BY ConcatAssociative

\* The page's stores, one after another.
LEMMA StoresInTurn ==
    /\ \A v : /\ AllOf(v) # << >> /\ LengthAndReady(v) # << >>
              /\ Head(AllOf(v)) = [field |-> "bytes", value |-> v]
              /\ Tail(AllOf(v)) = LengthAndReady(v)
              /\ Head(LengthAndReady(v)) = [field |-> "length", value |-> Len(v)]
              /\ Tail(LengthAndReady(v)) = JustReady
    /\ JustReady # << >> /\ LengthAndEof # << >> /\ JustEof # << >>
    /\ Head(JustReady) = [field |-> "state", value |-> "ready"] /\ Tail(JustReady) = << >>
    /\ Head(LengthAndEof) = [field |-> "length", value |-> 0] /\ Tail(LengthAndEof) = JustEof
    /\ Head(JustEof) = [field |-> "state", value |-> "eof"] /\ Tail(JustEof) = << >>
BY DEF AllOf, LengthAndReady, JustReady, LengthAndEof, JustEof

LEMMA SameLine == ASSUME NEW v, NEW w, AllOf(v) = AllOf(w) PROVE v = w
<1>1. AllOf(v)[1].value = v /\ AllOf(w)[1].value = w
    BY DEF AllOf
<1> QED
    BY <1>1, Zenon

LEMMA SameLength ==
    ASSUME NEW v, NEW w, LengthAndReady(v) = LengthAndReady(w)
    PROVE  Len(v) = Len(w)
<1>1. LengthAndReady(v)[1].value = Len(v) /\ LengthAndReady(w)[1].value = Len(w)
    BY DEF LengthAndReady
<1> QED
    BY <1>1, Zenon

LEMMA OtherStores == ASSUME NEW v, NEW w PROVE LengthAndReady(v) # AllOf(w)
<1>1. Len(AllOf(w)) = 3 /\ Len(LengthAndReady(v)) = 2
    BY DEF AllOf, LengthAndReady
<1> QED
    BY <1>1

LEMMA StoresDiffer ==
    \A w : /\ JustReady # AllOf(w) /\ JustReady # LengthAndReady(w)
          /\ LengthAndEof # AllOf(w) /\ LengthAndEof # LengthAndReady(w)
          /\ JustEof # AllOf(w) /\ JustEof # LengthAndReady(w)
<1> TAKE w
<1>1. /\ Len(AllOf(w)) = 3 /\ Len(LengthAndReady(w)) = 2
      /\ Len(JustReady) = 1 /\ Len(JustEof) = 1 /\ Len(LengthAndEof) = 2
    BY DEF AllOf, LengthAndReady, JustReady, LengthAndEof, JustEof
<1>2. LengthAndEof # LengthAndReady(w)
    <2>1. LengthAndReady(w)[2].value = "ready" /\ LengthAndEof[2].value = "eof" /\ "ready" # "eof"
        BY DEF LengthAndReady, LengthAndEof
    <2> QED
        BY <2>1, Zenon
<1> QED
    BY <1>1, <1>2

-----------------------------------------------------------------------------
(* Messages that are output.                                                *)

LEMMA NoOutputs == Outputs(<< >>) = {} /\ Cardinality(Outputs(<< >>)) = 0
<1>1. Outputs(<< >>) = {}
    BY DEF Outputs
<1> QED
    BY <1>1, FS_EmptySet

LEMMA OutputsType ==
    ASSUME NEW messages \in Seq([kind: Kinds])
    PROVE  IsFiniteSet(Outputs(messages)) /\ Cardinality(Outputs(messages)) \in Nat
<1>1. DOMAIN messages = 1..Len(messages) /\ Len(messages) \in Nat
    BY LenProperties
<1>2. IsFiniteSet(1..Len(messages)) /\ Outputs(messages) \in SUBSET (1..Len(messages))
    BY <1>1, FS_Interval DEF Outputs
<1> QED
    BY <1>2, FS_Subset, FS_CardinalityType

LEMMA OutputsOfAppend ==
    ASSUME NEW messages \in Seq([kind: Kinds]), NEW m \in [kind: Kinds]
    PROVE  Cardinality(Outputs(Append(messages, m))) =
               Cardinality(Outputs(messages)) + IF m.kind = "output" THEN 1 ELSE 0
<1> DEFINE n == Len(messages)
<1> DEFINE longer == Append(messages, m)
<1>1. /\ n \in Nat /\ DOMAIN messages = 1..n
      /\ DOMAIN longer = 1..(n + 1) /\ longer[n + 1] = m
      /\ \A i \in 1..n : longer[i] = messages[i]
    BY AppendProperties, LenProperties
<1> HIDE DEF longer, n
<1>2. Outputs(longer) = Outputs(messages) \cup IF m.kind = "output" THEN {n + 1} ELSE {}
    BY <1>1 DEF Outputs
<1>3. n + 1 \notin Outputs(messages)
    BY <1>1 DEF Outputs
<1>4. IsFiniteSet(Outputs(messages)) /\ Cardinality(Outputs(messages)) \in Nat
    BY OutputsType
<1>5. Cardinality(Outputs(messages) \cup {n + 1}) = Cardinality(Outputs(messages)) + 1
    BY <1>3, <1>4, FS_AddElement
<1>6. CASE m.kind = "output"
    BY <1>2, <1>5, <1>6 DEF longer
<1>7. CASE m.kind # "output"
    <2>1. Outputs(longer) = Outputs(messages)
        BY <1>2, <1>7
    <2> QED
        BY <1>4, <1>7, <2>1 DEF longer
<1> QED
    BY <1>6, <1>7

LEMMA OutputsOfTail ==
    ASSUME NEW messages \in Seq([kind: Kinds]), messages # << >>
    PROVE  Cardinality(Outputs(messages)) =
               Cardinality(Outputs(Tail(messages))) + IF Head(messages).kind = "output" THEN 1 ELSE 0
<1> DEFINE n == Len(messages)
<1> DEFINE rest == Tail(messages)
<1>1. /\ n \in Nat \ {0} /\ DOMAIN messages = 1..n
      /\ rest \in Seq([kind: Kinds]) /\ DOMAIN rest = 1..(n - 1)
      /\ \A i \in 1..(n - 1) : rest[i] = messages[i + 1]
      /\ Head(messages) = messages[1]
    BY HeadTailProperties, LenProperties, EmptySeq
<1> HIDE DEF rest, n
<1> DEFINE S == Outputs(messages) \ {1}
<1> DEFINE T == Outputs(rest)
<1> DEFINE shift == [i \in S |-> i - 1]
<1>2. shift \in Bijection(S, T)
    <2>1. shift \in [S -> T]
        BY <1>1 DEF Outputs
    <2>2. \A i, j \in S : shift[i] = shift[j] => i = j
        BY <1>1 DEF Outputs
    <2>3. \A k \in T : \E i \in S : shift[i] = k
        <3> SUFFICES ASSUME NEW k \in T PROVE \E i \in S : shift[i] = k
            OBVIOUS
        <3>1. k \in 1..(n - 1) /\ messages[k + 1].kind = "output"
            BY <1>1 DEF Outputs
        <3>2. k + 1 \in S /\ (k + 1) - 1 = k
            BY <1>1, <3>1 DEF Outputs
        <3>3. shift[k + 1] = k
            BY <3>2
        <3> QED
            BY <3>2, <3>3
    <2> HIDE DEF shift, S, T
    <2> QED
        BY <2>1, <2>2, <2>3 DEF Bijection, Injection, Surjection, IsInjective
<1>3. IsFiniteSet(Outputs(messages)) /\ IsFiniteSet(S)
    <2>1. S \in SUBSET Outputs(messages)
        OBVIOUS
    <2> QED
        BY <2>1, OutputsType, FS_Subset
<1>4. Cardinality(S) = Cardinality(T)
    <2> HIDE DEF S, T, shift
    <2>1. ExistsBijection(S, T)
        BY <1>2 DEF ExistsBijection
    <2> QED
        BY <1>3, <2>1, FS_Bijection
<1>5. 1 \in Outputs(messages) <=> Head(messages).kind = "output"
    BY <1>1 DEF Outputs
<1>6. Cardinality(S) = IF 1 \in Outputs(messages) THEN Cardinality(Outputs(messages)) - 1
                       ELSE Cardinality(Outputs(messages))
    BY <1>3, FS_RemoveElement
<1>7. Cardinality(T) \in Nat /\ Cardinality(Outputs(messages)) \in Nat
    BY <1>1, OutputsType
<1> QED
    BY <1>4, <1>5, <1>6, <1>7 DEF rest

-----------------------------------------------------------------------------
(* The loop over the cases.                                                 *)

LEMMA KindsThen ==
    /\ KindsAt("idle") = {}
    /\ KindsAt("boot") = {"ready", "failed"}
    /\ KindsAt("build") = {"built", "not-built", "failed"}
    /\ KindsAt("case") = Lasting \cup {"output", "needs-input"}
BY DEF KindsAt

LEMMA TrapsAre == Traps \subseteq {"stack-overflow", "out-of-memory", "crashed"}
BY DEF Traps, ClassifyTrap

LEMMA LastingAre ==
    /\ Lasting \subseteq {"stack-overflow", "out-of-memory", "crashed", "finished", "error", "stopped"}
    /\ Traps \cup {"finished", "error", "stopped"} = Lasting
BY TrapsAre DEF Lasting

\* A sequence that is not empty has a first member and a rest.
LEMMA FirstAndRest ==
    ASSUME NEW S, NEW s \in Seq(S), s # << >>
    PROVE  /\ Len(s) \in Nat \ {0} /\ DOMAIN s = 1..Len(s) /\ 1 \in DOMAIN s
           /\ Head(s) = s[1] /\ Head(s) \in S
           /\ Tail(s) \in Seq(S) /\ DOMAIN Tail(s) = 1..(Len(s) - 1)
           /\ \A i \in 1..(Len(s) - 1) : Tail(s)[i] = s[i + 1]
<1>1. Len(s) \in Nat \ {0} /\ DOMAIN s = 1..Len(s)
    BY EmptySeq, LenProperties
<1>2. Head(s) \in S /\ Tail(s) \in Seq(S) /\ Len(Tail(s)) = Len(s) - 1
      /\ \A i \in 1..Len(Tail(s)) : Tail(s)[i] = s[i + 1]
    BY HeadTailProperties
<1>3. DOMAIN Tail(s) = 1..Len(Tail(s))
    BY <1>2, LenProperties
<1>4. Head(s) = s[1]
    OBVIOUS
<1> QED
    BY <1>1, <1>2, <1>3, <1>4

\* The first message is one of what the call awaits.
LEMMA FirstMessage ==
    ASSUME RunInv, inbox # << >>
    PROVE  /\ 1 \in DOMAIN inbox /\ Head(inbox) = inbox[1] /\ Head(inbox) \in [kind: Kinds]
           /\ Head(inbox).kind \in KindsAt(call.at)
<1>1. inbox \in Seq([kind: Kinds])
    BY DEF RunInv, Typed
<1>2. Len(inbox) \in Nat \ {0} /\ DOMAIN inbox = 1..Len(inbox) /\ Head(inbox) = inbox[1]
      /\ Head(inbox) \in [kind: Kinds]
    BY <1>1, FirstAndRest
<1> QED
    BY <1>2 DEF RunInv, PhaseInv

\* A new case, or the end of the run, starts from a clean slate.
LEMMA NextCaseInv ==
    ASSUME Typed, NEW c \in Calls, NEW py \in Runtimes, NextCase(c, py),
           inbox' = << >>, reader' = "no", writer' = << >>, prompt' = 0,
           cpp' = cpp, builder' = "none"
    PROVE  /\ Typed' /\ PhaseInv' /\ ReaderInv' /\ MessagesInv' /\ TalkInv'
           /\ call'.no = c.no
           /\ \/ call'.k = c.k /\ call'.at = "idle"
              \/ call'.k = c.k + 1
<1>1. Cases \in Nat \ {0} /\ 0 \in 0..Capacity /\ c.k \in 0..Cases
    BY RunsAssumption, ChannelAssumption DEF Calls
<1>2. CASE Finish(c, py)
    <2>1. call' = [c EXCEPT !.at = "idle"] /\ python' = py /\ prog' = NoProgram
          /\ chan' = chan /\ typed' = typed
        BY <1>2 DEF Finish
    <2>2. call' \in Calls /\ call'.at = "idle" /\ call'.k = c.k /\ call'.no = c.no
        BY <2>1 DEF Calls, Phases
    <2>3. NoProgram \in Programs
        BY EmptySeq DEF NoProgram, Programs
    <2>4. Typed'
        BY <1>1, <2>1, <2>2, <2>3 DEF Typed, Writers
    <2>5. PhaseInv' /\ ReaderInv' /\ MessagesInv' /\ TalkInv'
        BY <2>1, <2>2 DEF PhaseInv, ReaderInv, MessagesInv, TalkInv, NoProgram
    <2> QED
        BY <2>2, <2>4, <2>5
<1>3. CASE c.k # Cases /\ Begin(c, py)
    <2> DEFINE ready == c.lang = "cpp" \/ py = "ready"
    <2>1. /\ call' = [c EXCEPT !.k = c.k + 1, !.at = IF ready THEN "case" ELSE "boot"]
          /\ python' = IF ready THEN py ELSE "booting"
          /\ prog' = IF ready THEN Program(c) ELSE NoProgram
          /\ chan' = Fresh /\ typed' = << >>
        BY <1>3 DEF Begin
    <2>a. ready => c.lang = "cpp" \/ py = "ready"
        OBVIOUS
    <2>b. ~ready => c.lang = "python"
        BY DEF Calls, Languages
    <2> HIDE DEF ready
    <2>c. c.k + 1 \in 0..Cases /\ c.k + 1 # 0
        BY <1>1, <1>3
    <2>2. call' \in Calls /\ call'.k = c.k + 1 /\ call'.no = c.no /\ call'.k # 0
          /\ call'.lang = c.lang /\ call'.at = IF ready THEN "case" ELSE "boot"
        BY <2>1, <2>c DEF Calls, Phases
    <2>3. NoProgram \in Programs /\ Program(c) \in Programs
          /\ NoProgram.at = "none"
          /\ Program(c).at = "start" /\ Program(c).wrote = 0 /\ Program(c).seen = 0
          /\ Program(c).got = << >> /\ Program(c).buf = Preload(c.lang)
        <3>1. Preload(c.lang) \in Seq(Nat) /\ << >> \in Seq(Nat)
            BY PreloadType, EmptySeq
        <3> QED
            BY <3>1 DEF NoProgram, Program, Programs
    <2>4. Typed'
        <3>1. << >> \in Seq([kind: Kinds]) /\ << >> \in Seq(Lines) /\ << >> \in Seq(Nat)
            BY EmptySeq
        <3>2. python' \in Runtimes /\ prog' \in Programs
            BY <2>1, <2>3 DEF Runtimes
        <3>3. chan' \in [state: States, length: 0..Capacity, bytes: Seq(Nat)]
            BY <1>1, <2>1, <3>1 DEF Fresh, States
        <3> QED
            BY <1>1, <2>1, <2>2, <3>1, <3>2, <3>3 DEF Typed, Writers
    <2>5. PhaseInv'
        BY <2>1, <2>2, <2>3, <2>a, <2>b DEF PhaseInv
    <2>6. ReaderInv'
        BY <2>1, <2>3 DEF ReaderInv, NoProgram
    <2>7. MessagesInv'
        BY <2>1, <2>2, <2>3, NoOutputs DEF MessagesInv
    <2>8. TalkInv'
        <3>1. Preload(c.lang) \o FlattenSeq(<< >>) = Preload(c.lang)
              /\ << >> \o Preload(c.lang) = Preload(c.lang)
            BY NothingTyped
        <3>2. call'.at = "case" => prog'.got \o prog'.buf = Expected'
            <4>1. Expected' = Preload(call'.lang) \o FlattenSeq(typed')
                BY DEF Expected
            <4>2. Expected' = Preload(c.lang)
                BY <2>1, <2>2, <3>1, <4>1
            <4>3. call'.at = "case" => prog' = Program(c)
                BY <2>1, <2>2
            <4> QED
                BY <2>3, <3>1, <4>2, <4>3
        <3>3. Quiet'
            BY DEF Quiet, Question
        <3> QED
            BY <3>2, <3>3 DEF TalkInv
    <2> QED
        BY <2>2, <2>4, <2>5, <2>6, <2>7, <2>8
<1> QED
    BY <1>2, <1>3 DEF NextCase

\* An execution is over, however it ended: its result is recorded.
LEMMA SettleInv ==
    ASSUME RunInv, PageFree, call.at = "case",
           NEW c \in {call, [call EXCEPT !.aborted = TRUE]}, NEW py \in Runtimes, NEW kind,
           kind = "finished" => prog.wrote = prog.seen,
           Settle(kind, c, py)
    PROVE  RunInv'
<1>1. c \in Calls /\ c.k = call.k /\ c.no = call.no /\ call.k \in 1..Cases /\ Cases \in Nat
    <2>1. call \in Calls /\ call.k # 0 /\ Cases \in Nat
        BY RunsAssumption DEF RunInv, Typed, PhaseInv
    <2>2. CASE c = call
        BY <2>1, <2>2 DEF Calls
    <2>3. CASE c = [call EXCEPT !.aborted = TRUE]
        <3>1. \A b \in BOOLEAN : /\ [call EXCEPT !.aborted = b] \in Calls
                                  /\ [call EXCEPT !.aborted = b].k = call.k
                                  /\ [call EXCEPT !.aborted = b].no = call.no
            BY <2>1 DEF Calls
        <3>2. c \in Calls /\ c.k = call.k /\ c.no = call.no
            BY <2>3, <3>1, Zenon
        <3> QED
            BY <2>1, <3>2 DEF Calls
    <2> QED
        BY <2>2, <2>3
<1>2. /\ Typed' /\ PhaseInv' /\ ReaderInv' /\ MessagesInv' /\ TalkInv'
      /\ call'.no = c.no
      /\ \/ call'.k = c.k /\ call'.at = "idle"
         \/ call'.k = c.k + 1
    BY <1>1, NextCaseInv DEF Settle, RunInv, PhaseInv, PageFree
<1>3. ShownInv'
    <2> DEFINE shown == [no |-> c.no, failed |-> kind # "finished",
                         unseen |-> prog.wrote - prog.seen, late |-> away]
    <2>1. results' = [i \in DOMAIN results \cup {c.k} |-> IF i # c.k THEN results[i] ELSE shown]
        BY DEF Settle
    <2>2. DOMAIN results' = DOMAIN results \cup {c.k}
          /\ \A i \in DOMAIN results' : results'[i] = IF i # c.k THEN results[i] ELSE shown
        BY <2>1
    <2>3. shown.no = c.no /\ (~shown.failed => shown.unseen = 0)
        <3>1. prog.wrote \in Nat /\ (prog.wrote = prog.seen => prog.wrote - prog.seen = 0)
            BY DEF RunInv, Typed, Programs
        <3> QED
            BY <3>1
    <2>4. \A i \in DOMAIN results : /\ i \in 1..Cases /\ results[i].no = call.no /\ i <= call.k
                                    /\ ~results[i].failed => results[i].unseen = 0
        BY DEF RunInv, ShownInv, OnePerCase, FinishedIsComplete
    <2> HIDE DEF shown
    <2> QED
        BY <1>1, <1>2, <2>2, <2>3, <2>4 DEF ShownInv, OnePerCase, FinishedIsComplete
<1> QED
    BY <1>2, <1>3 DEF RunInv

\* What is shown stays right while the call only goes on to await something else.
LEMMA ShownKept ==
    ASSUME ShownInv, results' = results, call'.no = call.no, call'.k = call.k,
           call.at = "idle" => call'.at = "idle"
    PROVE  ShownInv'
BY DEF ShownInv, OnePerCase, FinishedIsComplete

LEMMA NothingShown == ASSUME results' = << >> PROVE ShownInv'
<1>1. DOMAIN results' = {}
    OBVIOUS
<1> QED
    BY <1>1 DEF ShownInv, OnePerCase, FinishedIsComplete

\* No message is of the kinds of an idle page: there is none.
LEMMA NoMessages ==
    ASSUME Typed, NEW S, S = {}, \A i \in DOMAIN inbox : inbox[i].kind \in S
    PROVE  inbox = << >>
<1> SUFFICES ASSUME inbox # << >> PROVE FALSE
    OBVIOUS
<1>1. inbox \in Seq([kind: Kinds])
    BY DEF Typed
<1>2. 1 \in DOMAIN inbox
    BY <1>1, FirstAndRest
<1> QED
    BY <1>2

-----------------------------------------------------------------------------
(* What the user does, and the clock.                                       *)

LEMMA RunStep ==
    ASSUME RunInv, NEW lang \in Languages, NEW live \in BOOLEAN, NEW pch \in BOOLEAN,
           Run(lang, live, pch)
    PROVE  RunInv'
<1> DEFINE c == [no |-> call.no + 1, at |-> "idle", lang |-> lang, pch |-> pch,
                 live |-> live, k |-> 0, aborted |-> FALSE]
<1>0. /\ writer = << >> /\ call.at = "idle" /\ prompt' = 0 /\ results' = << >>
      /\ writer' = writer /\ reader' = reader /\ inbox' = inbox
      /\ IF lang = "cpp" THEN RunCpp(c) ELSE NextCase(c, python) /\ UNCHANGED <<cpp, builder>>
    BY DEF Run, PageFree, Running
<1>1. c \in Calls /\ c.no = call.no + 1 /\ c.at = "idle" /\ c.lang = lang /\ c.pch = pch /\ c.k = 0
    <2>1. call.no \in Nat /\ 0 \in 0..Cases
        BY RunsAssumption DEF RunInv, Typed, Calls
    <2>2. \A b \in BOOLEAN : [no |-> call.no + 1, at |-> "idle", lang |-> lang, pch |-> pch,
                              live |-> live, k |-> 0, aborted |-> b] \in Calls
        BY <2>1 DEF Calls, Phases
    <2>3. c \in Calls
        BY <2>2, Zenon
    <2> QED
        BY <2>3
<1> HIDE DEF c
<1>2. prog = NoProgram /\ builder = "none" /\ reader = "no"
    BY <1>0 DEF RunInv, PhaseInv, ReaderInv, NoProgram
<1>3. inbox = << >>
    BY <1>0, KindsThen, NoMessages DEF RunInv, PhaseInv
<1>4. ShownInv'
    BY <1>0, NothingShown
<1>5. CASE lang # "cpp"
    <2>1. NextCase(c, python) /\ cpp' = cpp /\ builder' = "none" /\ python \in Runtimes
        BY <1>0, <1>2, <1>5 DEF RunInv, Typed
    <2> QED
        BY <1>0, <1>1, <1>2, <1>3, <1>4, <2>1, NextCaseInv DEF RunInv
<1>6. CASE lang = "cpp"
    <2> DEFINE kept == cpp.at # "none" /\ cpp.pch = c.pch
    <2>1. /\ cpp' = IF kept THEN cpp ELSE [at |-> "booting", pch |-> c.pch]
          /\ call' = [c EXCEPT !.at = IF ~kept THEN "boot"
                                      ELSE IF cpp.at = "ready" THEN "build" ELSE "idle"]
          /\ builder' = IF kept /\ cpp.at = "ready" THEN "asked" ELSE "none"
          /\ python' = python /\ prog' = prog /\ chan' = chan /\ typed' = typed
        BY <1>0, <1>6 DEF RunCpp
    <2>2. call' \in Calls /\ call'.lang = "cpp" /\ call'.pch = c.pch
          /\ call'.at = (IF ~kept THEN "boot" ELSE IF cpp.at = "ready" THEN "build" ELSE "idle")
        BY <1>1, <1>6, <2>1 DEF Calls, Phases
    <2>3. cpp \in [at: Runtimes, pch: BOOLEAN] /\ c.pch \in BOOLEAN
        BY <1>1 DEF RunInv, Typed
    <2>4. kept /\ cpp.at = "ready" => cpp' = [at |-> "ready", pch |-> c.pch]
        BY <2>1, <2>3
    <2>5. ~kept => cpp'.pch = c.pch
        BY <2>1
    <2>6. cpp' \in [at: Runtimes, pch: BOOLEAN]
        BY <2>1, <2>3 DEF Runtimes
    <2> HIDE DEF kept
    <2>7. Typed'
        BY <1>0, <2>1, <2>2, <2>6, RunsAssumption DEF RunInv, Typed
    <2>8. PhaseInv'
        BY <1>0, <1>2, <1>3, <2>1, <2>2, <2>4, <2>5 DEF PhaseInv
    <2>9. ReaderInv' /\ MessagesInv' /\ TalkInv'
        BY <1>0, <1>2, <2>1, <2>2 DEF ReaderInv, MessagesInv, TalkInv, NoProgram
    <2> QED
        BY <1>4, <2>7, <2>8, <2>9 DEF RunInv
<1> QED
    BY <1>5, <1>6

LEMMA SettledStep ==
    ASSUME RunInv, StopCase \/ TimeOut \/ WorkerError
    PROVE  RunInv'
<1>1. Discarded \in Runtimes /\ python \in Runtimes
    BY DEF Discarded, Runtimes, RunInv, Typed
<1>2. CASE StopCase
    BY <1>1, <1>2, SettleInv DEF StopCase
<1>3. CASE TimeOut
    BY <1>1, <1>3, SettleInv DEF TimeOut
<1>4. CASE WorkerError
    BY <1>1, <1>4, SettleInv DEF WorkerError
<1> QED
    BY <1>2, <1>3, <1>4

LEMMA StopOnlyStep == ASSUME RunInv, StopOnly PROVE RunInv'
<1>1. /\ call' = [call EXCEPT !.aborted = TRUE] /\ prompt' = 0
      /\ chan' = chan /\ reader' = reader
      /\ writer' = writer \/ writer' = LengthAndEof
      /\ UNCHANGED <<results, python, cpp, builder, prog, inbox, typed>>
    BY DEF StopOnly, CloseStdin, LengthAndEof, channelVars, workerVars
<1>2. call \in Calls
    BY DEF RunInv, Typed
<1>3. call' \in Calls /\ call'.aborted
    <2>1. \A b \in BOOLEAN : [call EXCEPT !.aborted = b] \in Calls
                             /\ [call EXCEPT !.aborted = b].aborted = b
        BY <1>2 DEF Calls
    <2> QED
        BY <1>1, <2>1, Zenon
<1>4. call'.no = call.no /\ call'.at = call.at /\ call'.k = call.k /\ call'.lang = call.lang
      /\ call'.pch = call.pch /\ call'.live = call.live
    BY <1>1, <1>2 DEF Calls
<1>5. Typed'
    BY <1>1, <1>3, RunsAssumption DEF RunInv, Typed, Writers
<1>6. PhaseInv'
    BY <1>1, <1>4 DEF RunInv, PhaseInv
<1>7. ReaderInv' /\ MessagesInv' /\ TalkInv'
    BY <1>1, <1>3, <1>4 DEF RunInv, ReaderInv, MessagesInv, Outputs, TalkInv
<1>8. ShownInv'
    BY <1>1, <1>4, ShownKept DEF RunInv
<1> QED
    BY <1>5, <1>6, <1>7, <1>8 DEF RunInv

\* A prompt is answered while its reader waits, unless the case has been stopped.
LEMMA PromptWaits ==
    ASSUME RunInv, prompt # 0
    PROVE  /\ call.at = "case" /\ prompt = call.k
           /\ ~call.aborted => reader = "wait" /\ Unanswered /\ ~Question
<1>1. call.at = "case" /\ prompt = call.k
    BY DEF RunInv, PhaseInv
<1>2. reader \in {"no", "ask", "wait", "woken"}
    BY DEF RunInv, Typed
<1>3. ~Quiet
    BY DEF Quiet
<1>4. ASSUME ~call.aborted PROVE reader = "wait" /\ Unanswered
    <2>1. reader # "no" /\ reader # "ask" /\ reader # "woken"
        BY <1>1, <1>3, <1>4 DEF RunInv, TalkInv
    <2> QED
        BY <1>1, <1>2, <1>3, <1>4, <2>1 DEF RunInv, TalkInv
<1> QED
    BY <1>1, <1>4 DEF Unanswered

LEMMA ExpectedType ==
    ASSUME Typed
    PROVE  Expected \in Seq(Nat) /\ FlattenSeq(typed) \in Seq(Nat) /\ Preload(call.lang) \in Seq(Nat)
<1>1. typed \in Seq(Seq(Nat)) /\ << >> \in Seq(Nat)
    BY LinesAreTexts, EmptySeq DEF Typed
<1>2. FlattenSeq(typed) \in Seq(Nat) /\ Preload(call.lang) \in Seq(Nat)
    BY <1>1, FlattenAppend, PreloadType
<1> QED
    BY <1>2, ConcatProperties DEF Expected

LEMMA SendInputStep == ASSUME RunInv, SendInput PROVE RunInv'
<1> DEFINE n == Len(typed) + 1
<1> DEFINE v == Fitting(Line(n))
<1>1. /\ writer = << >> /\ prompt # 0 /\ n <= MaxTyped
      /\ writer' = AllOf(v) /\ chan' = chan /\ reader' = reader
      /\ typed' = Append(typed, v) /\ prompt' = 0
      /\ UNCHANGED <<call, results, python, cpp, builder, prog, inbox>>
    BY DEF SendInput, PageFree, ProvideStdin, Stores, AllOf, workerVars
<1>2. typed \in Seq(Lines)
    BY DEF RunInv, Typed
<1>3. v \in Lines
    <2>1. n \in 1..MaxTyped
        BY <1>1, <1>2, LenProperties, RunsAssumption
    <2> QED
        BY <2>1 DEF Lines
<1> HIDE DEF n, v
<1>4. v \in Seq(Nat)
    BY <1>3, LineFits
<1>5. typed' \in Seq(Lines) /\ typed' # << >> /\ typed'[Len(typed')] = v
    <2>1. /\ Append(typed, v) \in Seq(Lines) /\ Len(Append(typed, v)) = Len(typed) + 1
          /\ Append(typed, v)[Len(typed) + 1] = v /\ Len(typed) \in Nat
        BY <1>2, <1>3, AppendProperties, LenProperties
    <2>2. Append(typed, v) # << >>
        BY <2>1, EmptySeq
    <2> QED
        BY <1>1, <2>1, <2>2
<1>6. Typed'
    BY <1>1, <1>3, <1>5, RunsAssumption DEF RunInv, Typed, Writers
<1>7. call.at = "case" /\ (~call.aborted => reader = "wait" /\ Unanswered /\ ~Question)
    BY <1>1, PromptWaits
<1>8. PhaseInv'
    BY <1>1, <1>7 DEF RunInv, PhaseInv
<1>9. ReaderInv' /\ MessagesInv'
    BY <1>1 DEF RunInv, ReaderInv, MessagesInv, Outputs
<1>10. Expected' = Expected \o v
    <2>1. typed \in Seq(Seq(Nat))
        BY <1>2, LinesAreTexts
    <2>2. FlattenSeq(typed) \in Seq(Nat) /\ FlattenSeq(Append(typed, v)) = FlattenSeq(typed) \o v
        BY <1>4, <2>1, FlattenAppend
    <2>3. Preload(call.lang) \in Seq(Nat)
        BY PreloadType
    <2>4. Expected' = Preload(call'.lang) \o FlattenSeq(typed')
        BY DEF Expected
    <2>5. Expected' = Preload(call.lang) \o (FlattenSeq(typed) \o v)
        BY <1>1, <2>2, <2>4
    <2>6. Preload(call.lang) \o (FlattenSeq(typed) \o v) = (Preload(call.lang) \o FlattenSeq(typed)) \o v
        BY <1>4, <2>2, <2>3, JoinTexts, Zenon
    <2> QED
        BY <2>5, <2>6 DEF Expected
<1>11. TalkInv'
    <2> SUFFICES ASSUME ~call.aborted PROVE TalkInv'
        BY <1>1 DEF TalkInv
    <2>1. reader' = "wait" /\ Unanswered /\ ~Question
        BY <1>1, <1>7
    <2>2. Quiet'
        BY <1>1, <2>1 DEF Quiet, Question
    <2>3. LastLine' = v
        BY <1>5 DEF LastLine
    <2>4. LineGiven'
        BY <1>1, <1>5, <1>10, <2>1, <2>3 DEF LineGiven, Unanswered
    <2>5. LineUnderWay'
        BY <1>1, <2>1, <2>3 DEF LineUnderWay, Unanswered
    <2>6. prog'.buf = << >>
        BY <1>1, <1>7, <2>1 DEF RunInv, TalkInv
    <2> QED
        BY <2>1, <2>2, <2>4, <2>5, <2>6 DEF TalkInv
<1>12. ShownInv'
    BY <1>1, ShownKept DEF RunInv
<1> QED
    BY <1>6, <1>8, <1>9, <1>11, <1>12 DEF RunInv

LEMMA EndInputStep == ASSUME RunInv, EndInput PROVE RunInv'
<1>1. /\ writer = << >> /\ prompt # 0 /\ writer' = LengthAndEof /\ prompt' = 0
      /\ UNCHANGED <<chan, reader, call, results, python, cpp, builder, prog, inbox, typed>>
    BY DEF EndInput, PageFree, CloseStdin, LengthAndEof, workerVars
<1>2. Typed'
    BY <1>1, RunsAssumption DEF RunInv, Typed, Writers
<1>3. call.at = "case" /\ (~call.aborted => reader = "wait" /\ Unanswered /\ ~Question)
    BY <1>1, PromptWaits
<1>4. PhaseInv'
    BY <1>1, <1>3 DEF RunInv, PhaseInv
<1>5. ReaderInv' /\ MessagesInv'
    BY <1>1 DEF RunInv, ReaderInv, MessagesInv, Outputs
<1>6. TalkInv'
    <2> SUFFICES ASSUME ~call.aborted PROVE TalkInv'
        BY <1>1 DEF TalkInv
    <2>1. reader' = "wait" /\ Unanswered /\ ~Question
        BY <1>1, <1>3
    <2>2. Quiet'
        BY <1>1, <2>1 DEF Quiet, Question
    <2>3. Expected' = Expected
        BY <1>1 DEF Expected
    <2>4. EofUnderWay' /\ prog'.got = Expected'
        BY <1>1, <2>1, <2>3 DEF EofUnderWay, Unanswered
    <2>5. prog'.buf = << >>
        BY <1>1, <1>3, <2>1 DEF RunInv, TalkInv
    <2> QED
        BY <2>1, <2>2, <2>4, <2>5 DEF TalkInv
<1>7. ShownInv'
    BY <1>1, ShownKept DEF RunInv
<1> QED
    BY <1>2, <1>4, <1>5, <1>6, <1>7 DEF RunInv

LEMMA ClearStep == ASSUME RunInv, Clear PROVE RunInv'
<1>1. /\ results' = << >> /\ prompt' = 0
      /\ UNCHANGED <<chan, writer, reader, call, python, cpp, builder, prog, inbox, typed>>
    BY DEF Clear, channelVars, workerVars
<1>2. Typed'
    BY <1>1, RunsAssumption DEF RunInv, Typed
<1>3. PhaseInv' /\ ReaderInv' /\ MessagesInv'
    BY <1>1 DEF RunInv, PhaseInv, ReaderInv, MessagesInv, Outputs
<1>4. TalkInv'
    <2>1. Expected' = Expected /\ LastLine' = LastLine
        BY <1>1 DEF Expected, LastLine
    <2>2. /\ Quiet => Quiet'
          /\ Unanswered => Unanswered'
          /\ LineGiven => LineGiven'
          /\ LineStored' <=> LineStored
          /\ LineUnderWay' <=> LineUnderWay
          /\ EofStored' <=> EofStored
          /\ EofUnderWay' <=> EofUnderWay
        BY <1>1, <2>1 DEF Quiet, Question, Unanswered, OneQuestion, LineGiven, LineStored, LineUnderWay,
                          EofStored, EofUnderWay
    <2> QED
        BY <1>1, <2>1, <2>2 DEF RunInv, TalkInv
<1>5. ShownInv'
    BY <1>1, NothingShown
<1> QED
    BY <1>2, <1>3, <1>4, <1>5 DEF RunInv

-----------------------------------------------------------------------------
(* The messages of the workers.                                             *)

LEMMA ReadyAwaitsBoot ==
    ASSUME RunInv, Message("ready")
    PROVE  call.at = "boot" /\ writer = << >> /\ reader = "no" /\ prog = NoProgram /\ prompt = 0
<1>1. "ready" \in KindsAt(call.at) /\ writer = << >>
    BY FirstMessage DEF Message, PageFree
<1>2. call.at \in Phases
    BY DEF RunInv, Typed, Calls
<1>3. call.at = "boot"
    BY <1>1, <1>2, KindsThen, LastingAre DEF Phases
<1> QED
    BY <1>1, <1>3 DEF RunInv, PhaseInv, ReaderInv, NoProgram

LEMMA PythonReadyStep == ASSUME RunInv, PythonReady PROVE RunInv'
<1>1. /\ call.lang = "python" /\ python' = "ready" /\ call' = [call EXCEPT !.at = "case"]
      /\ prog' = Program(call) /\ inbox' = << >>
      /\ UNCHANGED <<chan, writer, reader, results, prompt, cpp, builder, typed>>
    BY DEF PythonReady, channelVars
<1>2. call.at = "boot" /\ writer = << >> /\ reader = "no" /\ prompt = 0
    BY ReadyAwaitsBoot DEF PythonReady
<1>3. call \in Calls /\ typed = << >> /\ call.k # 0 /\ builder = "none"
    BY <1>1, <1>2 DEF RunInv, Typed, PhaseInv
<1>4. call' \in Calls /\ call'.at = "case" /\ call'.lang = "python" /\ call'.k = call.k
      /\ call'.no = call.no
    BY <1>1, <1>3 DEF Calls, Phases
<1>5. /\ Program(call) \in Programs
      /\ Program(call).at = "start" /\ Program(call).wrote = 0 /\ Program(call).seen = 0
      /\ Program(call).got = << >> /\ Program(call).buf = Preload(call.lang)
    <2>1. Preload(call.lang) \in Seq(Nat) /\ << >> \in Seq(Nat)
        BY PreloadType, EmptySeq
    <2> QED
        BY <2>1 DEF NoProgram, Program, Programs
<1>6. Typed'
    BY <1>1, <1>4, <1>5, EmptySeq DEF RunInv, Typed, Runtimes
<1>7. PhaseInv' /\ ReaderInv'
    BY <1>1, <1>2, <1>3, <1>4, <1>5 DEF PhaseInv, ReaderInv
<1>8. MessagesInv'
    BY <1>1, <1>5, NoOutputs DEF MessagesInv
<1>9. TalkInv'
    <2>1. Expected' = Preload(call'.lang) \o FlattenSeq(typed')
        BY DEF Expected
    <2>2. Expected' = Preload(call.lang)
        BY <1>1, <1>3, <1>4, <2>1, NothingTyped
    <2>3. prog'.got \o prog'.buf = Expected'
        BY <1>1, <1>5, <2>2, NothingTyped
    <2>4. Quiet'
        BY <1>1, <1>2 DEF Quiet, Question
    <2> QED
        BY <1>1, <1>2, <2>3, <2>4 DEF TalkInv
<1>10. ShownInv'
    BY <1>1, <1>2, <1>4, ShownKept DEF RunInv
<1> QED
    BY <1>6, <1>7, <1>8, <1>9, <1>10 DEF RunInv

\* A run that is not in a case has nothing to say of a program.
LEMMA NotInACase ==
    ASSUME RunInv, call'.at # "case", call'.no = call.no, call'.k = call.k,
           call.at = "idle" => call'.at = "idle",
           reader' = reader, prog' = prog, prog = NoProgram, results' = results
    PROVE  ReaderInv' /\ MessagesInv' /\ TalkInv' /\ ShownInv'
<1>1. reader = "no" /\ prog'.at # "read"
    BY DEF RunInv, ReaderInv, NoProgram
<1> QED
    BY <1>1, ShownKept DEF RunInv, ReaderInv, MessagesInv, TalkInv

LEMMA CppReadyStep == ASSUME RunInv, CppReady PROVE RunInv'
<1>1. /\ call.lang = "cpp" /\ cpp' = [cpp EXCEPT !.at = "ready"]
      /\ call' = [call EXCEPT !.at = "build"] /\ builder' = "asked" /\ inbox' = << >>
      /\ UNCHANGED <<chan, writer, reader, results, prompt, python, prog, typed>>
    BY DEF CppReady, channelVars
<1>2. call.at = "boot" /\ prog = NoProgram /\ prompt = 0
    BY ReadyAwaitsBoot DEF CppReady
<1>3. call \in Calls /\ cpp \in [at: Runtimes, pch: BOOLEAN] /\ cpp.pch = call.pch
    BY <1>1, <1>2 DEF RunInv, Typed, PhaseInv
<1>4. call' \in Calls /\ call'.at = "build" /\ call'.lang = "cpp" /\ call'.k = call.k
      /\ call'.no = call.no /\ call'.pch = call.pch
    BY <1>1, <1>3 DEF Calls, Phases
<1>5. cpp' = [at |-> "ready", pch |-> call.pch] /\ cpp' \in [at: Runtimes, pch: BOOLEAN]
    BY <1>1, <1>3 DEF Runtimes
<1>6. Typed'
    BY <1>1, <1>4, <1>5, EmptySeq DEF RunInv, Typed
<1>7. PhaseInv'
    BY <1>1, <1>2, <1>4, <1>5 DEF PhaseInv
<1>8. ReaderInv' /\ MessagesInv' /\ TalkInv' /\ ShownInv'
    BY <1>1, <1>2, <1>4, NotInACase
<1> QED
    BY <1>6, <1>7, <1>8 DEF RunInv

LEMMA BootFailedStep == ASSUME RunInv, BootFailed PROVE RunInv'
<1>1. /\ call.at = "boot"
      /\ python' = IF call.lang = "python" THEN "failed" ELSE python
      /\ cpp' = IF call.lang = "cpp" THEN [cpp EXCEPT !.at = "failed"] ELSE cpp
      /\ call' = [call EXCEPT !.at = "idle"] /\ inbox' = << >>
      /\ UNCHANGED <<chan, writer, reader, results, prompt, builder, prog, typed>>
    BY DEF BootFailed, channelVars
<1>2. call \in Calls /\ cpp \in [at: Runtimes, pch: BOOLEAN] /\ python \in Runtimes
      /\ builder = "none" /\ prog = NoProgram /\ prompt = 0
    BY <1>1 DEF RunInv, Typed, PhaseInv
<1>3. call' \in Calls /\ call'.at = "idle" /\ call'.k = call.k /\ call'.no = call.no
    BY <1>1, <1>2 DEF Calls, Phases
<1>4. cpp' \in [at: Runtimes, pch: BOOLEAN] /\ python' \in Runtimes
    BY <1>1, <1>2 DEF Runtimes
<1>5. Typed'
    BY <1>1, <1>3, <1>4, EmptySeq DEF RunInv, Typed
<1>6. PhaseInv'
    BY <1>1, <1>2, <1>3 DEF PhaseInv
<1>7. ReaderInv' /\ MessagesInv' /\ TalkInv' /\ ShownInv'
    BY <1>1, <1>2, <1>3, NotInACase
<1> QED
    BY <1>5, <1>6, <1>7 DEF RunInv

LEMMA NotBuiltStep == ASSUME RunInv, NotBuilt PROVE RunInv'
<1>1. /\ call.at = "build" /\ call' = [call EXCEPT !.at = "idle"]
      /\ builder' = "none" /\ inbox' = << >>
      /\ UNCHANGED <<chan, writer, reader, results, prompt, python, cpp, prog, typed>>
    BY DEF NotBuilt, channelVars
<1>2. call \in Calls /\ prog = NoProgram /\ prompt = 0
    BY <1>1 DEF RunInv, Typed, PhaseInv
<1>3. call' \in Calls /\ call'.at = "idle" /\ call'.k = call.k /\ call'.no = call.no
    BY <1>1, <1>2 DEF Calls, Phases
<1>4. Typed'
    BY <1>1, <1>3, EmptySeq DEF RunInv, Typed
<1>5. PhaseInv'
    BY <1>1, <1>2, <1>3 DEF PhaseInv
<1>6. ReaderInv' /\ MessagesInv' /\ TalkInv' /\ ShownInv'
    BY <1>1, <1>2, <1>3, NotInACase
<1> QED
    BY <1>4, <1>5, <1>6 DEF RunInv

LEMMA BuiltStep == ASSUME RunInv, Built PROVE RunInv'
<1>1. /\ writer = << >> /\ NextCase(call, python) /\ builder' = "none" /\ inbox' = << >>
      /\ UNCHANGED <<writer, reader, results, prompt, cpp>>
    BY DEF Built, Message, PageFree
<1>2. call.at = "build"
    <2>1. "built" \in KindsAt(call.at)
        BY FirstMessage DEF Built, Message
    <2>2. call.at \in Phases
        BY DEF RunInv, Typed, Calls
    <2> QED
        BY <2>1, <2>2, KindsThen, LastingAre DEF Phases
<1>3. prog = NoProgram /\ prompt = 0 /\ reader = "no"
    BY <1>2 DEF RunInv, PhaseInv, ReaderInv, NoProgram
<1>4. call \in Calls /\ python \in Runtimes /\ call.k \in Nat
    BY RunsAssumption DEF RunInv, Typed, Calls
<1>5. /\ Typed' /\ PhaseInv' /\ ReaderInv' /\ MessagesInv' /\ TalkInv'
      /\ call'.no = call.no
      /\ \/ call'.k = call.k /\ call'.at = "idle"
         \/ call'.k = call.k + 1
    BY <1>1, <1>3, <1>4, NextCaseInv DEF RunInv
<1>6. ShownInv'
    <2>1. \A i \in DOMAIN results : i \in Nat /\ i <= call.k /\ results[i].no = call.no
        BY RunsAssumption DEF RunInv, ShownInv, OnePerCase
    <2>2. OnePerCase'
        BY <1>1, <1>4, <1>5, <2>1 DEF OnePerCase
    <2> QED
        BY <1>1, <2>2 DEF RunInv, ShownInv, FinishedIsComplete
<1> QED
    BY <1>5, <1>6 DEF RunInv

\* A message that is not the last of an execution is taken from the inbox.
LEMMA InboxTail ==
    ASSUME RunInv, Message("output") \/ Message("needs-input"), inbox' = Tail(inbox)
    PROVE  /\ writer = << >> /\ call.at = "case"
           /\ inbox' \in Seq([kind: Kinds])
           /\ \A i \in DOMAIN inbox' : inbox'[i].kind \in KindsAt("case")
           /\ \A i \in DOMAIN inbox' : inbox'[i].kind \notin {"output", "needs-input"} =>
                  i = Len(inbox') /\ prog.at = "over"
           /\ Question' => Question
           /\ OneQuestion => OneQuestion' /\ (Message("needs-input") => ~Question')
           /\ Cardinality(Outputs(inbox)) =
                  Cardinality(Outputs(inbox')) + IF Message("output") THEN 1 ELSE 0
           /\ Cardinality(Outputs(inbox')) \in Nat
<1>1. inbox \in Seq([kind: Kinds]) /\ inbox # << >> /\ writer = << >>
    BY DEF RunInv, Typed, Message, PageFree
<1>2. /\ Len(inbox) \in Nat \ {0} /\ DOMAIN inbox = 1..Len(inbox) /\ 1 \in DOMAIN inbox
      /\ Head(inbox) = inbox[1]
      /\ inbox' \in Seq([kind: Kinds]) /\ DOMAIN inbox' = 1..(Len(inbox) - 1)
      /\ \A i \in 1..(Len(inbox) - 1) : inbox'[i] = inbox[i + 1]
    BY <1>1, FirstAndRest
<1>3. \A i \in DOMAIN inbox' : i \in Nat /\ i + 1 \in DOMAIN inbox /\ i + 1 # 1 /\ inbox'[i] = inbox[i + 1]
    BY <1>2
<1>4. call.at = "case"
    <2>1. inbox[1].kind \in KindsAt(call.at) /\ call.at \in Phases
        BY <1>2 DEF RunInv, PhaseInv, Typed, Calls
    <2>2. inbox[1].kind \in {"output", "needs-input"}
        BY <1>2 DEF Message
    <2> QED
        BY <2>1, <2>2, KindsThen, LastingAre DEF Phases
<1>5. \A i \in DOMAIN inbox' : inbox'[i].kind \in KindsAt("case")
    BY <1>3, <1>4 DEF RunInv, PhaseInv
<1>6. Len(inbox') = Len(inbox) - 1
    <2>1. DOMAIN inbox' = 1..Len(inbox') /\ Len(inbox') \in Nat
        BY <1>2, LenProperties
    <2> QED
        BY <1>2, HeadTailProperties, <1>1
<1>7. \A i \in DOMAIN inbox' : inbox'[i].kind \notin {"output", "needs-input"} =>
          i = Len(inbox') /\ prog.at = "over"
    <2>1. \A i \in DOMAIN inbox : inbox[i].kind \notin {"output", "needs-input"} =>
              i = Len(inbox) /\ prog.at = "over"
        BY <1>4 DEF RunInv, MessagesInv
    <2> QED
        BY <1>2, <1>3, <1>6, <2>1
<1>8. Question' => Question
    BY <1>3 DEF Question
<1>9. OneQuestion => OneQuestion' /\ (Message("needs-input") => ~Question')
    <2> SUFFICES ASSUME OneQuestion PROVE OneQuestion' /\ (Message("needs-input") => ~Question')
        OBVIOUS
    <2>1. \A i, j \in DOMAIN inbox :
              inbox[i].kind = "needs-input" /\ inbox[j].kind = "needs-input" => i = j
        BY DEF OneQuestion
    <2>2. \A i, j \in DOMAIN inbox' :
              inbox'[i].kind = "needs-input" /\ inbox'[j].kind = "needs-input" => i = j
        <3> SUFFICES ASSUME NEW i \in DOMAIN inbox', NEW j \in DOMAIN inbox',
                            inbox'[i].kind = "needs-input", inbox'[j].kind = "needs-input"
                     PROVE  i = j
            OBVIOUS
        <3>1. i + 1 = j + 1 /\ i \in Nat /\ j \in Nat
            BY <1>3, <2>1
        <3> QED
            BY <3>1
    <2>3. Message("needs-input") => ~Question'
        BY <1>2, <1>3, <2>1 DEF Message, Question
    <2> QED
        BY <2>2, <2>3 DEF OneQuestion
<1>10. Cardinality(Outputs(inbox)) =
           Cardinality(Outputs(inbox')) + IF Message("output") THEN 1 ELSE 0
    <2>1. Message("output") <=> Head(inbox).kind = "output"
        BY <1>1 DEF Message, PageFree
    <2> QED
        BY <1>1, <2>1, OutputsOfTail
<1>11. Cardinality(Outputs(inbox')) \in Nat
    BY <1>2, OutputsType
<1> QED
    BY <1>1, <1>2, <1>4, <1>5, <1>7, <1>8, <1>9, <1>10, <1>11

LEMMA OutputStep == ASSUME RunInv, Output PROVE RunInv'
<1>1. /\ prog' = [prog EXCEPT !.seen = @ + 1] /\ inbox' = Tail(inbox) /\ Message("output")
      /\ UNCHANGED <<chan, writer, reader, call, results, prompt, python, cpp, builder, typed>>
    BY DEF Output, channelVars, pageVars
<1>2. /\ writer = << >> /\ call.at = "case"
      /\ inbox' \in Seq([kind: Kinds])
      /\ \A i \in DOMAIN inbox' : inbox'[i].kind \in KindsAt("case")
      /\ \A i \in DOMAIN inbox' : inbox'[i].kind \notin {"output", "needs-input"} =>
             i = Len(inbox') /\ prog.at = "over"
      /\ Question' => Question
      /\ OneQuestion => OneQuestion'
      /\ Cardinality(Outputs(inbox)) = Cardinality(Outputs(inbox')) + 1
      /\ Cardinality(Outputs(inbox')) \in Nat
    BY <1>1, InboxTail
<1>3. prog \in Programs
    BY DEF RunInv, Typed
<1>4. /\ prog' \in Programs /\ prog'.seen = prog.seen + 1 /\ prog'.wrote = prog.wrote
      /\ prog'.at = prog.at /\ prog'.got = prog.got /\ prog'.buf = prog.buf /\ prog.seen \in Nat
    <2>1. prog.seen \in Nat /\ prog.seen + 1 \in Nat
        BY <1>3 DEF Programs
    <2> QED
        BY <1>1, <1>3, <2>1 DEF Programs
<1>5. Typed'
    BY <1>1, <1>2, <1>4, RunsAssumption DEF RunInv, Typed
<1>6. PhaseInv' /\ ReaderInv'
    BY <1>1, <1>2, <1>4 DEF RunInv, PhaseInv, ReaderInv
<1>7. MessagesInv'
    <2>1. prog.wrote = prog.seen + Cardinality(Outputs(inbox))
        BY <1>2 DEF RunInv, MessagesInv
    <2>2. prog'.wrote = prog'.seen + Cardinality(Outputs(inbox'))
        BY <1>2, <1>4, <2>1
    <2> QED
        BY <1>1, <1>2, <1>4, <2>2 DEF MessagesInv
<1>8. TalkInv'
    <2>1. Expected' = Expected /\ LastLine' = LastLine
        BY <1>1 DEF Expected, LastLine
    <2>2. /\ Quiet => Quiet'
          /\ Unanswered => Unanswered'
          /\ LineGiven => LineGiven'
          /\ LineStored' <=> LineStored
          /\ LineUnderWay' <=> LineUnderWay
          /\ EofStored' <=> EofStored
          /\ EofUnderWay' <=> EofUnderWay
        BY <1>1, <1>2, <1>4, <2>1 DEF Quiet, Unanswered, LineGiven, LineStored, LineUnderWay,
                          EofStored, EofUnderWay
    <2> QED
        BY <1>1, <1>4, <2>1, <2>2 DEF RunInv, TalkInv
<1>9. ShownInv'
    BY <1>1, ShownKept DEF RunInv
<1> QED
    BY <1>5, <1>6, <1>7, <1>8, <1>9 DEF RunInv

LEMMA NeedsInputStep == ASSUME RunInv, NeedsInput PROVE RunInv'
<1>1. /\ prompt' = call.k /\ inbox' = Tail(inbox) /\ Message("needs-input")
      /\ UNCHANGED <<chan, writer, reader, call, results, python, cpp, builder, prog, typed>>
    BY DEF NeedsInput, channelVars
<1>0. ~Message("output") /\ Question
    <2>1. inbox # << >> /\ inbox \in Seq([kind: Kinds]) /\ Head(inbox).kind = "needs-input"
        BY <1>1 DEF Message, RunInv, Typed
    <2>2. 1 \in DOMAIN inbox /\ Head(inbox) = inbox[1]
        BY <2>1, FirstAndRest
    <2> QED
        BY <2>1, <2>2 DEF Message, Question
<1>2. /\ writer = << >> /\ call.at = "case"
      /\ inbox' \in Seq([kind: Kinds])
      /\ \A i \in DOMAIN inbox' : inbox'[i].kind \in KindsAt("case")
      /\ \A i \in DOMAIN inbox' : inbox'[i].kind \notin {"output", "needs-input"} =>
             i = Len(inbox') /\ prog.at = "over"
      /\ OneQuestion => OneQuestion' /\ ~Question'
      /\ Cardinality(Outputs(inbox)) = Cardinality(Outputs(inbox'))
    <2>1. Cardinality(Outputs(inbox)) = Cardinality(Outputs(inbox')) + 0
          /\ Cardinality(Outputs(inbox')) \in Nat
        BY <1>0, <1>1, InboxTail
    <2> QED
        BY <1>1, <2>1, InboxTail
<1>3. call \in Calls
    BY DEF RunInv, Typed
<1>4. Typed'
    BY <1>1, <1>2, <1>3 DEF RunInv, Typed, Calls
<1>5. PhaseInv' /\ ReaderInv'
    BY <1>1, <1>2 DEF RunInv, PhaseInv, ReaderInv
<1>6. MessagesInv'
    BY <1>1, <1>2 DEF RunInv, MessagesInv, Outputs
<1>7. TalkInv'
    <2> SUFFICES ASSUME ~call.aborted PROVE TalkInv'
        BY <1>1 DEF TalkInv
    <2>1. ~Quiet /\ reader \in {"no", "ask", "wait", "woken"}
        BY <1>0 DEF Quiet, RunInv, Typed
    <2>2. reader = "wait" /\ Unanswered /\ prog.buf = << >>
        BY <1>2, <2>1 DEF RunInv, TalkInv
    <2>3. Unanswered'
        BY <1>1, <1>2, <2>2 DEF Unanswered, Expected
    <2> QED
        BY <1>1, <2>2, <2>3 DEF TalkInv
<1>8. ShownInv'
    BY <1>1, ShownKept DEF RunInv
<1> QED
    BY <1>4, <1>5, <1>6, <1>7, <1>8 DEF RunInv

LEMMA EndedStep == ASSUME RunInv, Ended PROVE RunInv'
<1>1. /\ PageFree /\ call.at = "case" /\ inbox # << >>
      /\ Head(inbox).kind \notin {"output", "needs-input"}
      /\ Settle(Head(inbox).kind, call, python)
    BY DEF Ended
<1>2. inbox \in Seq([kind: Kinds]) /\ prog \in Programs /\ python \in Runtimes
    BY DEF RunInv, Typed
<1>3. /\ Len(inbox) \in Nat \ {0} /\ DOMAIN inbox = 1..Len(inbox) /\ 1 \in DOMAIN inbox
      /\ Head(inbox) = inbox[1]
    BY <1>1, <1>2, FirstAndRest
<1>4. Len(inbox) = 1
    BY <1>1, <1>3 DEF RunInv, MessagesInv
<1>5. Outputs(inbox) = {}
    BY <1>1, <1>3, <1>4 DEF Outputs
<1>6. prog.wrote = prog.seen
    <2>1. Cardinality(Outputs(inbox)) = 0
        BY <1>5, FS_EmptySet
    <2> QED
        BY <1>1, <1>2, <2>1 DEF RunInv, MessagesInv, Programs
<1> QED
    BY <1>1, <1>2, <1>6, SettleInv

-----------------------------------------------------------------------------
(* The workers.                                                             *)

LEMMA Posted ==
    ASSUME RunInv, NEW kind \in Kinds, Post([kind |-> kind])
    PROVE  /\ inbox' \in Seq([kind: Kinds])
           /\ DOMAIN inbox = 1..Len(inbox) /\ Len(inbox) \in Nat
           /\ DOMAIN inbox' = 1..(Len(inbox) + 1) /\ Len(inbox') = Len(inbox) + 1
           /\ \A i \in DOMAIN inbox : inbox'[i] = inbox[i]
           /\ inbox'[Len(inbox) + 1].kind = kind
           /\ Cardinality(Outputs(inbox')) = Cardinality(Outputs(inbox)) + IF kind = "output" THEN 1 ELSE 0
           /\ Cardinality(Outputs(inbox)) \in Nat
<1> DEFINE m == [kind |-> kind]
<1>1. m \in [kind: Kinds] /\ m.kind = kind /\ inbox \in Seq([kind: Kinds]) /\ inbox' = Append(inbox, m)
    BY DEF RunInv, Typed, Post
<1> HIDE DEF m
<1>2. /\ Append(inbox, m) \in Seq([kind: Kinds]) /\ Len(Append(inbox, m)) = Len(inbox) + 1
      /\ \A i \in 1..Len(inbox) : Append(inbox, m)[i] = inbox[i]
      /\ Append(inbox, m)[Len(inbox) + 1] = m
      /\ Len(inbox) \in Nat /\ DOMAIN inbox = 1..Len(inbox)
    BY <1>1, AppendProperties, LenProperties
<1>3. DOMAIN Append(inbox, m) = 1..(Len(inbox) + 1)
    BY <1>2, LenProperties
<1>4. Cardinality(Outputs(inbox)) \in Nat
    BY <1>1, OutputsType
<1>5. Cardinality(Outputs(Append(inbox, m))) = Cardinality(Outputs(inbox)) + IF m.kind = "output" THEN 1 ELSE 0
    BY <1>1, OutputsOfAppend
<1> QED
    BY <1>1, <1>2, <1>3, <1>4, <1>5

\* A worker answers while the call awaits a boot or a build.
LEMMA AnswerStep ==
    ASSUME RunInv, Boot \/ Compile \/ Link
    PROVE  RunInv'
<1>1. /\ UNCHANGED <<chan, writer, reader, call, results, prompt, python, cpp, prog, typed>>
      /\ builder' \in {"none", "compiled"} /\ (builder' # "none" => call.at = "build")
      /\ call.at \in {"boot", "build"}
      /\ \/ inbox' = inbox
         \/ \E kind \in KindsAt(call.at) : Post([kind |-> kind])
    <2>1. CASE Boot
        BY <2>1, KindsThen DEF Boot, channelVars, pageVars, RunInv, PhaseInv
    <2>2. CASE Compile
        <3>1. call.at = "build"
            BY <2>2 DEF Compile, RunInv, PhaseInv
        <3> QED
            BY <2>2, <3>1, KindsThen DEF Compile, channelVars, pageVars
    <2>3. CASE Link
        <3>1. call.at = "build"
            BY <2>3 DEF Link, RunInv, PhaseInv
        <3> QED
            BY <2>3, <3>1, KindsThen DEF Link, channelVars, pageVars
    <2> QED
        BY <2>1, <2>2, <2>3
<1>2. inbox' \in Seq([kind: Kinds]) /\ \A i \in DOMAIN inbox' : inbox'[i].kind \in KindsAt(call.at)
    <2>1. \A i \in DOMAIN inbox : inbox[i].kind \in KindsAt(call.at)
        BY DEF RunInv, PhaseInv
    <2>2. CASE inbox' = inbox
        BY <2>1, <2>2 DEF RunInv, Typed
    <2>3. CASE \E kind \in KindsAt(call.at) : Post([kind |-> kind])
        <3>1. PICK kind \in KindsAt(call.at) : Post([kind |-> kind])
            BY <2>3
        <3>2. kind \in Kinds
            BY <1>1, KindsThen DEF Kinds
        <3> QED
            <4>1. /\ inbox' \in Seq([kind: Kinds])
                  /\ DOMAIN inbox = 1..Len(inbox) /\ Len(inbox) \in Nat
                  /\ DOMAIN inbox' = 1..(Len(inbox) + 1)
                  /\ \A i \in DOMAIN inbox : inbox'[i] = inbox[i]
                  /\ inbox'[Len(inbox) + 1].kind = kind
                BY <3>1, <3>2, Posted
            <4>2. \A i \in DOMAIN inbox' : i \in DOMAIN inbox \/ i = Len(inbox) + 1
                BY <4>1
            <4> QED
                BY <2>1, <3>1, <4>1, <4>2
    <2> QED
        BY <1>1, <2>2, <2>3
<1>3. Typed'
    BY <1>1, <1>2 DEF RunInv, Typed
<1>4. PhaseInv'
    BY <1>1, <1>2 DEF RunInv, PhaseInv
<1>5. ReaderInv' /\ MessagesInv' /\ TalkInv'
    BY <1>1 DEF RunInv, ReaderInv, MessagesInv, TalkInv
<1>6. ShownInv'
    BY <1>1, ShownKept DEF RunInv
<1> QED
    BY <1>3, <1>4, <1>5, <1>6 DEF RunInv

\* A program executes only in a case.
LEMMA Executing ==
    ASSUME RunInv, prog.at # "none"
    PROVE  call.at = "case" /\ call.k # 0 /\ prog \in Programs /\ builder = "none"
BY DEF RunInv, PhaseInv, Typed, NoProgram

\* What a step of a program that is not in a read, nor leaves one, has to keep.
LEMMA ProgramStep ==
    ASSUME RunInv, UNCHANGED <<chan, writer, reader, call, results, prompt, python, cpp, builder, typed>>,
           prog.at \in {"start", "run"}, prog' \in Programs, prog'.at \in {"start", "run", "over"},
           prog'.got \o prog'.buf = prog.got \o prog.buf,
           \/ inbox' = inbox /\ prog'.at = "run" /\ prog'.wrote - prog'.seen = prog.wrote - prog.seen
           \/ /\ Post([kind |-> "output"]) /\ prog'.at = "run"
              /\ prog'.wrote = prog.wrote + 1 /\ prog'.seen = prog.seen
           \/ /\ \E kind \in Lasting : Post([kind |-> kind])
              /\ prog'.at = "over" /\ prog'.wrote = prog.wrote /\ prog'.seen = prog.seen
    PROVE  RunInv'
<1>1. call.at = "case" /\ prog \in Programs /\ reader = "no"
    BY Executing DEF RunInv, ReaderInv
<1>2. prog.wrote \in Nat /\ prog.seen \in Nat /\ prog'.wrote \in Nat /\ prog'.seen \in Nat
    BY <1>1 DEF Programs
<1>3. \A i \in DOMAIN inbox : /\ inbox[i].kind \in {"output", "needs-input"}
                              /\ inbox[i].kind \in KindsAt("case")
    BY <1>1 DEF RunInv, MessagesInv, PhaseInv
<1>4. prog.wrote = prog.seen + Cardinality(Outputs(inbox))
    BY <1>1 DEF RunInv, MessagesInv
<1>5. inbox \in Seq([kind: Kinds]) /\ Cardinality(Outputs(inbox)) \in Nat
    BY OutputsType DEF RunInv, Typed
<1>6. /\ inbox' \in Seq([kind: Kinds])
      /\ \A i \in DOMAIN inbox' : inbox'[i].kind \in KindsAt("case")
      /\ \A i \in DOMAIN inbox' : inbox'[i].kind \notin {"output", "needs-input"} =>
             i = Len(inbox') /\ prog'.at = "over"
      /\ Question' => Question
      /\ prog'.wrote = prog'.seen + Cardinality(Outputs(inbox'))
    <2>1. CASE inbox' = inbox /\ prog'.wrote - prog'.seen = prog.wrote - prog.seen
        BY <1>2, <1>3, <1>4, <1>5, <2>1 DEF Question
    <2>2. ASSUME NEW kind \in Lasting \cup {"output"}, Post([kind |-> kind]),
                 kind # "output" => prog'.at = "over",
                 prog'.wrote = prog.wrote + IF kind = "output" THEN 1 ELSE 0, prog'.seen = prog.seen
          PROVE  <1>6
        <3>1. kind \in Kinds /\ kind \in KindsAt("case") /\ kind # "needs-input"
            BY KindsThen, LastingAre DEF Kinds
        <3>2. /\ inbox' \in Seq([kind: Kinds])
              /\ DOMAIN inbox = 1..Len(inbox) /\ Len(inbox) \in Nat
              /\ DOMAIN inbox' = 1..(Len(inbox) + 1) /\ Len(inbox') = Len(inbox) + 1
              /\ \A i \in DOMAIN inbox : inbox'[i] = inbox[i]
              /\ inbox'[Len(inbox) + 1].kind = kind
              /\ Cardinality(Outputs(inbox')) = Cardinality(Outputs(inbox)) + IF kind = "output" THEN 1 ELSE 0
            BY <2>2, <3>1, Posted
        <3>3. \A i \in DOMAIN inbox' : i \in DOMAIN inbox \/ i = Len(inbox')
            BY <3>2
        <3>4. \A i \in DOMAIN inbox' : inbox'[i].kind \in KindsAt("case")
            BY <1>3, <3>1, <3>2, <3>3
        <3>5. \A i \in DOMAIN inbox' : inbox'[i].kind \notin {"output", "needs-input"} =>
                 i = Len(inbox') /\ prog'.at = "over"
            BY <1>3, <2>2, <3>1, <3>2, <3>3
        <3>6. Question' => Question
            BY <3>1, <3>2, <3>3 DEF Question
        <3>7. prog'.wrote = prog'.seen + Cardinality(Outputs(inbox'))
            BY <1>2, <1>4, <1>5, <2>2, <3>2
        <3> QED
            BY <3>2, <3>4, <3>5, <3>6, <3>7
    <2>3. CASE /\ Post([kind |-> "output"]) /\ prog'.wrote = prog.wrote + 1 /\ prog'.seen = prog.seen
        BY <2>2, <2>3
    <2>4. CASE /\ \E kind \in Lasting : Post([kind |-> kind])
               /\ prog'.at = "over" /\ prog'.wrote = prog.wrote /\ prog'.seen = prog.seen
        <3>1. PICK kind \in Lasting : Post([kind |-> kind])
            BY <2>4
        <3>2. kind # "output" /\ prog'.wrote = prog.wrote + 0
            BY <1>2, <2>4, LastingAre
        <3> QED
            BY <2>2, <2>4, <3>1, <3>2
    <2> QED
        BY <2>1, <2>3, <2>4
<1>7. Typed'
    BY <1>6 DEF RunInv, Typed
<1>8. PhaseInv' /\ ReaderInv'
    BY <1>1, <1>6 DEF RunInv, PhaseInv, ReaderInv
<1>9. MessagesInv'
    BY <1>6 DEF MessagesInv
<1>10. TalkInv'
    <2>1. Expected' = Expected /\ (Quiet => Quiet')
        BY <1>6 DEF Expected, Quiet
    <2> QED
        BY <1>1, <2>1 DEF RunInv, TalkInv
<1>11. ShownInv'
    BY ShownKept DEF RunInv
<1> QED
    BY <1>7, <1>8, <1>9, <1>10, <1>11 DEF RunInv

LEMMA LoadStep == ASSUME RunInv, Load PROVE RunInv'
<1>1. /\ prog.at = "start"
      /\ UNCHANGED <<chan, writer, reader, call, results, prompt, python, cpp, builder, typed>>
      /\ \/ prog' = [prog EXCEPT !.at = "run"] /\ inbox' = inbox
         \/ prog' = [prog EXCEPT !.at = "over"] /\ \E kind \in Lasting : Post([kind |-> kind])
    BY DEF Load, Lasting, channelVars, pageVars
<1>2. prog \in Programs
    BY DEF RunInv, Typed
<1>3. /\ prog' \in Programs /\ prog'.at \in {"run", "over"}
      /\ prog'.got = prog.got /\ prog'.buf = prog.buf
      /\ prog'.wrote = prog.wrote /\ prog'.seen = prog.seen
      /\ (prog' = [prog EXCEPT !.at = "run"] => prog'.at = "run")
      /\ (prog' = [prog EXCEPT !.at = "over"] => prog'.at = "over")
    BY <1>1, <1>2 DEF Programs
<1> QED
    BY <1>1, <1>3, ProgramStep

LEMMA WriteStep == ASSUME RunInv, Write PROVE RunInv'
<1>1. /\ prog.at = "run"
      /\ UNCHANGED <<chan, writer, reader, call, results, prompt, python, cpp, builder, typed>>
      /\ \/ Post([kind |-> "output"]) /\ prog' = [prog EXCEPT !.wrote = @ + 1]
         \/ inbox' = inbox /\ prog' = [prog EXCEPT !.wrote = @ + 1, !.seen = @ + 1]
    BY DEF Write, channelVars, pageVars
<1>2. prog \in Programs /\ prog.wrote \in Nat /\ prog.seen \in Nat
      /\ prog.wrote + 1 \in Nat /\ prog.seen + 1 \in Nat
    BY DEF RunInv, Typed, Programs
<1>3. CASE Post([kind |-> "output"]) /\ prog' = [prog EXCEPT !.wrote = @ + 1]
    <2>1. /\ prog' \in Programs /\ prog'.at = "run"
          /\ prog'.got = prog.got /\ prog'.buf = prog.buf
          /\ prog'.wrote = prog.wrote + 1 /\ prog'.seen = prog.seen
        BY <1>1, <1>2, <1>3 DEF Programs
    <2> QED
        BY <1>1, <1>3, <2>1, ProgramStep
<1>4. CASE inbox' = inbox /\ prog' = [prog EXCEPT !.wrote = @ + 1, !.seen = @ + 1]
    <2>1. /\ prog' \in Programs /\ prog'.at = "run"
          /\ prog'.got = prog.got /\ prog'.buf = prog.buf
          /\ prog'.wrote = prog.wrote + 1 /\ prog'.seen = prog.seen + 1
        BY <1>1, <1>2, <1>4 DEF Programs
    <2>2. prog'.wrote - prog'.seen = prog.wrote - prog.seen
        BY <1>2, <2>1
    <2> QED
        BY <1>1, <1>4, <2>1, <2>2, ProgramStep
<1> QED
    BY <1>1, <1>3, <1>4

\* A text is its first n units and the rest.
LEMMA SplitText ==
    ASSUME NEW text \in Seq(Nat), NEW n \in 1..Len(text)
    PROVE  /\ SubSeq(text, 1, n) \in Seq(Nat) /\ SubSeq(text, n + 1, Len(text)) \in Seq(Nat)
           /\ SubSeq(text, 1, n) \o SubSeq(text, n + 1, Len(text)) = text
<1>1. Len(text) \in Nat /\ \A i \in 1..Len(text) : text[i] \in Nat
    BY LenProperties, ElementOfSeq
<1>2. SubSeq(text, 1, n) \in Seq(Nat) /\ SubSeq(text, n + 1, Len(text)) \in Seq(Nat)
    BY <1>1, SubSeqProperties
<1>3. SubSeq(text, 1, n) \o SubSeq(text, n + 1, Len(text)) = SubSeq(text, 1, Len(text))
    BY <1>1, ConcatAdjacentSubSeq
<1>4. SubSeq(text, 1, Len(text)) = text
    BY SubSeqFull
<1> QED
    BY <1>2, <1>3, <1>4

LEMMA ReadStep == ASSUME RunInv, Read PROVE RunInv'
<1>1. /\ prog.at = "run"
      /\ UNCHANGED <<chan, writer, reader, call, results, prompt, python, cpp, builder, typed, inbox>>
    BY DEF Read, channelVars, pageVars
<1>2. PICK n \in 1..Len(prog.buf) : prog' = Given(n)
    BY DEF Read
<1>3. prog \in Programs /\ prog.buf \in Seq(Nat) /\ prog.got \in Seq(Nat)
    BY DEF RunInv, Typed, Programs
<1> DEFINE first == SubSeq(prog.buf, 1, n)
<1> DEFINE rest == SubSeq(prog.buf, n + 1, Len(prog.buf))
<1>4. first \in Seq(Nat) /\ rest \in Seq(Nat) /\ first \o rest = prog.buf
    BY <1>3, SplitText
<1>5. prog' = [prog EXCEPT !.at = "run", !.got = @ \o first, !.buf = rest]
    BY <1>2 DEF Given
<1> HIDE DEF first, rest
<1>6. prog.got \o first \in Seq(Nat) /\ (prog.got \o first) \o rest = prog.got \o prog.buf
    <2>1. prog.got \o first \in Seq(Nat)
        BY <1>3, <1>4, ConcatProperties
    <2>2. (prog.got \o first) \o rest = prog.got \o (first \o rest)
        BY <1>3, <1>4, JoinTexts, Zenon
    <2> QED
        BY <1>4, <2>1, <2>2
<1>7. /\ prog' \in Programs /\ prog'.at = "run"
      /\ prog'.got = prog.got \o first /\ prog'.buf = rest
      /\ prog'.wrote = prog.wrote /\ prog'.seen = prog.seen
    BY <1>3, <1>4, <1>5, <1>6 DEF Programs
<1> QED
    BY <1>1, <1>6, <1>7, ProgramStep

LEMMA EndStep == ASSUME RunInv, End PROVE RunInv'
<1>1. /\ prog.at = "run" /\ prog' = [prog EXCEPT !.at = "over"]
      /\ UNCHANGED <<chan, writer, reader, call, results, prompt, python, cpp, builder, typed>>
      /\ \E kind \in Lasting : Post([kind |-> kind])
    BY LastingAre DEF End, Lasting, channelVars, pageVars
<1>2. prog \in Programs
    BY DEF RunInv, Typed
<1>3. /\ prog' \in Programs /\ prog'.at = "over"
      /\ prog'.got = prog.got /\ prog'.buf = prog.buf
      /\ prog'.wrote = prog.wrote /\ prog'.seen = prog.seen
    BY <1>1, <1>2 DEF Programs
<1> QED
    BY <1>1, <1>3, ProgramStep

-----------------------------------------------------------------------------
(* A read that blocks.                                                      *)

LEMMA ReadMoreStep == ASSUME RunInv, ReadMore PROVE RunInv'
<1>1. /\ prog.at = "run" /\ prog.buf = << >> /\ call.live
      /\ chan' = [chan EXCEPT !.state = "waiting"] /\ reader' = "ask"
      /\ prog' = [prog EXCEPT !.at = "read"]
      /\ UNCHANGED <<writer, call, results, prompt, python, cpp, builder, typed, inbox>>
    BY DEF ReadMore, Ask, pageVars
<1>2. call.at = "case" /\ prog \in Programs /\ prog.got \in Seq(Nat) /\ reader = "no"
    BY <1>1, Executing DEF RunInv, ReaderInv, Programs
<1>3. /\ prog' \in Programs /\ prog'.at = "read"
      /\ prog'.got = prog.got /\ prog'.buf = prog.buf
      /\ prog'.wrote = prog.wrote /\ prog'.seen = prog.seen
    BY <1>1, <1>2 DEF Programs
<1>4. chan' \in [state: States, length: 0..Capacity, bytes: Seq(Nat)] /\ chan'.state = "waiting"
    BY <1>1 DEF RunInv, Typed, States
<1>5. Typed'
    BY <1>1, <1>3, <1>4 DEF RunInv, Typed
<1>6. PhaseInv' /\ ReaderInv'
    BY <1>1, <1>2, <1>3 DEF RunInv, PhaseInv, ReaderInv
<1>7. MessagesInv'
    BY <1>1, <1>2, <1>3 DEF RunInv, MessagesInv, Outputs
<1>8. TalkInv'
    <2> SUFFICES ASSUME ~call.aborted PROVE TalkInv'
        BY <1>1 DEF TalkInv
    <2>1. writer = << >> /\ Quiet /\ prog.got \o prog.buf = Expected
        BY <1>2 DEF RunInv, TalkInv
    <2>2. prog.got = Expected
        BY <1>1, <1>2, <2>1, ConcatEmptySeq
    <2>3. Expected' = Expected /\ Quiet'
        BY <1>1, <2>1 DEF Expected, Quiet, Question
    <2> QED
        BY <1>1, <1>3, <1>4, <2>1, <2>2, <2>3 DEF TalkInv
<1>9. ShownInv'
    BY <1>1, ShownKept DEF RunInv
<1> QED
    BY <1>5, <1>6, <1>7, <1>8, <1>9 DEF RunInv

LEMMA OnWaitStep == ASSUME RunInv, OnWait PROVE RunInv'
<1>1. /\ reader = "ask" /\ reader' = "wait" /\ Post([kind |-> "needs-input"])
      /\ UNCHANGED <<chan, writer, call, results, prompt, python, cpp, builder, prog, typed>>
    BY DEF OnWait, Told, pageVars
<1>2. prog.at = "read" /\ call.at = "case"
    BY <1>1, Executing DEF RunInv, ReaderInv
<1>3. /\ inbox' \in Seq([kind: Kinds])
      /\ DOMAIN inbox = 1..Len(inbox) /\ Len(inbox) \in Nat
      /\ DOMAIN inbox' = 1..(Len(inbox) + 1)
      /\ \A i \in DOMAIN inbox : inbox'[i] = inbox[i]
      /\ inbox'[Len(inbox) + 1].kind = "needs-input"
      /\ Cardinality(Outputs(inbox')) = Cardinality(Outputs(inbox))
    <2>1. "needs-input" \in Kinds
        BY DEF Kinds
    <2>2. Cardinality(Outputs(inbox')) = Cardinality(Outputs(inbox)) + 0
          /\ Cardinality(Outputs(inbox)) \in Nat
        BY <1>1, <2>1, Posted
    <2>3. /\ inbox' \in Seq([kind: Kinds])
          /\ DOMAIN inbox = 1..Len(inbox) /\ Len(inbox) \in Nat
          /\ DOMAIN inbox' = 1..(Len(inbox) + 1)
          /\ \A i \in DOMAIN inbox : inbox'[i] = inbox[i]
          /\ inbox'[Len(inbox) + 1].kind = "needs-input"
        BY <1>1, <2>1, Posted
    <2> QED
        BY <2>2, <2>3
<1>4. \A i \in DOMAIN inbox' : i \in DOMAIN inbox \/ i = Len(inbox) + 1
    BY <1>3
<1>5. Typed'
    BY <1>1, <1>3 DEF RunInv, Typed
<1>6. PhaseInv'
    <2>1. "needs-input" \in KindsAt("case")
        BY KindsThen
    <2>2. \A i \in DOMAIN inbox : inbox[i].kind \in KindsAt("case")
        BY <1>2 DEF RunInv, PhaseInv
    <2>3. \A i \in DOMAIN inbox' : inbox'[i].kind \in KindsAt("case")
        BY <1>3, <1>4, <2>1, <2>2
    <2> QED
        BY <1>1, <1>2, <2>3 DEF RunInv, PhaseInv
<1>7. ReaderInv'
    BY <1>1 DEF RunInv, ReaderInv
<1>8. MessagesInv'
    <2>1. \A i \in DOMAIN inbox : inbox[i].kind \in {"output", "needs-input"}
        BY <1>2 DEF RunInv, MessagesInv
    <2>2. \A i \in DOMAIN inbox' : inbox'[i].kind \in {"output", "needs-input"}
        BY <1>3, <1>4, <2>1
    <2>3. prog'.wrote = prog'.seen + Cardinality(Outputs(inbox'))
        BY <1>1, <1>2, <1>3 DEF RunInv, MessagesInv
    <2> QED
        BY <2>2, <2>3 DEF MessagesInv
<1>9. TalkInv'
    <2> SUFFICES ASSUME ~call.aborted PROVE TalkInv'
        BY <1>1 DEF TalkInv
    <2>1. /\ writer = << >> /\ Quiet /\ chan.state = "waiting" /\ prog.got = Expected
          /\ prog.buf = << >>
        BY <1>1, <1>2 DEF RunInv, TalkInv
    <2>2. \A i \in DOMAIN inbox : inbox[i].kind # "needs-input"
        BY <2>1 DEF Quiet, Question
    <2>3. OneQuestion'
        BY <1>3, <1>4, <2>2 DEF OneQuestion
    <2>4. Expected' = Expected /\ prompt' = 0
        BY <1>1, <2>1 DEF Expected, Quiet
    <2>5. Unanswered'
        BY <1>1, <2>1, <2>3, <2>4 DEF Unanswered
    <2> QED
        BY <1>1, <2>1, <2>5 DEF TalkInv
<1>10. ShownInv'
    BY <1>1, ShownKept DEF RunInv
<1> QED
    BY <1>5, <1>6, <1>7, <1>8, <1>9, <1>10 DEF RunInv

LEMMA WakeUpStep == ASSUME RunInv, WakeUp PROVE RunInv'
<1>1. /\ reader = "wait" /\ chan.state # "waiting" /\ reader' = "woken"
      /\ UNCHANGED <<chan, writer, call, results, prompt, python, cpp, builder, prog, inbox, typed>>
    BY DEF WakeUp, Wake, pageVars, workerVars
<1>2. call.at = "case"
    BY <1>1, Executing DEF RunInv, ReaderInv
<1>3. Typed'
    BY <1>1 DEF RunInv, Typed
<1>4. PhaseInv' /\ ReaderInv' /\ MessagesInv'
    BY <1>1 DEF RunInv, PhaseInv, ReaderInv, MessagesInv, Outputs
<1>5. TalkInv'
    <2> SUFFICES ASSUME ~call.aborted PROVE TalkInv'
        BY <1>1 DEF TalkInv
    <2>1. /\ prog.buf = << >>
          /\ \/ Unanswered
             \/ Quiet /\ LineGiven /\ LineUnderWay
             \/ Quiet /\ EofUnderWay /\ prog.got = Expected
        BY <1>1, <1>2 DEF RunInv, TalkInv
    <2>2. Quiet /\ \/ LineGiven /\ LineStored
                   \/ EofStored /\ prog.got = Expected
        BY <1>1, <2>1 DEF Unanswered, LineUnderWay, EofUnderWay
    <2>3. /\ Quiet'
          /\ \/ LineGiven' /\ LineStored'
             \/ EofStored' /\ prog'.got = Expected'
        BY <1>1, <2>2 DEF Quiet, Question, LineGiven, LineStored, EofStored, LastLine, Expected
    <2> QED
        BY <1>1, <2>1, <2>3 DEF TalkInv
<1>6. ShownInv'
    BY <1>1, ShownKept DEF RunInv
<1> QED
    BY <1>3, <1>4, <1>5, <1>6 DEF RunInv

\* What the end of a read has to keep.
LEMMA ReadOverStep ==
    ASSUME RunInv, reader = "woken", reader' = "no",
           chan' \in [state: States, length: 0..Capacity, bytes: Seq(Nat)],
           NEW more \in Seq(Nat), prog' = [prog EXCEPT !.at = "run", !.buf = @ \o more],
           call.at = "case" /\ ~call.aborted => prog.got \o more = Expected /\ writer = << >> /\ Quiet,
           UNCHANGED <<writer, call, results, prompt, python, cpp, builder, inbox, typed>>
    PROVE  RunInv'
<1>1. prog.at = "read" /\ call.at = "case" /\ prog \in Programs /\ prog.buf \in Seq(Nat)
    BY Executing DEF RunInv, ReaderInv, Typed, Programs
<1>2. prog.buf \o more \in Seq(Nat) /\ << >> \o more = more
    BY <1>1, ConcatProperties, ConcatEmptySeq
<1>3. /\ prog' \in Programs /\ prog'.at = "run"
      /\ prog'.got = prog.got /\ prog'.buf = prog.buf \o more
      /\ prog'.wrote = prog.wrote /\ prog'.seen = prog.seen
    BY <1>1, <1>2 DEF Programs
<1>4. Typed'
    BY <1>3 DEF RunInv, Typed
<1>5. PhaseInv' /\ ReaderInv'
    BY <1>1, <1>3 DEF RunInv, PhaseInv, ReaderInv
<1>6. MessagesInv'
    BY <1>1, <1>3 DEF RunInv, MessagesInv, Outputs
<1>7. TalkInv'
    <2> SUFFICES ASSUME ~call.aborted PROVE TalkInv'
        BY DEF TalkInv
    <2>1. prog.buf = << >> /\ prog.got \o more = Expected /\ writer = << >> /\ Quiet
        BY <1>1 DEF RunInv, TalkInv
    <2>2. Expected' = Expected /\ Quiet'
        BY <2>1 DEF Expected, Quiet, Question
    <2>3. prog'.got \o prog'.buf = Expected'
        BY <1>2, <1>3, <2>1, <2>2
    <2> QED
        BY <2>1, <2>2, <2>3 DEF TalkInv
<1>8. ShownInv'
    BY ShownKept DEF RunInv
<1> QED
    BY <1>4, <1>5, <1>6, <1>7, <1>8 DEF RunInv

LEMMA WokenReader ==
    ASSUME RunInv, reader = "woken", call.at = "case", ~call.aborted
    PROVE  /\ writer = << >> /\ Quiet
           /\ \/ LineGiven /\ LineStored
              \/ EofStored /\ prog.got = Expected
BY DEF RunInv, TalkInv, LineStored, EofStored

LEMMA ReadNothingStep == ASSUME RunInv, ReadNothing PROVE RunInv'
<1>1. /\ reader = "woken" /\ chan.state = "eof" /\ reader' = "no" /\ prog' = [prog EXCEPT !.at = "run"]
      /\ UNCHANGED <<chan, writer, call, results, prompt, python, cpp, builder, inbox, typed>>
    BY DEF ReadNothing, EndOfInput, pageVars
<1>2. prog \in Programs /\ prog.buf \in Seq(Nat) /\ prog.got \in Seq(Nat) /\ << >> \in Seq(Nat)
    BY EmptySeq DEF RunInv, Typed, Programs
<1>3. prog.buf \o << >> = prog.buf /\ prog.got \o << >> = prog.got
    BY <1>2, ConcatEmptySeq
<1>4. prog' = [prog EXCEPT !.at = "run", !.buf = @ \o << >>]
    BY <1>1, <1>2, <1>3 DEF Programs
<1>5. call.at = "case" /\ ~call.aborted =>
          prog.got \o << >> = Expected /\ writer = << >> /\ Quiet
    <2> SUFFICES ASSUME call.at = "case", ~call.aborted
                 PROVE  prog.got \o << >> = Expected /\ writer = << >> /\ Quiet
        OBVIOUS
    <2>1. ~LineStored
        BY <1>1 DEF LineStored
    <2> QED
        BY <1>1, <1>3, <2>1, WokenReader
<1>6. chan' \in [state: States, length: 0..Capacity, bytes: Seq(Nat)]
    BY <1>1 DEF RunInv, Typed
<1> QED
    BY <1>1, <1>2, <1>4, <1>5, <1>6, ReadOverStep

LEMMA ReadLineStep == ASSUME RunInv, SizeInv, ReadLine PROVE RunInv'
<1>1. /\ reader = "woken" /\ chan.state # "eof" /\ reader' = "no"
      /\ chan' = [chan EXCEPT !.state = "idle"]
      /\ prog' = [prog EXCEPT !.at = "run", !.buf = @ \o Copied]
      /\ UNCHANGED <<writer, call, results, prompt, python, cpp, builder, inbox, typed>>
    BY DEF ReadLine, Take, pageVars
<1>2. chan \in [state: States, length: 0..Capacity, bytes: Seq(Nat)] /\ Capacity \in Nat
      /\ typed \in Seq(Lines)
    BY ChannelAssumption DEF RunInv, Typed
<1>3. chan' \in [state: States, length: 0..Capacity, bytes: Seq(Nat)]
    BY <1>1, <1>2 DEF States
<1>4. call.at = "case" /\ ~call.aborted =>
          /\ LineGiven /\ LineStored /\ writer = << >> /\ Quiet
          /\ LastLine \in Seq(Nat) /\ Copied = LastLine
    <2> SUFFICES ASSUME call.at = "case", ~call.aborted
                 PROVE  /\ LineGiven /\ LineStored /\ writer = << >> /\ Quiet
                        /\ LastLine \in Seq(Nat) /\ Copied = LastLine
        OBVIOUS
    <2>1. LineGiven /\ LineStored /\ writer = << >> /\ Quiet
        BY <1>1, WokenReader DEF EofStored
    <2>2. LastLine \in Seq(Nat)
        <3>1. Len(typed) \in 1..Len(typed)
            BY <1>2, <2>1, EmptySeq DEF LineGiven
        <3>2. typed[Len(typed)] \in Lines
            BY <1>2, <3>1, ElementOfSeq
        <3> QED
            BY <3>2, LineFits DEF LastLine
    <2>3. Copied = SubSeq(LastLine, 1, Len(LastLine))
        BY <2>1 DEF Copied, LineStored
    <2> QED
        BY <2>1, <2>2, <2>3, SubSeqFull
<1>5. Copied \in Seq(Nat)
    <2>1. chan.bytes \in Seq(Nat) /\ chan.length \in Nat /\ chan.length <= Len(chan.bytes)
        BY <1>2 DEF SizeInv
    <2>2. \A i \in 1..chan.length : chan.bytes[i] \in Nat
        BY <2>1, LenProperties, ElementOfSeq
    <2> QED
        BY <2>1, <2>2, SubSeqProperties DEF Copied
<1>6. call.at = "case" /\ ~call.aborted =>
          prog.got \o Copied = Expected /\ writer = << >> /\ Quiet
    BY <1>4 DEF LineGiven
<1> QED
    BY <1>1, <1>3, <1>5, <1>6, ReadOverStep

\* The page's next store.
LEMMA StoreOne ==
    ASSUME Store
    PROVE  /\ writer # << >> /\ reader' = reader
           /\ \A v : writer = AllOf(v) => writer' = LengthAndReady(v) /\ chan' = [chan EXCEPT !.bytes = v]
           /\ \A v : writer = LengthAndReady(v) => writer' = JustReady /\ chan' = [chan EXCEPT !.length = Len(v)]
           /\ writer = JustReady => writer' = << >> /\ chan' = [chan EXCEPT !.state = "ready"]
           /\ writer = LengthAndEof => writer' = JustEof /\ chan' = [chan EXCEPT !.length = 0]
           /\ writer = JustEof => writer' = << >> /\ chan' = [chan EXCEPT !.state = "eof"]
<1>1. /\ writer # << >> /\ writer' = Tail(writer) /\ reader' = reader
      /\ chan' = [chan EXCEPT ![Head(writer).field] = Head(writer).value]
    BY DEF Store
<1>2. ASSUME NEW f, NEW x, Head(writer) = [field |-> f, value |-> x]
      PROVE  chan' = [chan EXCEPT ![f] = x]
    <2>1. Head(writer).field = f /\ Head(writer).value = x
        BY <1>2
    <2> QED
        BY <1>1, <2>1, Zenon
<1>3. ASSUME NEW v, writer = AllOf(v)
      PROVE  writer' = LengthAndReady(v) /\ chan' = [chan EXCEPT !.bytes = v]
    <2>1. Head(writer) = [field |-> "bytes", value |-> v] /\ Tail(writer) = LengthAndReady(v)
        BY <1>3, StoresInTurn
    <2> QED
        BY <1>1, <1>2, <2>1, Zenon
<1>4. ASSUME NEW v, writer = LengthAndReady(v)
      PROVE  writer' = JustReady /\ chan' = [chan EXCEPT !.length = Len(v)]
    <2>1. Head(writer) = [field |-> "length", value |-> Len(v)] /\ Tail(writer) = JustReady
        BY <1>4, StoresInTurn
    <2> QED
        BY <1>1, <1>2, <2>1, Zenon
<1>5. ASSUME writer = JustReady
      PROVE  writer' = << >> /\ chan' = [chan EXCEPT !.state = "ready"]
    <2>1. Head(writer) = [field |-> "state", value |-> "ready"] /\ Tail(writer) = << >>
        BY <1>5, StoresInTurn
    <2> QED
        BY <1>1, <1>2, <2>1, Zenon
<1>6. ASSUME writer = LengthAndEof
      PROVE  writer' = JustEof /\ chan' = [chan EXCEPT !.length = 0]
    <2>1. Head(writer) = [field |-> "length", value |-> 0] /\ Tail(writer) = JustEof
        BY <1>6, StoresInTurn
    <2> QED
        BY <1>1, <1>2, <2>1, Zenon
<1>7. ASSUME writer = JustEof
      PROVE  writer' = << >> /\ chan' = [chan EXCEPT !.state = "eof"]
    <2>1. Head(writer) = [field |-> "state", value |-> "eof"] /\ Tail(writer) = << >>
        BY <1>7, StoresInTurn
    <2> QED
        BY <1>1, <1>2, <2>1, Zenon
<1> QED
    BY <1>1, <1>3, <1>4, <1>5, <1>6, <1>7

LEMMA StoreNextStep == ASSUME RunInv, StoreNext PROVE RunInv'
<1>1. /\ Store
      /\ UNCHANGED <<call, results, prompt, python, cpp, builder, prog, inbox, typed>>
    BY DEF StoreNext, pageVars, workerVars
<1>2. writer # << >> /\ reader' = reader
    BY <1>1, StoreOne
<1>3. writer' \in Writers /\ chan' \in [state: States, length: 0..Capacity, bytes: Seq(Nat)]
    <2>1. chan \in [state: States, length: 0..Capacity, bytes: Seq(Nat)] /\ writer \in Writers
        BY DEF RunInv, Typed
    <2>2. ASSUME NEW v \in Lines, writer = AllOf(v) PROVE <1>3
        BY <1>1, <2>1, <2>2, StoreOne, LineFits DEF Writers
    <2>3. ASSUME NEW v \in Lines, writer = LengthAndReady(v) PROVE <1>3
        BY <1>1, <2>1, <2>3, StoreOne, LineFits DEF Writers
    <2>4. CASE writer \in {JustReady, LengthAndEof, JustEof}
        BY <1>1, <2>1, <2>4, StoreOne, ChannelAssumption DEF Writers, States
    <2> QED
        BY <1>2, <2>1, <2>2, <2>3, <2>4 DEF Writers
<1>4. Typed'
    BY <1>1, <1>2, <1>3 DEF RunInv, Typed
<1>5. PhaseInv' /\ ReaderInv' /\ MessagesInv'
    BY <1>1, <1>2 DEF RunInv, PhaseInv, ReaderInv, MessagesInv, Outputs
<1>6. TalkInv'
    <2> SUFFICES ASSUME call.at = "case", ~call.aborted PROVE TalkInv'
        BY <1>1 DEF TalkInv
    <2>1. /\ reader = "wait" /\ prog.buf = << >>
          /\ \/ Quiet /\ LineGiven /\ LineUnderWay
             \/ Quiet /\ EofUnderWay /\ prog.got = Expected
        <3>1. reader \in {"no", "ask", "wait", "woken"}
            BY DEF RunInv, Typed
        <3> QED
            BY <1>2, <3>1 DEF RunInv, TalkInv, LineStored, EofStored, Unanswered
    <2>2. Quiet' /\ Expected' = Expected /\ LastLine' = LastLine /\ (LineGiven => LineGiven')
        BY <1>1, <2>1 DEF Quiet, Question, Expected, LastLine, LineGiven
    <2>3. chan \in [state: States, length: 0..Capacity, bytes: Seq(Nat)]
        BY DEF RunInv, Typed
    <2>4. LineUnderWay => LineUnderWay'
        <3>1. CASE writer = AllOf(LastLine) /\ chan.state = "waiting"
            BY <1>1, <2>2, <2>3, <3>1, StoreOne DEF LineUnderWay
        <3>2. CASE writer = LengthAndReady(LastLine) /\ chan.state = "waiting" /\ chan.bytes = LastLine
            BY <1>1, <2>2, <2>3, <3>2, StoreOne DEF LineUnderWay
        <3>3. CASE /\ writer = JustReady /\ chan.state = "waiting"
                   /\ chan.bytes = LastLine /\ chan.length = Len(LastLine)
            BY <1>1, <2>2, <2>3, <3>3, StoreOne DEF LineUnderWay, LineStored
        <3> QED
            BY <1>2, <3>1, <3>2, <3>3 DEF LineUnderWay, LineStored
    <2>5. EofUnderWay => EofUnderWay'
        BY <1>1, <1>2, <2>3, StoreOne DEF EofUnderWay, EofStored
    <2> QED
        BY <1>1, <1>2, <2>1, <2>2, <2>4, <2>5 DEF TalkInv
<1>7. ShownInv'
    BY <1>1, ShownKept DEF RunInv
<1> QED
    BY <1>4, <1>5, <1>6, <1>7 DEF RunInv

-----------------------------------------------------------------------------
(* The noted length, and the theorems.                                      *)

\* A later line is not shorter.
LEMMA LaterIsLonger ==
    ASSUME NEW m \in 1..MaxTyped, NEW n \in 1..MaxTyped, m <= n
    PROVE  Len(Fitting(Line(m))) <= Len(Fitting(Line(n)))
<1>1. Capacity \in Nat /\ m \in Nat /\ n \in Nat
    BY ChannelAssumption, RunsAssumption
<1> QED
    BY <1>1, LineGrows

\* The channel and what was typed: unchanged, or only the state of the header.
LEMMA SizeKept ==
    ASSUME SizeInv, chan'.length = chan.length, chan'.bytes = chan.bytes,
           UNCHANGED <<writer, typed>>
    PROVE  SizeInv'
BY DEF SizeInv, NoLonger

LEMMA SizeAtFresh ==
    ASSUME chan' = Fresh, writer' = << >>
    PROVE  SizeInv'
<1>1. chan'.length = 0 /\ Len(chan'.bytes) = 0
    BY EmptySeq DEF Fresh
<1>2. \A v : writer' # AllOf(v) /\ writer' # LengthAndReady(v)
    BY StoresInTurn
<1>3. \A n \in 1..MaxTyped : Len(Fitting(Line(n))) >= 0
    <2> TAKE n \in 1..MaxTyped
    <2> QED
        BY LineGrows, RunsAssumption, ChannelAssumption
<1> QED
    BY <1>1, <1>2, <1>3 DEF SizeInv, NoLonger

LEMMA NextCaseSize ==
    ASSUME SizeInv, NEW c, NEW py, NextCase(c, py), writer = << >>, writer' = << >>
    PROVE  SizeInv'
<1>1. CASE Finish(c, py)
    BY <1>1, SizeKept DEF Finish
<1>2. CASE Begin(c, py)
    BY <1>2, SizeAtFresh DEF Begin
<1> QED
    BY <1>1, <1>2 DEF NextCase

LEMMA CloseSize ==
    ASSUME SizeInv, chan' = chan, writer' = LengthAndEof, typed' = typed
    PROVE  SizeInv'
BY StoresDiffer DEF SizeInv, NoLonger

LEMMA SendInputSize == ASSUME RunInv, SizeInv, SendInput PROVE SizeInv'
<1> DEFINE n == Len(typed) + 1
<1> DEFINE v == Fitting(Line(n))
<1>1. /\ n <= MaxTyped /\ chan' = chan /\ typed' = Append(typed, v) /\ writer' = AllOf(v)
    BY DEF SendInput, ProvideStdin, Stores, AllOf
<1>2. typed \in Seq(Lines) /\ Len(typed) \in Nat /\ n \in 1..MaxTyped /\ v \in Lines
    <2>1. typed \in Seq(Lines) /\ Len(typed) \in Nat
        BY LenProperties DEF RunInv, Typed
    <2>2. n \in 1..MaxTyped
        BY <1>1, <2>1, RunsAssumption
    <2> QED
        BY <2>1, <2>2 DEF Lines
<1>3. Len(typed') = n
    BY <1>1, <1>2, AppendProperties
<1>4. chan.length \in Nat /\ Len(v) \in Nat
    BY <1>2, LineFits, ChannelAssumption DEF RunInv, Typed
<1>5. chan.length <= Len(v)
    BY <1>2 DEF SizeInv, NoLonger
<1>6. \A m \in 1..MaxTyped : n < m => Len(v) <= Len(Fitting(Line(m)))
    BY <1>2, LaterIsLonger, RunsAssumption
<1>7. \A m \in 1..MaxTyped : n < m => Len(typed) < m
    BY <1>2, RunsAssumption
<1> HIDE DEF v, n
<1>8. /\ \A m \in 1..MaxTyped : Len(typed') < m => chan'.length <= Len(Fitting(Line(m)))
      /\ \A m \in 1..MaxTyped : Len(typed') < m => Len(v) <= Len(Fitting(Line(m)))
    <2>1. \A m \in 1..MaxTyped : Len(typed) < m => chan.length <= Len(Fitting(Line(m)))
        BY DEF SizeInv, NoLonger
    <2> QED
        BY <1>1, <1>3, <1>6, <1>7, <2>1
<1>9. \A w \in Lines : writer' = AllOf(w) => w = v
    BY <1>1, SameLine
<1>10. \A w \in Lines : writer' # LengthAndReady(w)
    BY <1>1, OtherStores
<1>11. chan'.length <= Len(chan'.bytes) /\ chan'.length <= Len(v)
    BY <1>1, <1>5 DEF SizeInv
<1> QED
    BY <1>8, <1>9, <1>10, <1>11 DEF SizeInv, NoLonger

LEMMA StoreNextSize == ASSUME RunInv, SizeInv, StoreNext PROVE SizeInv'
<1>1. Store /\ typed' = typed
    BY DEF StoreNext
<1>2. chan \in [state: States, length: 0..Capacity, bytes: Seq(Nat)] /\ writer \in Writers
    BY DEF RunInv, Typed
<1>3. ASSUME NEW v \in Lines, writer = AllOf(v) PROVE SizeInv'
    <2>1. writer' = LengthAndReady(v) /\ chan' = [chan EXCEPT !.bytes = v]
        BY <1>1, <1>3, StoreOne
    <2>2. chan'.bytes = v /\ chan'.length = chan.length
        BY <1>2, <2>1
    <2>3. \A w \in Lines : writer' # AllOf(w)
        BY <2>1, OtherStores
    <2>4. \A w \in Lines : writer' = LengthAndReady(w) => Len(w) = Len(v)
        BY <2>1, SameLength
    <2>5. chan.length <= Len(v) /\ NoLonger(Len(v)) /\ NoLonger(chan.length)
        BY <1>3 DEF SizeInv
    <2> QED
        BY <1>1, <2>2, <2>3, <2>4, <2>5 DEF SizeInv, NoLonger
<1>4. ASSUME NEW v \in Lines, writer = LengthAndReady(v) PROVE SizeInv'
    <2>1. writer' = JustReady /\ chan' = [chan EXCEPT !.length = Len(v)]
        BY <1>1, <1>4, StoreOne
    <2>2. chan'.bytes = chan.bytes /\ chan'.length = Len(v)
        BY <1>2, <2>1
    <2>3. \A w \in Lines : writer' # AllOf(w) /\ writer' # LengthAndReady(w)
        BY <2>1, StoresDiffer, Zenon
    <2>4. Len(chan.bytes) = Len(v) /\ NoLonger(Len(v)) /\ Len(v) \in Nat
        BY <1>4, LineFits, ChannelAssumption DEF SizeInv
    <2> QED
        BY <1>1, <2>2, <2>3, <2>4 DEF SizeInv, NoLonger
<1>5. CASE writer = LengthAndEof
    <2>1. writer' = JustEof /\ chan' = [chan EXCEPT !.length = 0]
        BY <1>1, <1>5, StoreOne
    <2>2. chan'.bytes = chan.bytes /\ chan'.length = 0
        BY <1>2, <2>1
    <2>3. \A w \in Lines : writer' # AllOf(w) /\ writer' # LengthAndReady(w)
        BY <2>1, StoresDiffer, Zenon
    <2>4. Len(chan.bytes) \in Nat
        BY <1>2, LenProperties
    <2>5. \A n \in 1..MaxTyped : Len(Fitting(Line(n))) >= 0
        <3> TAKE n \in 1..MaxTyped
        <3> QED
            BY LineGrows, RunsAssumption, ChannelAssumption
    <2> QED
        BY <2>2, <2>3, <2>4, <2>5 DEF SizeInv, NoLonger
<1>6. CASE writer \in {JustReady, JustEof}
    <2>1. writer' = << >> /\ chan'.bytes = chan.bytes /\ chan'.length = chan.length
        BY <1>1, <1>2, <1>6, StoreOne
    <2>2. \A v : writer' # AllOf(v) /\ writer' # LengthAndReady(v)
        BY <2>1, StoresInTurn
    <2> QED
        BY <1>1, <2>1, <2>2 DEF SizeInv, NoLonger
<1>7. writer # << >>
    BY <1>1, StoreOne
<1> QED
    BY <1>2, <1>3, <1>4, <1>5, <1>6, <1>7 DEF Writers

LEMMA SizeStep == ASSUME RunInv, SizeInv, [Next]_vars PROVE SizeInv'
<1>0. chan \in [state: States, length: 0..Capacity, bytes: Seq(Nat)]
    BY DEF RunInv, Typed
<1>1. ASSUME NEW lang \in Languages, NEW live \in BOOLEAN, NEW pch \in BOOLEAN, Run(lang, live, pch)
      PROVE  SizeInv'
    <2>1. writer = << >> /\ writer' = writer
        BY <1>1 DEF Run, PageFree
    <2>2. CASE lang = "cpp"
        <3>1. chan' = chan /\ typed' = typed
            BY <1>1, <2>2 DEF Run, RunCpp
        <3> QED
            BY <2>1, <3>1, SizeKept
    <2>3. CASE lang # "cpp"
        BY <1>1, <2>1, <2>3, NextCaseSize DEF Run
    <2> QED
        BY <2>2, <2>3
<1>2. ASSUME NEW kind, NEW c, NEW py, PageFree, Settle(kind, c, py) PROVE SizeInv'
    BY <1>2, NextCaseSize DEF Settle, PageFree
<1>3. CASE StopCase \/ TimeOut \/ WorkerError \/ Ended
    BY <1>2, <1>3 DEF StopCase, TimeOut, WorkerError, Ended
<1>4. CASE StopOnly
    BY <1>4, CloseSize, SizeKept DEF StopOnly, CloseStdin, LengthAndEof, channelVars
<1>5. CASE SendInput
    BY <1>5, SendInputSize
<1>6. CASE EndInput
    BY <1>6, CloseSize DEF EndInput, CloseStdin, LengthAndEof
<1>7. CASE Clear \/ PythonReady \/ CppReady \/ BootFailed \/ NotBuilt \/ Output \/ NeedsInput
    BY <1>7, SizeKept DEF Clear, PythonReady, CppReady, BootFailed, NotBuilt, Output, NeedsInput, channelVars
<1>8. CASE Built
    BY <1>8, NextCaseSize DEF Built, Message, PageFree
<1>9. CASE Boot \/ Compile \/ Link \/ Load \/ Write \/ Read \/ End
    BY <1>9, SizeKept DEF Boot, Compile, Link, Load, Write, Read, End, channelVars
<1>10. CASE ReadMore \/ ReadLine
    <2>1. \E x : chan' = [chan EXCEPT !.state = x]
        BY <1>10 DEF ReadMore, Ask, ReadLine, Take
    <2>2. chan'.length = chan.length /\ chan'.bytes = chan.bytes
        BY <1>0, <2>1
    <2> QED
        BY <1>10, <2>2, SizeKept DEF ReadMore, Ask, ReadLine, Take
<1>11. CASE OnWait \/ WakeUp \/ ReadNothing
    BY <1>11, SizeKept DEF OnWait, Told, WakeUp, Wake, ReadNothing, EndOfInput
<1>12. CASE StoreNext
    BY <1>12, StoreNextSize
<1>13. CASE UNCHANGED vars
    BY <1>13, SizeKept DEF vars, channelVars
<1> QED
    BY <1>1, <1>3, <1>4, <1>5, <1>6, <1>7, <1>8, <1>9, <1>10, <1>11, <1>12, <1>13
       DEF Next, User, Page, Workers

LEMMA RunInvStep == ASSUME RunInv, SizeInv, [Next]_vars PROVE RunInv'
<1>1. CASE \E lang \in Languages, live, pch \in BOOLEAN : Run(lang, live, pch)
    BY <1>1, RunStep
<1>2. CASE StopCase \/ TimeOut \/ WorkerError
    BY <1>2, SettledStep
<1>3. CASE StopOnly
    BY <1>3, StopOnlyStep
<1>4. CASE SendInput
    BY <1>4, SendInputStep
<1>5. CASE EndInput
    BY <1>5, EndInputStep
<1>6. CASE Clear
    BY <1>6, ClearStep
<1>7. CASE PythonReady
    BY <1>7, PythonReadyStep
<1>8. CASE CppReady
    BY <1>8, CppReadyStep
<1>9. CASE BootFailed
    BY <1>9, BootFailedStep
<1>10. CASE NotBuilt
    BY <1>10, NotBuiltStep
<1>11. CASE Built
    BY <1>11, BuiltStep
<1>12. CASE Output
    BY <1>12, OutputStep
<1>13. CASE NeedsInput
    BY <1>13, NeedsInputStep
<1>14. CASE Ended
    BY <1>14, EndedStep
<1>15. CASE Boot \/ Compile \/ Link
    BY <1>15, AnswerStep
<1>16. CASE Load
    BY <1>16, LoadStep
<1>17. CASE Write
    BY <1>17, WriteStep
<1>18. CASE Read
    BY <1>18, ReadStep
<1>19. CASE ReadMore
    BY <1>19, ReadMoreStep
<1>20. CASE OnWait
    BY <1>20, OnWaitStep
<1>21. CASE WakeUp
    BY <1>21, WakeUpStep
<1>22. CASE ReadNothing
    BY <1>22, ReadNothingStep
<1>23. CASE ReadLine
    BY <1>23, ReadLineStep
<1>24. CASE End
    BY <1>24, EndStep
<1>25. CASE StoreNext
    BY <1>25, StoreNextStep
<1>26. CASE UNCHANGED vars
    <2>1. UNCHANGED <<chan, writer, reader, call, results, prompt, python, cpp, builder, prog, inbox, typed>>
        BY <1>26 DEF vars, channelVars, pageVars, workerVars
    <2>2. Typed' /\ PhaseInv' /\ ReaderInv'
        BY <2>1 DEF RunInv, Typed, PhaseInv, ReaderInv
    <2>3. MessagesInv'
        BY <2>1 DEF RunInv, MessagesInv, Outputs
    <2>4. TalkInv'
        BY <2>1 DEF RunInv, TalkInv, Quiet, Question, OneQuestion, Expected, LastLine, Unanswered, LineGiven,
                    LineStored, LineUnderWay, EofStored, EofUnderWay
    <2>5. ShownInv'
        BY <2>1, ShownKept DEF RunInv
    <2> QED
        BY <2>2, <2>3, <2>4, <2>5 DEF RunInv
<1> QED
    BY <1>1, <1>2, <1>3, <1>4, <1>5, <1>6, <1>7, <1>8, <1>9, <1>10, <1>11, <1>12, <1>13, <1>14,
       <1>15, <1>16, <1>17, <1>18, <1>19, <1>20, <1>21, <1>22, <1>23, <1>24, <1>25, <1>26
       DEF Next, User, Page, Workers

LEMMA RunInvInit == Init => RunInv /\ SizeInv
<1> SUFFICES ASSUME Init PROVE RunInv /\ SizeInv
    OBVIOUS
<1>1. Cases \in Nat \ {0} /\ Capacity \in Nat \ {0} /\ 0 \in 0..Cases /\ 0 \in 0..Capacity
    BY RunsAssumption, ChannelAssumption
<1>2. << >> \in Seq(Nat) /\ << >> \in Seq([kind: Kinds]) /\ << >> \in Seq(Lines)
    BY EmptySeq
<1>3. /\ chan = Fresh /\ writer = << >> /\ reader = "no"
      /\ call = [no |-> 0, at |-> "idle", lang |-> "cpp", pch |-> FALSE,
                 live |-> FALSE, k |-> 0, aborted |-> FALSE]
      /\ results = << >> /\ prompt = 0 /\ python = "none" /\ cpp = [at |-> "none", pch |-> FALSE]
      /\ builder = "none" /\ prog = NoProgram /\ inbox = << >> /\ typed = << >>
    BY DEF Init, ChannelInit
<1>4. Typed
    <2>1. chan \in [state: States, length: 0..Capacity, bytes: Seq(Nat)]
        BY <1>1, <1>2, <1>3 DEF Fresh, States
    <2>2. call \in Calls
        <3>1. \A b \in BOOLEAN : [no |-> 0, at |-> "idle", lang |-> "cpp", pch |-> b,
                                  live |-> b, k |-> 0, aborted |-> b] \in Calls
            BY <1>1 DEF Calls, Phases, Languages
        <3> QED
            BY <1>3, <3>1, Zenon
    <2>3. prog \in Programs
        BY <1>2, <1>3 DEF NoProgram, Programs
    <2>4. cpp \in [at: Runtimes, pch: BOOLEAN]
        <3>1. \A b \in BOOLEAN : [at |-> "none", pch |-> b] \in [at: Runtimes, pch: BOOLEAN]
            BY DEF Runtimes
        <3> QED
            BY <1>3, <3>1, Zenon
    <2> QED
        BY <1>1, <1>2, <1>3, <2>1, <2>2, <2>3, <2>4 DEF Typed, Writers, Runtimes
<1>5. PhaseInv /\ ReaderInv /\ MessagesInv /\ TalkInv
    BY <1>3 DEF PhaseInv, ReaderInv, MessagesInv, TalkInv, NoProgram
<1>6. ShownInv
    <2>1. DOMAIN results = {}
        BY <1>3
    <2> QED
        BY <2>1 DEF ShownInv, OnePerCase, FinishedIsComplete
<1>7. SizeInv
    <2>1. chan.length = 0 /\ Len(chan.bytes) = 0
        BY <1>3, EmptySeq DEF Fresh
    <2>2. \A v : writer # AllOf(v) /\ writer # LengthAndReady(v)
        BY <1>3, StoresInTurn
    <2>3. \A n \in 1..MaxTyped : Len(Fitting(Line(n))) >= 0
        <3> TAKE n \in 1..MaxTyped
        <3> QED
            BY LineGrows, RunsAssumption, ChannelAssumption
    <2> QED
        BY <2>1, <2>2, <2>3 DEF SizeInv, NoLonger
<1> QED
    BY <1>4, <1>5, <1>6, <1>7 DEF RunInv

LEMMA RunInvariant == Spec => [](RunInv /\ SizeInv)
<1>1. RunInv /\ SizeInv /\ [Next]_vars => (RunInv /\ SizeInv)'
    BY RunInvStep, SizeStep
<1> QED
    BY <1>1, RunInvInit, PTL DEF Spec

\* What is shown changes only as a case is settled, or is cleared.
LEMMA ShownChanges ==
    ASSUME [Next]_vars
    PROVE  \/ UNCHANGED <<results, away>>
           \/ results' = << >> /\ away' \in BOOLEAN
           \/ \E kind, c, py : Settle(kind, c, py)
<1>1. CASE StopCase \/ TimeOut \/ WorkerError \/ Ended
    BY <1>1 DEF StopCase, TimeOut, WorkerError, Ended
<1>2. CASE Clear
    BY <1>2 DEF Clear
<1>3. ASSUME NEW lang \in Languages, NEW live \in BOOLEAN, NEW pch \in BOOLEAN,
             Run(lang, live, pch)
      PROVE  results' = << >> /\ away' \in BOOLEAN
    BY <1>3 DEF Run
<1>4. CASE StopOnly \/ SendInput \/ EndInput
    BY <1>4 DEF StopOnly, SendInput, EndInput
<1>5. CASE PythonReady \/ CppReady \/ BootFailed \/ NotBuilt \/ Built \/ Output \/ NeedsInput
    BY <1>5 DEF PythonReady, CppReady, BootFailed, NotBuilt, Built, Output, NeedsInput, pageVars
<1>6. CASE Boot \/ Compile \/ Link \/ Load \/ Write \/ Read \/ ReadMore \/ OnWait \/ WakeUp
           \/ ReadNothing \/ ReadLine \/ End \/ StoreNext
    BY <1>6 DEF Boot, Compile, Link, Load, Write, Read, ReadMore, OnWait, WakeUp, ReadNothing,
                ReadLine, End, StoreNext, pageVars
<1>7. CASE UNCHANGED vars
    BY <1>7 DEF vars, pageVars
<1> QED
    BY <1>1, <1>2, <1>3, <1>4, <1>5, <1>6, <1>7 DEF Next, User, Page, Workers

LEMMA AwayStep ==
    ASSUME AwayInv, [Next]_vars
    PROVE  AwayInv'
<1>1. CASE UNCHANGED <<results, away>>
    BY <1>1 DEF AwayInv
<1>2. CASE results' = << >> /\ away' \in BOOLEAN
    <2>1. DOMAIN results' = {}
        BY <1>2
    <2> QED
        BY <1>2, <2>1 DEF AwayInv
<1>3. ASSUME NEW kind, NEW c, NEW py, Settle(kind, c, py)
      PROVE  AwayInv'
    <2> DEFINE shown == [no |-> c.no, failed |-> kind # "finished",
                         unseen |-> prog.wrote - prog.seen, late |-> away]
    <2>1. /\ results' = [i \in DOMAIN results \cup {c.k} |-> IF i # c.k THEN results[i] ELSE shown]
          /\ away' = away
        BY <1>3 DEF Settle
    <2>2. shown.late = away
        OBVIOUS
    <2> HIDE DEF shown
    <2>3. ASSUME NEW i \in DOMAIN results'
          PROVE  away = results'[i].late
        BY <2>1, <2>2 DEF AwayInv
    <2> QED
        BY <2>1, <2>3 DEF AwayInv
<1> QED
    BY <1>1, <1>2, <1>3, ShownChanges

LEMMA AwayInvariant == Spec => []AwayInv
<1>1. Init => AwayInv
    <2> SUFFICES ASSUME Init PROVE AwayInv
        OBVIOUS
    <2>1. away = FALSE /\ results = << >>
        BY DEF Init
    <2>2. DOMAIN results = {}
        BY <2>1
    <2> QED
        BY <2>1, <2>2 DEF AwayInv
<1>2. AwayInv /\ [Next]_vars => AwayInv'
    BY AwayStep
<1> QED
    BY <1>1, <1>2, PTL DEF Spec

\* The page, the runtimes and the reader are where useRun.ts lets them be: a build
\* is made with the header the run asked for, an executing Python has booted, and a
\* blocked reader is a live program.
THEOREM RunTypes == Spec => []TypeOK
<1>1. RunInv /\ AwayInv => TypeOK
    <2> SUFFICES ASSUME RunInv, AwayInv PROVE TypeOK
        OBVIOUS
    <2>1. /\ chan \in [state: States, length: 0..Capacity, bytes: Seq(Nat)]
          /\ reader \in {"no", "ask", "wait", "woken"} /\ prompt \in 0..Cases
          /\ call.at \in Phases /\ call.k \in 0..Cases
        BY DEF RunInv, Typed, Calls
    <2> QED
        BY <2>1 DEF RunInv, AwayInv, PhaseInv, ReaderInv, TypeOK, Phases
<1> QED
    BY <1>1, RunInvariant, AwayInvariant, PTL

\* What a program has read and what it has left to read is the test's input and
\* then every line typed for the case, each whole and once, however the page's
\* stores and the worker's loads interleave (stdin-channel.ts 51-90).
THEOREM InputIsConserved == Spec => []InputConserved
<1>1. RunInv => InputConserved
    <2> SUFFICES ASSUME RunInv, prog.at = "run", ~call.aborted
                 PROVE  prog.got \o prog.buf = Preload(call.lang) \o FlattenSeq(typed)
        BY DEF InputConserved
    <2>1. call.at = "case" /\ reader = "no"
        BY Executing DEF RunInv, ReaderInv
    <2> QED
        BY <2>1 DEF RunInv, TalkInv, Expected
<1> QED
    BY <1>1, RunInvariant, PTL

\* What the user types while a prompt is there reaches the program that asked for
\* it: the case is the one under way, its reader is blocked, and nobody has
\* answered yet (useRun.ts 82-90, 138-142, 179-188).
THEOREM PromptBelongsToItsReader == Spec => []PromptIsCurrent
<1>1. RunInv => PromptIsCurrent
    <2> SUFFICES ASSUME RunInv, prompt # 0, ~call.aborted
                 PROVE  /\ call.at = "case" /\ prompt = call.k
                        /\ reader = "wait" /\ chan.state = "waiting" /\ PageFree
        BY DEF PromptIsCurrent
    <2>1. call.at = "case" /\ prompt = call.k /\ reader = "wait" /\ Unanswered
        BY PromptWaits
    <2> QED
        BY <2>1 DEF Unanswered, PageFree
<1> QED
    BY <1>1, RunInvariant, PTL

\* What is shown is of the latest run and of cases of it that are over, and was recorded
\* since the problem that is open was opened (useRun.ts 92-94, 143, 191, 213, App.tsx 53-57).
THEOREM ShownOfThisRun == Spec => []ResultsOfThisRun
<1>1. RunInv /\ AwayInv => ResultsOfThisRun
    BY DEF RunInv, ShownInv, OnePerCase, AwayInv, ResultsOfThisRun
<1> QED
    BY <1>1, RunInvariant, AwayInvariant, PTL

\* No output of a finished case is lost: what a program writes is posted before
\* what ends it, and the page handles messages in order (runtime-python client.ts 108-119).
THEOREM FinishedShowsAll == Spec => []FinishedIsComplete
<1>1. RunInv => FinishedIsComplete
    BY DEF RunInv, ShownInv
<1> QED
    BY <1>1, RunInvariant, PTL

\* After a stop no further case of the run begins, wherever the stop came (useRun.ts
\* 127, 166, 233-239).
THEOREM StopEndsTheRun == Spec => StopIsFinal
<1>1. ASSUME RunInv, [Next]_vars, call.aborted, call'.no = call.no PROVE call'.k = call.k
    <2>0. call \in Calls /\ call.no \in Nat
        <3>1. call \in Calls
            BY <1>1 DEF RunInv, Typed
        <3> QED
            BY <3>1 DEF Calls
    <2>1. ASSUME NEW c \in Calls, NEW py, c.aborted, NextCase(c, py) PROVE call'.k = c.k
        BY <2>1 DEF NextCase, Finish, Calls
    <2>2. ASSUME NEW lang \in Languages, NEW live \in BOOLEAN, NEW pch \in BOOLEAN, Run(lang, live, pch)
          PROVE  FALSE
        <3> DEFINE c == [no |-> call.no + 1, at |-> "idle", lang |-> lang, pch |-> pch,
                         live |-> live, k |-> 0, aborted |-> FALSE]
        <3>1. IF lang = "cpp" THEN RunCpp(c) ELSE NextCase(c, python)
            BY <2>2 DEF Run
        <3>2. c.no = call.no + 1 /\ c = [no |-> c.no, at |-> c.at, lang |-> c.lang, pch |-> c.pch,
                                        live |-> c.live, k |-> c.k, aborted |-> c.aborted]
            OBVIOUS
        <3> HIDE DEF c
        <3>3. call'.no = call.no + 1
            BY <3>1, <3>2 DEF RunCpp, NextCase, Finish, Begin
        <3> QED
            BY <1>1, <2>0, <3>3
    <2>3. CASE StopCase
        BY <1>1, <2>3 DEF StopCase
    <2>4. CASE TimeOut \/ WorkerError \/ Ended \/ Built
        BY <1>1, <2>0, <2>1, <2>4 DEF TimeOut, WorkerError, Ended, Built, Settle
    <2>5. CASE StopOnly \/ PythonReady \/ CppReady \/ BootFailed \/ NotBuilt
        BY <2>0, <2>5 DEF StopOnly, PythonReady, CppReady, BootFailed, NotBuilt, Calls
    <2>6. CASE SendInput \/ EndInput \/ Clear \/ Output \/ NeedsInput
        BY <2>6 DEF SendInput, EndInput, Clear, Output, NeedsInput, pageVars
    <2>7. CASE Boot \/ Compile \/ Link \/ Load \/ Write \/ Read \/ ReadMore \/ OnWait \/ WakeUp
               \/ ReadNothing \/ ReadLine \/ End \/ StoreNext
        BY <2>7 DEF Boot, Compile, Link, Load, Write, Read, ReadMore, OnWait, WakeUp, ReadNothing,
                    ReadLine, End, StoreNext, pageVars
    <2>8. CASE UNCHANGED vars
        BY <2>8 DEF vars, pageVars
    <2> QED
        BY <1>1, <2>2, <2>3, <2>4, <2>5, <2>6, <2>7, <2>8 DEF Next, User, Page, Workers
<1>2. RunInv /\ [Next]_vars => [call.aborted /\ call'.no = call.no => call'.k = call.k]_vars
    BY <1>1
<1> QED
    BY <1>2, RunInvariant, PTL DEF Spec, StopIsFinal

=============================================================================
