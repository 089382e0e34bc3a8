-------------------------- MODULE ChunkQueueProofs --------------------------
(***************************************************************************)
(* What the audit of chain.ts says of rows of a queue whose chain is       *)
(* honest: that they verify when they are the first ones without a gap,    *)
(* and that the first row is missing that is not among them.  Nothing is   *)
(* assumed of the hash.                                                    *)
(***************************************************************************)
EXTENDS ChunkQueue, DataProofs

-----------------------------------------------------------------------------
(* Intervals.                                                               *)

\* The k-th number of 0..n-1 has k numbers below it.
LEMMA RankOfInterval ==
    ASSUME NEW n \in Nat, NEW k \in 0..(n-1)
    PROVE  Rank(0..(n-1), k) = k
<1>1. {j \in 0..(n-1) : j < k} = 0..(k-1)
    OBVIOUS
<1>2. Cardinality(0..(k-1)) = k
    BY FS_Interval
<1> QED
    BY <1>1, <1>2 DEF Rank

\* The rows of a gapless store, oldest first, are its rows in order of seq.
LEMMA AscendingInterval ==
    ASSUME NEW n \in Nat
    PROVE  Ascending(0..(n-1)) = [i \in 1..n |-> i - 1]
<1>1. Cardinality(0..(n-1)) = n
    BY FS_Interval
<1>2. ASSUME NEW i \in 1..n
      PROVE  (CHOOSE k \in 0..(n-1) : Rank(0..(n-1), k) = i - 1) = i - 1
    <2>1. i - 1 \in 0..(n-1)
        OBVIOUS
    <2>2. \A k \in 0..(n-1) : Rank(0..(n-1), k) = k
        BY RankOfInterval
    <2> QED
        BY <2>1, <2>2
<1> QED
    BY <1>1, <1>2 DEF Ascending

\* There are m numbers below m, ...
LEMMA CardinalityBelow ==
    ASSUME NEW m \in Nat
    PROVE  IsFiniteSet(0..(m-1)) /\ Cardinality(0..(m-1)) = m
BY FS_Interval

\* ... and m numbers from 1 to m.
LEMMA CardinalityOneTo ==
    ASSUME NEW m \in Nat
    PROVE  Cardinality(1..m) = m
BY FS_Interval

\* The highest number of a non-empty 0..n-1.
LEMMA MaxOfInterval ==
    ASSUME NEW n \in Nat, n > 0
    PROVE  Max(0..(n-1)) = n - 1
<1>1. n - 1 \in 0..(n-1) /\ \A j \in 0..(n-1) : n - 1 >= j
    OBVIOUS
<1> QED
    BY <1>1 DEF Max

-----------------------------------------------------------------------------
(* The chain of the queue.                                                  *)

\* The store holds the rows 0..n-1, each hashed and linked to the one below.
Gapless == \E n \in Nat : DOMAIN chunks = 0..(n-1)

Linked ==
    \A k \in DOMAIN chunks :
        /\ chunks[k].seq = k
        /\ chunks[k].hash = Hash(Canonical(chunks[k]))
        /\ chunks[k].prevHash = IF k = 0 THEN NoHash ELSE chunks[k-1].hash

\* The next number of a gapless store is its size, and the last hash is that of
\* the row below it.
LEMMA EndOfQueue ==
    ASSUME NEW n \in Nat, DOMAIN chunks = 0..(n-1)
    PROVE  /\ NextSeq = n
           /\ LastHash = IF n = 0 THEN NoHash ELSE chunks[n-1].hash
<1>1. CASE n = 0
    BY <1>1 DEF NextSeq, LastHash
<1>2. CASE n > 0
    <2>1. DOMAIN chunks # {} /\ Max(DOMAIN chunks) = n - 1
        BY <1>2, MaxOfInterval
    <2>2. NextSeq = n
        BY <1>2, <2>1 DEF NextSeq
    <2>3. LastHash = chunks[n - 1].hash
        BY <2>1 DEF LastHash
    <2> QED
        BY <1>2, <2>2, <2>3
<1> QED
    BY <1>1, <1>2

\* A chunk sealed with the next number and the last hash continues the chain.
LEMMA AppendLinks ==
    ASSUME Gapless, Linked, NEW chunk, AppendChunk(chunk),
           chunk.seq = NextSeq, chunk.prevHash = LastHash, chunk.hash = Hash(Canonical(chunk))
    PROVE  Gapless' /\ Linked'
<1>1. PICK n \in Nat : DOMAIN chunks = 0..(n-1)
    BY DEF Gapless
<1>2. /\ chunk.seq = n
      /\ chunk.prevHash = IF n = 0 THEN NoHash ELSE chunks[n-1].hash
    BY <1>1, EndOfQueue
<1>3. 0..(n-1) \cup {n} = 0..n
    OBVIOUS
<1>4. chunks' = [k \in 0..n |-> IF k = n THEN chunk ELSE chunks[k]]
    BY <1>1, <1>2, <1>3 DEF AppendChunk
<1>5. Gapless'
    <2>1. n + 1 \in Nat /\ DOMAIN chunks' = 0..((n+1)-1)
        BY <1>4
    <2> QED
        BY <2>1 DEF Gapless
<1>6. Linked'
    <2> SUFFICES ASSUME NEW k \in 0..n
                 PROVE  /\ chunks'[k].seq = k
                        /\ chunks'[k].hash = Hash(Canonical(chunks'[k]))
                        /\ chunks'[k].prevHash = IF k = 0 THEN NoHash ELSE chunks'[k-1].hash
        BY <1>4 DEF Linked
    <2>1. CASE k = n
        <3>1. chunks'[k] = chunk /\ (k # 0 => chunks'[k-1] = chunks[k-1])
            BY <1>4, <2>1
        <3> QED
            BY <1>2, <2>1, <3>1
    <2>2. CASE k # n
        <3>1. /\ k \in DOMAIN chunks
              /\ chunks'[k] = chunks[k]
              /\ k # 0 => chunks'[k-1] = chunks[k-1]
            BY <1>1, <1>4, <2>2
        <3> QED
            BY <3>1 DEF Linked
    <2> QED
        BY <2>1, <2>2
<1> QED
    BY <1>5, <1>6

-----------------------------------------------------------------------------
(* The audit's order.                                                       *)

\* Rows presented in any order, none of them twice, are put back in order of seq.
LEMMA OrderedRows ==
    ASSUME Linked, DOMAIN chunks \in SUBSET Nat,
           NEW n \in Nat, NEW q \in [1..n -> DOMAIN chunks],
           \A i, j \in 1..n : i # j => q[i] # q[j]
    PROVE  LET S == {q[i] : i \in 1..n}
           IN  /\ IsFiniteSet(S) /\ Cardinality(S) = n
               /\ Ordered([i \in 1..n |-> chunks[q[i]]]) = Rows(S)
<1> DEFINE S == {q[i] : i \in 1..n}
<1> DEFINE cs == [i \in 1..n |-> chunks[q[i]]]
<1>1. S \in SUBSET Nat
    OBVIOUS
<1>2. IsFiniteSet(1..n) /\ Cardinality(1..n) = n
    BY FS_Interval
<1>3. q \in Bijection(1..n, S)
    BY DEF Bijection, Injection, Surjection, IsInjective
<1>4. IsFiniteSet(S) /\ Cardinality(S) = n
    BY <1>2, <1>3, FS_Bijection DEF ExistsBijection
<1>5. Len(cs) = n /\ DOMAIN cs = 1..n
    OBVIOUS
<1>6. \A i \in 1..n : cs[i].seq = q[i]
    BY DEF Linked
<1> HIDE DEF S
<1>7. ASSUME NEW i \in 1..n
      PROVE  Place(cs, i) = Rank(S, q[i])
    <2> DEFINE T == {j \in 1..n : q[j] < q[i]}
    <2> DEFINE B == {k \in S : k < q[i]}
    <2> DEFINE f == [j \in T |-> q[j]]
    <2>1. {j \in DOMAIN cs : \/ cs[j].seq < cs[i].seq
                             \/ cs[j].seq = cs[i].seq /\ j < i} = T
        <3>1. \A j \in 1..n : q[j] \in Nat /\ (j < i => j # i)
            BY <1>1
        <3> HIDE DEF cs
        <3> QED
            BY <1>5, <1>6, <3>1
    <2>2. T \in SUBSET (1..n) /\ IsFiniteSet(T)
        BY <1>2, FS_Subset
    <2>3. f \in Bijection(T, B)
        <3>1. f \in [T -> B]
            BY DEF S
        <3>2. \A a, b \in T : f[a] = f[b] => a = b
            OBVIOUS
        <3>3. \A k \in B : \E a \in T : f[a] = k
            BY DEF S
        <3> HIDE DEF T, B, f
        <3> QED
            BY <3>1, <3>2, <3>3 DEF Bijection, Injection, Surjection, IsInjective
    <2>4. Cardinality(T) = Cardinality(B)
        BY <2>2, <2>3, FS_Bijection DEF ExistsBijection
    <2> QED
        BY <2>1, <2>4 DEF Place, Rank
<1> HIDE DEF cs
<1>8. ASSUME NEW k \in 1..n
      PROVE  cs[CHOOSE i \in DOMAIN cs : Place(cs, i) = k - 1] = chunks[Ascending(S)[k]]
    <2>1. k - 1 \in 0..(Cardinality(S) - 1)
        BY <1>4
    <2>2. PICK s \in S : Rank(S, s) = k - 1
        BY <1>1, <1>4, <2>1, RankOnto
    <2>3. \A t \in S : Rank(S, t) = k - 1 => t = s
        BY <1>1, <1>4, <2>2, RankOneToOne
    <2>4. Ascending(S)[k] = s
        BY <1>4, <2>2, <2>3 DEF Ascending
    <2>5. PICK i \in 1..n : q[i] = s
        BY DEF S
    <2>6. Place(cs, i) = k - 1
        BY <1>7, <2>2, <2>5
    <2>7. \A j \in 1..n : Place(cs, j) = k - 1 => q[j] = s
        BY <1>7, <2>3 DEF S
    <2>8. (CHOOSE j \in DOMAIN cs : Place(cs, j) = k - 1) \in {j \in 1..n : q[j] = s}
        BY <1>5, <2>6, <2>7
    <2> QED
        BY <2>4, <2>8 DEF cs
<1>9. Ordered(cs) = [k \in 1..n |-> chunks[Ascending(S)[k]]]
    BY <1>5, <1>8 DEF Ordered
<1>10. Ordered(cs) = Rows(S)
    BY <1>4, <1>9 DEF Rows
<1> QED
    BY <1>4, <1>10 DEF S, cs

-----------------------------------------------------------------------------
(* The audit's verdict.                                                     *)

\* The rows 0..n-1 verify.
LEMMA FirstRowsVerify ==
    ASSUME Linked, NEW n \in Nat, 0..(n-1) \subseteq DOMAIN chunks
    PROVE  VerifyOrdered(Rows(0..(n-1))) = [ok |-> TRUE, chunks |-> n]
<1> DEFINE o == Rows(0..(n-1))
<1>1. Cardinality(0..(n-1)) = n
    BY FS_Interval
<1>2. o = [i \in 1..n |-> chunks[i-1]]
    <2>1. \A i \in 1..n : Ascending(0..(n-1))[i] = i - 1
        BY AscendingInterval
    <2> QED
        BY <1>1, <2>1 DEF Rows
<1> HIDE DEF o
<1>3. ASSUME NEW k \in 1..n
      PROVE  ~Defective(o, k)
    <2>1. o[k] = chunks[k-1] /\ (k # 1 => o[k-1] = chunks[(k-1)-1])
        BY <1>2
    <2>2. k - 1 \in DOMAIN chunks
        OBVIOUS
    <2> QED
        BY <2>1, <2>2 DEF Linked, Defective, Missing, Unlinked, Altered
<1>4. Len(o) = n
    BY <1>2
<1> QED
    BY <1>3, <1>4 DEF VerifyOrdered, o

\* Rows that lack row g, and nothing below it, are said to miss g.
LEMMA GapIsNamed ==
    ASSUME Linked, DOMAIN chunks \in SUBSET Nat,
           NEW S \in SUBSET DOMAIN chunks, IsFiniteSet(S),
           NEW g \in Nat, g \notin S, 0..(g-1) \subseteq S,
           NEW above \in S, above > g
    PROVE  VerifyOrdered(Rows(S)) = [ok |-> FALSE, reason |-> "missing", atSeq |-> g]
<1> DEFINE n == Cardinality(S)
<1> DEFINE o == Rows(S)
<1> DEFINE order == Ascending(S)
<1>1. S \in SUBSET Nat /\ n \in Nat
    BY FS_CardinalityType
<1>2. Len(o) = n /\ \A k \in 1..n : o[k] = chunks[order[k]]
    BY <1>1 DEF Rows
<1>3. \A k \in 1..n : order[k] \in S /\ Rank(S, order[k]) = k - 1
    BY <1>1, AscendingRanks
<1>4. ASSUME NEW k \in 0..(g-1)
      PROVE  Rank(S, k) = k
    <2>1. {j \in S : j < k} = 0..(k-1)
        BY <1>1
    <2> QED
        BY <2>1, CardinalityBelow DEF Rank
<1>5. g + 1 \in 1..n
    <2>1. above \in Nat /\ 0..(g-1) \in SUBSET {j \in S : j < above}
        BY <1>1
    <2>2. IsFiniteSet({j \in S : j < above})
        BY FS_Subset
    <2>3. Cardinality(0..(g-1)) = g
        BY CardinalityBelow
    <2>4. g <= Rank(S, above)
        BY <2>1, <2>2, <2>3, FS_Subset DEF Rank
    <2>5. Rank(S, above) \in 0..(n-1)
        BY <1>1, RankBelowSize
    <2> QED
        BY <1>1, <2>4, <2>5
<1>6. ASSUME NEW k \in 1..g
      PROVE  order[k] = k - 1
    <2>1. k \in 1..n /\ k - 1 \in 0..(g-1) /\ k - 1 \in S
        BY <1>1, <1>5
    <2>2. Rank(S, order[k]) = Rank(S, k - 1) /\ order[k] \in S
        BY <1>3, <1>4, <2>1
    <2> QED
        BY <1>1, <2>1, <2>2, RankOneToOne
<1>7. Missing(o, g + 1)
    <2>1. order[g + 1] \in S /\ o[g + 1] = chunks[order[g + 1]]
        BY <1>2, <1>3, <1>5
    <2>2. o[g + 1].seq # g
        BY <2>1 DEF Linked
    <2> QED
        BY <2>2 DEF Missing
<1> HIDE DEF o, order
<1>8. ASSUME NEW k \in 1..g
      PROVE  ~Defective(o, k)
    <2>1. k \in 1..n /\ k - 1 \in DOMAIN chunks /\ (k # 1 => k - 1 \in 1..n /\ k - 1 \in 1..g)
        <3>1. k - 1 \in 0..(g-1)
            OBVIOUS
        <3> QED
            BY <1>1, <1>5, <3>1
    <2>2. o[k] = chunks[k-1] /\ (k # 1 => o[k-1] = chunks[(k-1)-1])
        BY <1>2, <1>6, <2>1
    <2> QED
        BY <2>1, <2>2 DEF Linked, Defective, Missing, Unlinked, Altered
<1> DEFINE First(k) == /\ Defective(o, k)
                       /\ \A j \in 1..(k-1) : ~Defective(o, j)
<1>9. Defective(o, g + 1) /\ First(g + 1)
    BY <1>7, <1>8 DEF Defective
<1>10. \A k \in 1..n : First(k) => k = g + 1
    <2> SUFFICES ASSUME NEW k \in 1..n, First(k)
                 PROVE  k = g + 1
        OBVIOUS
    <2>1. ~(k <= g)
        <3>1. k <= g => k \in 1..g
            OBVIOUS
        <3> QED
            BY <1>8, <3>1
    <2>2. ~(g + 1 < k)
        <3>1. g + 1 < k => g + 1 \in 1..(k-1)
            OBVIOUS
        <3> QED
            BY <1>9, <3>1
    <2> QED
        BY <2>1, <2>2
<1>11. (CHOOSE k \in 1..n : First(k)) = g + 1
    BY <1>5, <1>9, <1>10
<1>12. ~(\A k \in 1..n : ~Defective(o, k))
    BY <1>5, <1>9
<1>13. (g + 1) - 1 = g
    OBVIOUS
<1> QED
    BY <1>2, <1>7, <1>11, <1>12, <1>13 DEF VerifyOrdered, o

=============================================================================
