----------------------------- MODULE DataProofs ------------------------------
(***************************************************************************)
(* Facts about data alone, cited by the proofs of the parts: that every    *)
(* finite set of numbers can be listed lowest first (the rank of a member  *)
(* counts those below it, so it is one-to-one, and by counting it takes every *)
(* value there is room for); induction as a least counterexample; that a   *)
(* function which calls itself on less exists; and a set of numbers cut in *)
(* two, with the ranks of its members.                                     *)
(***************************************************************************)
EXTENDS Ranks, FiniteSetTheorems, SequenceTheorems, WellFoundedInduction, TLAPS

\* A member's rank is less than the size of the set.
LEMMA RankBelowSize ==
    ASSUME NEW S \in SUBSET Nat, IsFiniteSet(S), NEW k \in S
    PROVE  Rank(S, k) \in 0..(Cardinality(S) - 1)
<1> DEFINE Below == {j \in S : j < k}
<1>1. Below \in SUBSET (S \ {k})
    OBVIOUS
<1>2. IsFiniteSet(S \ {k}) /\ Cardinality(S \ {k}) = Cardinality(S) - 1
    BY FS_RemoveElement
<1>3. IsFiniteSet(Below) /\ Cardinality(Below) <= Cardinality(S \ {k})
    BY <1>1, <1>2, FS_Subset
<1>4. Cardinality(Below) \in Nat /\ Cardinality(S) \in Nat
    BY <1>3, FS_CardinalityType
<1> QED
    BY <1>2, <1>3, <1>4 DEF Rank

\* A lower member has a lower rank.
LEMMA RankMonotone ==
    ASSUME NEW S \in SUBSET Nat, IsFiniteSet(S), NEW a \in S, NEW b \in S, a < b
    PROVE  Rank(S, a) < Rank(S, b)
<1> DEFINE Below(k) == {j \in S : j < k}
<1>1. IsFiniteSet(Below(a)) /\ IsFiniteSet(Below(b))
    BY FS_Subset
<1>2. a \notin Below(a) /\ Below(a) \cup {a} \in SUBSET Below(b)
    <2>1. a \in Nat /\ b \in Nat /\ \A j \in S : j \in Nat
        OBVIOUS
    <2>2. a \notin Below(a)
        BY <2>1
    <2>3. ASSUME NEW j \in Below(a) \cup {a}
          PROVE  j \in Below(b)
        BY <2>1
    <2> QED
        BY <2>2, <2>3
<1>3. Cardinality(Below(a) \cup {a}) = Cardinality(Below(a)) + 1
    BY <1>1, <1>2, FS_AddElement
<1>4. Cardinality(Below(a) \cup {a}) <= Cardinality(Below(b))
    BY <1>1, <1>2, FS_Subset
<1>5. Cardinality(Below(a)) \in Nat /\ Cardinality(Below(b)) \in Nat
    BY <1>1, FS_CardinalityType
<1> QED
    BY <1>3, <1>4, <1>5 DEF Rank

\* No two members have the same rank.
LEMMA RankOneToOne ==
    ASSUME NEW S \in SUBSET Nat, IsFiniteSet(S), NEW a \in S, NEW b \in S,
           Rank(S, a) = Rank(S, b)
    PROVE  a = b
<1>1. a \in Nat /\ b \in Nat
    OBVIOUS
<1>2. Rank(S, a) \in Int /\ Rank(S, b) \in Int
    BY RankBelowSize
<1>3. ~(a < b) /\ ~(b < a)
    BY <1>1, <1>2, RankMonotone
<1> QED
    BY <1>1, <1>3

\* Every rank below the size is some member's.
LEMMA RankOnto ==
    ASSUME NEW S \in SUBSET Nat, IsFiniteSet(S), NEW r \in 0..(Cardinality(S) - 1)
    PROVE  \E k \in S : Rank(S, k) = r
<1> DEFINE n == Cardinality(S)
<1> DEFINE T == 0..(n - 1)
<1> DEFINE f == [k \in S |-> Rank(S, k)]
<1>1. n \in Nat
    BY FS_CardinalityType
<1>2. f \in [S -> T]
    BY RankBelowSize
<1>3. IsFiniteSet(T) /\ Cardinality(T) = n
    BY <1>1, FS_Interval
<1>4. ASSUME NEW a \in S, NEW b \in S, f[a] = f[b]
      PROVE  a = b
    BY <1>4, RankOneToOne
<1>5. f \in Injection(S, T)
    BY <1>2, <1>4 DEF Injection, IsInjective
<1>6. f \in Surjection(S, T)
    BY <1>3, <1>5, FS_Injection
<1>7. PICK k \in S : f[k] = r
    BY <1>6 DEF Surjection
<1> QED
    BY <1>7

\* The i-th of the list is the member of that rank.
LEMMA AscendingRanks ==
    ASSUME NEW S \in SUBSET Nat, IsFiniteSet(S), NEW i \in 1..Cardinality(S)
    PROVE  Ascending(S)[i] \in S /\ Rank(S, Ascending(S)[i]) = i - 1
<1>1. Cardinality(S) \in Nat
    BY FS_CardinalityType
<1>2. i - 1 \in 0..(Cardinality(S) - 1)
    BY <1>1
<1>3. \E k \in S : Rank(S, k) = i - 1
    BY <1>2, RankOnto
<1> QED
    BY <1>3 DEF Ascending

\* The list holds every member once, lowest first.
LEMMA AscendingLists ==
    ASSUME NEW S \in SUBSET Nat, IsFiniteSet(S)
    PROVE  /\ Cardinality(S) \in Nat
           /\ Ascending(S) \in [1..Cardinality(S) -> S]
           /\ \A k \in S : \E i \in 1..Cardinality(S) : Ascending(S)[i] = k
           /\ \A i, j \in 1..Cardinality(S) : i # j => Ascending(S)[i] # Ascending(S)[j]
<1> DEFINE n == Cardinality(S)
<1> DEFINE f == Ascending(S)
<1>1. n \in Nat
    BY FS_CardinalityType
<1>2. ASSUME NEW i \in 1..n
      PROVE  f[i] \in S /\ Rank(S, f[i]) = i - 1
    BY AscendingRanks
<1>3. f \in [1..n -> S]
    BY <1>2 DEF Ascending
<1>4. ASSUME NEW k \in S
      PROVE  \E i \in 1..n : f[i] = k
    <2> DEFINE i == Rank(S, k) + 1
    <2>1. Rank(S, k) \in 0..(n - 1)
        BY RankBelowSize
    <2>2. i \in 1..n /\ i - 1 = Rank(S, k)
        BY <1>1, <2>1
    <2>3. f[i] \in S /\ Rank(S, f[i]) = Rank(S, k)
        BY <1>2, <2>2
    <2>4. \A m \in S : Rank(S, m) = Rank(S, k) => m = k
        BY RankOneToOne
    <2> QED
        BY <2>2, <2>3, <2>4
<1>5. ASSUME NEW i \in 1..n, NEW j \in 1..n, i # j
      PROVE  f[i] # f[j]
    <2>1. Rank(S, f[i]) = i - 1 /\ Rank(S, f[j]) = j - 1
        BY <1>2
    <2> QED
        BY <1>5, <2>1
<1> QED
    BY <1>1, <1>3, <1>4, <1>5

\* A finite set of numbers with a member has a greatest one: the one of last rank.
LEMMA GreatestMember ==
    ASSUME NEW S \in SUBSET Nat, IsFiniteSet(S), S # {}
    PROVE  \E m \in S : \A k \in S : m >= k
<1> DEFINE n == Cardinality(S)
<1>1. n \in Nat /\ n # 0
    BY FS_CardinalityType, FS_EmptySet
<1>2. PICK m \in S : Rank(S, m) = n - 1
    <2>1. n - 1 \in 0..(n - 1)
        BY <1>1
    <2> QED
        BY <2>1, RankOnto
<1>3. ASSUME NEW k \in S
      PROVE  m >= k
    <2>1. m \in Nat /\ k \in Nat
        OBVIOUS
    <2>2. Rank(S, k) \in 0..(n - 1)
        BY RankBelowSize
    <2>3. ~(m < k)
        <3>1. m < k => Rank(S, m) < Rank(S, k)
            BY RankMonotone
        <3> QED
            BY <1>1, <1>2, <2>2, <3>1
    <2> QED
        BY <2>1, <2>3
<1> QED
    BY <1>3

\* ... and a least one: the one of rank 0.
LEMMA LeastMember ==
    ASSUME NEW S \in SUBSET Nat, IsFiniteSet(S), S # {}
    PROVE  \E m \in S : \A k \in S : m <= k
<1>1. 0 \in 0..(Cardinality(S) - 1)
    BY FS_CardinalityType, FS_EmptySet
<1>2. PICK m \in S : Rank(S, m) = 0
    BY <1>1, RankOnto
<1>3. ASSUME NEW k \in S
      PROVE  m <= k
    <2>1. m \in Nat /\ k \in Nat
        OBVIOUS
    <2>2. Rank(S, k) \in 0..(Cardinality(S) - 1) /\ Cardinality(S) \in Nat
        BY RankBelowSize, FS_CardinalityType
    <2>3. ~(k < m)
        <3>1. k < m => Rank(S, k) < Rank(S, m)
            BY RankMonotone
        <3> QED
            BY <1>2, <2>2, <3>1
    <2> QED
        BY <2>1, <2>3
<1> QED
    BY <1>3

-----------------------------------------------------------------------------
(* Least ones, and what follows of them.                                    *)

\* A set of numbers with a member has a least one.
LEMMA LeastNumber ==
    ASSUME NEW B \in SUBSET Nat, B # {}
    PROVE  \E n \in B : \A k \in B : n <= k
<1>1. PICK n \in B : \A k \in B : ~(<<k, n>> \in OpToRel(<, Nat))
    BY NatLessThanWellFounded, WFMin
<1>2. \A k \in B : ~(k < n)
    BY <1>1 DEF OpToRel
<1> QED
    BY <1>2

\* A set with 0 and the successor of each of its numbers has every number.
LEMMA Counting ==
    ASSUME NEW Good, 0 \in Good, \A n \in Nat : n \in Good => n + 1 \in Good
    PROVE  Nat \subseteq Good
<1> SUFFICES ASSUME Nat \ Good # {} PROVE FALSE
    OBVIOUS
<1>1. PICK n \in Nat \ Good : \A k \in Nat \ Good : n <= k
    BY LeastNumber
<1>2. n # 0 /\ n - 1 \in Nat /\ n - 1 \in Good
    BY <1>1
<1> QED
    BY <1>1, <1>2

\* Of some subsets of a finite set, one has no other of them in it.
LEMMA SmallestSubset ==
    ASSUME NEW S, IsFiniteSet(S), NEW B, B \subseteq SUBSET S, B # {}
    PROVE  \E s \in B : \A t \in B : t \subseteq s => t = s
<1>1. IsWellFoundedOn(StrictSubsetOrdering(S), SUBSET S)
    BY FS_StrictSubsetOrderingWellFounded, FS_FiniteSubsetsOfFinite
<1>2. PICK s \in B : \A t \in B : <<t, s>> \notin StrictSubsetOrdering(S)
    BY <1>1, WFMin
<1>3. \A t \in B : t \subseteq s => t = s
    <2> SUFFICES ASSUME NEW t \in B, t \subseteq s, t # s PROVE FALSE
        OBVIOUS
    <2>1. <<t, s>> \in StrictSubsetOrdering(S)
        BY DEF StrictSubsetOrdering
    <2> QED
        BY <1>2, <2>1
<1> QED
    BY <1>3

\* The image of a finite set is finite.
LEMMA FiniteImage ==
    ASSUME NEW S, IsFiniteSet(S), NEW f
    PROVE  IsFiniteSet({f[x] : x \in S})
<1> DEFINE T == {f[x] : x \in S}
<1> DEFINE g == [x \in S |-> f[x]]
<1>1. g \in Surjection(S, T)
    BY DEF Surjection
<1> HIDE DEF g, T
<1> QED
    BY <1>1, FS_Surjection DEF T

-----------------------------------------------------------------------------
(* Functions that call themselves.                                          *)

\* An equation between functions has a solution when what it says of an argument
\* depends only on what the function does where the measure is smaller.
Contracts(G, D, V, mu) ==
    /\ V # {} /\ mu \in [D -> Nat] /\ G \in [[D -> V] -> [D -> V]]
    /\ \E N \in Nat : \A d \in D : mu[d] <= N
    /\ \A f, g \in [D -> V] : \A d \in D :
          (\A c \in D : mu[c] < mu[d] => f[c] = g[c]) => G[f][d] = G[g][d]

\* A step that contracts has a fixed point: the function a recursive definition chooses.
LEMMA FixedPoint ==
    ASSUME NEW D, NEW V, NEW mu, NEW G, Contracts(G, D, V, mu)
    PROVE  \E f \in [D -> V] : f = G[f]
<1> USE DEF Contracts
<1>0. PICK N \in Nat : \A d \in D : mu[d] <= N
    OBVIOUS
<1> DEFINE Upto(n) == \E f \in [D -> V] : \A d \in D : mu[d] < n => f[d] = G[f][d]
<1> DEFINE Good == {n \in Nat : Upto(n)}
<1>1. Upto(0)
    <2>1. PICK v : v \in V
        OBVIOUS
    <2>2. [d \in D |-> v] \in [D -> V]
        BY <2>1
    <2>3. \A d \in D : ~(mu[d] < 0)
        OBVIOUS
    <2> QED
        BY <2>2, <2>3
<1>2. \A n \in Nat : Upto(n) => Upto(n + 1)
    <2> SUFFICES ASSUME NEW n \in Nat, NEW f \in [D -> V], \A d \in D : mu[d] < n => f[d] = G[f][d]
                 PROVE  \E g \in [D -> V] : \A d \in D : mu[d] < n + 1 => g[d] = G[g][d]
        OBVIOUS
    <2>1. G[f] \in [D -> V]
        OBVIOUS
    <2>2. \A d \in D : mu[d] < n + 1 => G[f][d] = G[G[f]][d]
        <3> SUFFICES ASSUME NEW d \in D, mu[d] < n + 1
                     PROVE  G[f][d] = G[G[f]][d]
            OBVIOUS
        <3>1. \A c \in D : mu[c] < mu[d] => f[c] = G[f][c]
            OBVIOUS
        <3> QED
            BY <2>1, <3>1
    <2> QED
        BY <2>1, <2>2
<1>3. N + 1 \in Good
    <2>1. 0 \in Good /\ \A n \in Nat : n \in Good => n + 1 \in Good
        <3> HIDE DEF Upto
        <3>1. \A n \in Nat : n \in Good <=> Upto(n)
            OBVIOUS
        <3> QED
            BY <1>1, <1>2, <3>1
    <2> HIDE DEF Good
    <2> QED
        BY <2>1, Counting
<1> QED
    <2>1. PICK f \in [D -> V] : \A d \in D : mu[d] < N + 1 => f[d] = G[f][d]
        BY <1>3
    <2>2. \A d \in D : f[d] = G[f][d]
        BY <1>0, <2>1
    <2>3. G[f] \in [D -> V]
        OBVIOUS
    <2> QED
        BY <2>2, <2>3

-----------------------------------------------------------------------------
(* Sequences and digits.                                                    *)

\* Two appended sequences are equal when their parts are.
LEMMA AppendOneToOne ==
    ASSUME NEW S, NEW s \in Seq(S), NEW t \in Seq(S), NEW x \in S, NEW y \in S,
           Append(s, x) = Append(t, y)
    PROVE  s = t /\ x = y
<1>1. /\ Len(Append(s, x)) = Len(s) + 1 /\ Len(Append(t, y)) = Len(t) + 1
      /\ Len(s) \in Nat /\ Len(t) \in Nat
    BY AppendProperties, LenProperties
<1>2. Len(s) = Len(t)
    BY <1>1
<1>3. \A i \in 1..Len(s) : Append(s, x)[i] = s[i] /\ Append(t, y)[i] = t[i]
    BY <1>1, <1>2, AppendProperties
<1>4. Append(s, x)[Len(s) + 1] = x /\ Append(t, y)[Len(t) + 1] = y
    BY AppendProperties
<1>5. s = t
    BY <1>1, <1>2, <1>3, SeqEqual
<1> QED
    BY <1>2, <1>4, <1>5

\* A number appended to a sequence of one number makes a pair.
LEMMA AppendToOne ==
    ASSUME NEW x \in Nat, NEW y \in Nat
    PROVE  Append(<<x>>, y) = <<x, y>>
<1> DEFINE s == Append(<<x>>, y)
<1> DEFINE t == <<x, y>>
<1>1. <<x>> \in Seq(Nat) /\ Len(<<x>>) = 1 /\ <<x>>[1] = x
    OBVIOUS
<1>2. s \in Seq(Nat) /\ Len(s) = 2 /\ s[1] = x /\ s[2] = y
    BY <1>1, AppendProperties
<1>3. t \in Seq(Nat) /\ Len(t) = 2 /\ t[1] = x /\ t[2] = y
    OBVIOUS
<1> HIDE DEF s, t
<1>4. \A i \in 1..Len(s) : s[i] = t[i]
    BY <1>2, <1>3
<1>5. s = t
    BY <1>2, <1>3, <1>4, SeqEqual
<1> QED
    BY <1>5 DEF s, t

\* What was appended is the rest of the joined sequence, and the parts of the first stay.
LEMMA JoinedParts ==
    ASSUME NEW S, NEW d \in Seq(S), NEW b \in Seq(S)
    PROVE  /\ d \o b \in Seq(S) /\ Len(d \o b) = Len(d) + Len(b)
           /\ SubSeq(d \o b, Len(d) + 1, Len(d) + Len(b)) = b
           /\ \A m, n \in Nat : n <= Len(d) => SubSeq(d \o b, m + 1, n) = SubSeq(d, m + 1, n)
<1>1. /\ d \o b \in Seq(S) /\ Len(d \o b) = Len(d) + Len(b)
      /\ \A i \in 1..Len(d) + Len(b) : (d \o b)[i] = IF i <= Len(d) THEN d[i] ELSE b[i - Len(d)]
    BY ConcatProperties
<1>2. Len(d) \in Nat /\ Len(b) \in Nat
    BY LenProperties
<1>3. SubSeq(d \o b, Len(d) + 1, Len(d) + Len(b)) = b
    <2> DEFINE t == SubSeq(d \o b, Len(d) + 1, Len(d) + Len(b))
    <2>1. \A i \in (Len(d) + 1)..(Len(d) + Len(b)) : (d \o b)[i] \in S
        BY <1>1, <1>2, ElementOfSeq
    <2>2. /\ t \in Seq(S)
          /\ Len(t) = IF Len(d) + 1 <= Len(d) + Len(b) THEN Len(d) + Len(b) - (Len(d) + 1) + 1 ELSE 0
          /\ \A i \in 1..(Len(d) + Len(b) - (Len(d) + 1) + 1) : t[i] = (d \o b)[Len(d) + 1 + i - 1]
        BY <1>2, <2>1, SubSeqProperties
    <2> HIDE DEF t
    <2>3. Len(t) = Len(b)
        BY <1>2, <2>2
    <2>4. ASSUME NEW i \in 1..Len(b) PROVE t[i] = b[i]
        <3>1. t[i] = (d \o b)[Len(d) + 1 + i - 1] /\ Len(d) + 1 + i - 1 = Len(d) + i
            BY <1>2, <2>2
        <3>2. /\ Len(d) + i \in 1..Len(d) + Len(b) /\ ~(Len(d) + i <= Len(d))
              /\ Len(d) + i - Len(d) = i
            BY <1>2
        <3>3. (d \o b)[Len(d) + i] = b[Len(d) + i - Len(d)]
            BY <1>1, <3>2
        <3> QED
            BY <3>1, <3>2, <3>3
    <2> QED
        BY <2>2, <2>3, <2>4, SeqEqual DEF t
<1>4. ASSUME NEW m \in Nat, NEW n \in Nat, n <= Len(d)
      PROVE  SubSeq(d \o b, m + 1, n) = SubSeq(d, m + 1, n)
    <2>1. CASE m + 1 <= n
        <3>1. m + 1 \in 1..Len(d) /\ n \in 1..Len(d)
            BY <1>2, <1>4, <2>1
        <3> QED
            BY <3>1, SubSeqOfConcat1
    <2>2. CASE n < m + 1
        <3>1. SubSeq(d \o b, m + 1, n) = << >> /\ SubSeq(d, m + 1, n) = << >>
            BY <2>2, SubSeqEmpty
        <3> QED
            BY <3>1
    <2>3. m + 1 <= n \/ n < m + 1
        OBVIOUS
    <2> QED
        BY <2>1, <2>2, <2>3, Zenon
<1> QED
    BY <1>1, <1>3, <1>4

\* A number is its quotient and its remainder.
LEMMA Division ==
    ASSUME NEW n \in Nat, NEW b \in Nat \ {0, 1}
    PROVE  /\ n \div b \in Nat /\ n % b \in 0..(b - 1) /\ n = (b * (n \div b)) + (n % b)
           /\ n # 0 => n \div b < n
           /\ n >= b => n \div b # 0
           /\ n < b => n \div b = 0 /\ n % b = n
           /\ n < b * b => n \div b < b
<1> DEFINE q == n \div b
<1> DEFINE r == n % b
<1>1. q \in Int /\ r \in 0..(b - 1) /\ n = (b * q) + r
    BY Z3
<1> HIDE DEF q, r
<1>2. q >= 0
    <2> SUFFICES ASSUME q <= 0 - 1 PROVE FALSE
        BY <1>1
    <2>1. b * q <= b * (0 - 1)
        BY <1>1
    <2> QED
        BY <1>1, <2>1
<1>3. n # 0 => q < n
    <2>1. CASE q = 0
        BY <2>1
    <2>2. CASE q # 0
        <3>1. b * q >= 2 * q
            BY <1>1, <1>2
        <3> QED
            BY <1>1, <1>2, <2>2, <3>1
    <2> QED
        BY <2>1, <2>2
<1>4. n >= b => q # 0
    <2> SUFFICES ASSUME q = 0 PROVE n < b
        BY <1>1
    <2> QED
        BY <1>1
<1>5. n < b => q = 0 /\ r = n
    <2> SUFFICES ASSUME n < b PROVE q = 0
        BY <1>1
    <2> SUFFICES ASSUME q >= 1 PROVE FALSE
        BY <1>1, <1>2
    <2>1. b * q >= b * 1
        BY <1>1
    <2> QED
        BY <1>1, <2>1
<1>6. n < b * b => q < b
    <2> SUFFICES ASSUME q >= b PROVE n >= b * b
        BY <1>1
    <2>1. b * q >= b * b
        BY <1>1
    <2> QED
        BY <1>1, <2>1
<1>7. q \in Nat
    BY <1>1, <1>2
<1> QED
    BY <1>1, <1>3, <1>4, <1>5, <1>6, <1>7, Zenon DEF q, r

-----------------------------------------------------------------------------
(* Sets of numbers, cut in two.                                             *)

LowerOf(U, n) == {k \in U : k < n}

UpperOf(U, n) == {k \in U : n < k}

FromOf(U, key) == {k \in U : ~(k < key)}

\* Membership of the two sides of n.
LEMMA SideFacts ==
    ASSUME NEW U, U \subseteq Nat, NEW n \in Nat
    PROVE  /\ \A k : k \in LowerOf(U, n) <=> k \in U /\ k < n
           /\ \A k : k \in UpperOf(U, n) <=> k \in U /\ n < k
           /\ \A k \in U : k \in LowerOf(U, n) \/ k = n \/ k \in UpperOf(U, n)
           /\ \A k \in LowerOf(U, n) : k # n /\ k \notin UpperOf(U, n)
           /\ \A k \in UpperOf(U, n) : k # n
<1>1. \A k \in U : k \in Nat
    OBVIOUS
<1>2. \A k, m \in Nat : (k < m \/ k = m \/ m < k) /\ (k < m => k # m /\ ~(m < k))
    OBVIOUS
<1> QED
    BY <1>1, <1>2 DEF LowerOf, UpperOf

\* The two sides of n share nothing and are the set without n.
LEMMA SideSets ==
    ASSUME NEW U, U \subseteq Nat, NEW n \in Nat
    PROVE  /\ LowerOf(U, n) \subseteq U \ {n} /\ UpperOf(U, n) \subseteq U \ {n}
           /\ U \ {n} = LowerOf(U, n) \cup UpperOf(U, n)
           /\ LowerOf(U, n) \cap UpperOf(U, n) = {}
    BY SideFacts

\* A set put together from what is lower than n, n, and what is higher has those as its sides.
LEMMA SidesAre ==
    ASSUME NEW L, NEW R, L \subseteq Nat, R \subseteq Nat, NEW n \in Nat,
           \A k \in L : k < n, \A k \in R : n < k
    PROVE  LowerOf(L \cup {n} \cup R, n) = L /\ UpperOf(L \cup {n} \cup R, n) = R
<1>1. \A k \in R : ~(k < n)
    BY \A k, m \in Nat : k < m => ~(m < k)
<1>2. \A k \in L : ~(n < k)
    BY \A k, m \in Nat : k < m => ~(m < k)
<1>3. ~(n < n)
    OBVIOUS
<1> QED
    BY <1>1, <1>2, <1>3 DEF LowerOf, UpperOf

\* The sides of a member of a finite set are finite and make up its size with it.
LEMMA SidesSize ==
    ASSUME NEW U, IsFiniteSet(U), U \subseteq Nat, NEW n \in U
    PROVE  /\ IsFiniteSet(LowerOf(U, n)) /\ IsFiniteSet(UpperOf(U, n))
           /\ Cardinality(U) \in Nat /\ Cardinality(LowerOf(U, n)) \in Nat /\ Cardinality(UpperOf(U, n)) \in Nat
           /\ Cardinality(U) = 1 + Cardinality(LowerOf(U, n)) + Cardinality(UpperOf(U, n))
<1>1. IsFiniteSet(LowerOf(U, n)) /\ IsFiniteSet(UpperOf(U, n))
    BY FS_Subset DEF LowerOf, UpperOf
<1>2. Cardinality(U) \in Nat /\ Cardinality(LowerOf(U, n)) \in Nat /\ Cardinality(UpperOf(U, n)) \in Nat
    BY <1>1, FS_CardinalityType
<1>3. U \ {n} = LowerOf(U, n) \cup UpperOf(U, n)
    BY SideFacts
<1>4. LowerOf(U, n) \cap UpperOf(U, n) = {}
    BY SideFacts
<1>5. Cardinality(LowerOf(U, n) \cup UpperOf(U, n)) = Cardinality(LowerOf(U, n)) + Cardinality(UpperOf(U, n))
    <2>1. Cardinality({}) = 0
        BY FS_EmptySet
    <2> DEFINE A == LowerOf(U, n)
    <2> DEFINE B == UpperOf(U, n)
    <2>2. /\ IsFiniteSet(A) /\ IsFiniteSet(B) /\ Cardinality(A) \in Nat /\ Cardinality(B) \in Nat
          /\ Cardinality(A \cap B) = 0
        BY <1>1, <1>2, <1>4, <2>1
    <2> HIDE DEF A, B
    <2>3. Cardinality(A \cup B) = Cardinality(A) + Cardinality(B) - Cardinality(A \cap B)
        BY <2>2, FS_Union
    <2>4. Cardinality(A \cup B) = Cardinality(A) + Cardinality(B)
        BY <2>2, <2>3
    <2> QED
        BY <2>4 DEF A, B
<1>6. Cardinality(U \ {n}) = Cardinality(U) - 1
    BY FS_RemoveElement
<1> QED
    BY <1>1, <1>2, <1>3, <1>5, <1>6

\* Cutting at a key above n leaves the lower side of n whole.
LEMMA SplitBelow ==
    ASSUME NEW U, U \subseteq Nat, NEW n \in U, NEW key \in Nat, n < key
    PROVE  /\ LowerOf(U, key) = LowerOf(U, n) \cup {n} \cup LowerOf(UpperOf(U, n), key)
           /\ FromOf(U, key) = FromOf(UpperOf(U, n), key)
<1>1. n \in Nat /\ \A k \in U : k \in Nat
    OBVIOUS
<1>2. \A k \in Nat : (k < n => k < key) /\ (~(k < key) => n < k) /\ (k < n \/ k = n \/ n < k)
    BY <1>1
<1> QED
    BY <1>1, <1>2 DEF LowerOf, UpperOf, FromOf

\* Cutting at a key not above n leaves the upper side of n whole.
LEMMA SplitAbove ==
    ASSUME NEW U, U \subseteq Nat, NEW n \in U, NEW key \in Nat, ~(n < key)
    PROVE  /\ FromOf(U, key) = FromOf(LowerOf(U, n), key) \cup {n} \cup UpperOf(U, n)
           /\ LowerOf(U, key) = LowerOf(LowerOf(U, n), key)
<1>1. n \in Nat /\ \A k \in U : k \in Nat
    OBVIOUS
<1>2. \A k \in Nat : (n < k => ~(k < key)) /\ (k < key => k < n) /\ (k < n \/ k = n \/ n < k)
    BY <1>1
<1> QED
    BY <1>1, <1>2 DEF LowerOf, UpperOf, FromOf

Ground(D) == D \subseteq Nat \ {0} /\ IsFiniteSet(D)

\* What a subset of the keys is.
LEMMA GroundSubset ==
    ASSUME NEW D, Ground(D), NEW U, U \subseteq D
    PROVE  IsFiniteSet(U) /\ Cardinality(U) \in Nat /\ Cardinality(U) <= Cardinality(D) /\ U \subseteq Nat
<1>1. IsFiniteSet(U) /\ Cardinality(U) <= Cardinality(D)
    BY FS_Subset DEF Ground
<1> QED
    BY <1>1, FS_CardinalityType DEF Ground

\* How many keys are below one on the right of a node, and below any other.
LEMMA RankAbove ==
    ASSUME NEW D, Ground(D), NEW U, U \subseteq D, NEW n \in U, NEW key \in Nat, n < key
    PROVE  Cardinality(LowerOf(U, key)) =
               Cardinality(LowerOf(U, n)) + 1 + Cardinality(LowerOf(UpperOf(U, n), key))
<1> DEFINE W == LowerOf(U, key)
<1> DEFINE L == LowerOf(U, n)
<1> DEFINE R == LowerOf(UpperOf(U, n), key)
<1>1. U \subseteq Nat /\ n \in Nat
    BY DEF Ground
<1>2. LowerOf(U, key) = LowerOf(U, n) \cup {n} \cup LowerOf(UpperOf(U, n), key)
    <2> HIDE DEF W, L, R
    <2>1. /\ LowerOf(U, key) = LowerOf(U, n) \cup {n} \cup LowerOf(UpperOf(U, n), key)
          /\ FromOf(U, key) = FromOf(UpperOf(U, n), key)
        BY <1>1, SplitBelow
    <2> QED
        BY <2>1
<1>3. n \in W /\ W \subseteq U /\ W = L \cup {n} \cup R
    BY <1>2 DEF LowerOf
<1>4. L \subseteq Nat /\ R \subseteq Nat
    BY <1>1 DEF LowerOf, UpperOf
<1>5. (\A k \in L : k < n) /\ (\A k \in R : n < k)
    BY DEF LowerOf, UpperOf
<1>6. LowerOf(W, n) = L /\ UpperOf(W, n) = R
    <2> HIDE DEF W, L, R
    <2>1. LowerOf(L \cup {n} \cup R, n) = L /\ UpperOf(L \cup {n} \cup R, n) = R
        BY <1>1, <1>4, <1>5, SidesAre
    <2> QED
        BY <1>3, <2>1
<1>7. IsFiniteSet(W) /\ W \subseteq Nat
    BY <1>3, GroundSubset
<1> HIDE DEF W
<1>8. /\ Cardinality(W) = 1 + Cardinality(LowerOf(W, n)) + Cardinality(UpperOf(W, n))
      /\ Cardinality(LowerOf(W, n)) \in Nat /\ Cardinality(UpperOf(W, n)) \in Nat
    BY <1>3, <1>7, SidesSize
<1>9. Cardinality(W) = Cardinality(LowerOf(W, n)) + 1 + Cardinality(UpperOf(W, n))
    BY <1>8
<1> QED
    BY <1>6, <1>9 DEF W

\* The keys between two, the second of which may be none.
Between(K, a, b) == {k \in K : a < k /\ (b = 0 \/ k < b)}

\* The sides of a member of an interval of keys are intervals.
LEMMA BetweenSides ==
    ASSUME NEW K, K \subseteq Nat, NEW a \in Nat, NEW b \in Nat, NEW m \in Between(K, a, b)
    PROVE  /\ LowerOf(Between(K, a, b), m) = Between(K, a, m)
           /\ UpperOf(Between(K, a, b), m) = Between(K, m, b)
<1>1. m \in Nat /\ a < m /\ (b = 0 \/ m < b) /\ \A k \in K : k \in Nat
    BY DEF Between
<1>2. \A k \in Nat : ~(k < 0)
    OBVIOUS
<1>3. m # 0
    BY <1>1
<1>4. \A k \in Nat : (k < m => b = 0 \/ k < b) /\ (m < k => a < k)
    BY <1>1
<1> QED
    BY <1>1, <1>2, <1>3, <1>4 DEF Between, LowerOf, UpperOf

-----------------------------------------------------------------------------
(* The members that are least, greatest or of a rank.                       *)

IsLeast(U, x) == (U = {} /\ x = 0) \/ (x \in U /\ \A j \in U : x <= j)

IsGreatest(U, x) == (U = {} /\ x = 0) \/ (x \in U /\ \A j \in U : j <= x)

\* The key of rank k, if there are so many.
IsKth(U, k, x) ==
    \/ k < Cardinality(U) /\ x \in U /\ Cardinality(LowerOf(U, x)) = k
    \/ ~(k < Cardinality(U)) /\ x = 0

\* Of a rank there is one key at most.
LEMMA KthIsLeast ==
    ASSUME NEW D, Ground(D), NEW U, U \subseteq D, NEW k \in Nat, NEW x, IsKth(U, k, x)
    PROVE  IsLeast({key \in U : Cardinality(LowerOf(U, key)) = k}, x)
<1>1. U \subseteq Nat /\ IsFiniteSet(U) /\ Cardinality(U) \in Nat
    BY GroundSubset
<1>2. \A j \in U : IsFiniteSet(LowerOf(U, j)) /\ Cardinality(LowerOf(U, j)) \in Nat
    <2>1. \A j \in U : LowerOf(U, j) \subseteq D
        BY DEF LowerOf
    <2> QED
        BY <2>1, GroundSubset
<1>3. ASSUME NEW i \in U, NEW j \in U, i < j
      PROVE  Cardinality(LowerOf(U, i)) < Cardinality(LowerOf(U, j))
    <2> DEFINE W == LowerOf(U, j)
    <2>1. i \in W /\ W \subseteq Nat /\ i \in Nat /\ j \in Nat
        BY <1>1, <1>3 DEF LowerOf
    <2>2. IsFiniteSet(W)
        BY <1>2
    <2>3. LowerOf(W, i) = LowerOf(U, i)
        <3>1. \A m \in Nat : m < i => m < j
            BY <1>3, <2>1
        <3> QED
            BY <1>1, <3>1 DEF LowerOf
    <2> HIDE DEF W
    <2>4. /\ Cardinality(W) = 1 + Cardinality(LowerOf(W, i)) + Cardinality(UpperOf(W, i))
          /\ Cardinality(LowerOf(W, i)) \in Nat /\ Cardinality(UpperOf(W, i)) \in Nat
        BY <2>1, <2>2, SidesSize
    <2>5. Cardinality(LowerOf(W, i)) < Cardinality(W)
        BY <2>4
    <2> QED
        BY <2>3, <2>5 DEF W
<1>4. ASSUME NEW j \in U PROVE Cardinality(LowerOf(U, j)) < Cardinality(U)
    <2>1. /\ Cardinality(U) = 1 + Cardinality(LowerOf(U, j)) + Cardinality(UpperOf(U, j))
          /\ Cardinality(LowerOf(U, j)) \in Nat /\ Cardinality(UpperOf(U, j)) \in Nat
        BY <1>1, SidesSize
    <2> QED
        BY <2>1
<1> DEFINE S == {key \in U : Cardinality(LowerOf(U, key)) = k}
<1>5. CASE k < Cardinality(U) /\ x \in U /\ Cardinality(LowerOf(U, x)) = k
    <2>1. ASSUME NEW j \in S PROVE x <= j
        <3>1. j \in U /\ j \in Nat /\ x \in Nat /\ Cardinality(LowerOf(U, j)) = k
            BY <1>1, <1>5
        <3>2. ~(j < x)
            BY <1>3, <1>5, <3>1
        <3> QED
            BY <3>1, <3>2
    <2> QED
        BY <1>5, <2>1 DEF IsLeast
<1>6. CASE ~(k < Cardinality(U)) /\ x = 0
    <2>1. S = {}
        BY <1>4, <1>6
    <2> QED
        BY <1>6, <2>1 DEF IsLeast
<1> QED
    BY <1>5, <1>6 DEF IsKth

-----------------------------------------------------------------------------
(* Sequences joined, and without one of their members.                      *)

LEMMA ConcatType ==
    ASSUME NEW S, NEW s \in Seq(S), NEW t \in Seq(S)
    PROVE  s \o t \in Seq(S) /\ Len(s \o t) = Len(s) + Len(t)
    BY ConcatProperties

\* What is left of a sequence when one of its members is taken out: the others, in their order.
LEMMA Omitted ==
    ASSUME NEW S, NEW s \in Seq(S), NEW i \in 1..Len(s)
    PROVE  LET left == SubSeq(s, 1, i - 1) \o SubSeq(s, i + 1, Len(s))
           IN  /\ left \in Seq(S)
               /\ Len(left) = Len(s) - 1 /\ DOMAIN left = 1..(Len(s) - 1)
               /\ \A k \in 1..(Len(s) - 1) : left[k] = s[IF k < i THEN k ELSE k + 1]
<1> DEFINE a == SubSeq(s, 1, i - 1)
<1> DEFINE b == SubSeq(s, i + 1, Len(s))
<1>1. /\ a \in Seq(S) /\ Len(a) = i - 1
      /\ \A k \in 1..(i - 1) : a[k] = s[k]
    BY SubSeqProperties
<1>2. /\ b \in Seq(S) /\ Len(b) = Len(s) - i
      /\ \A k \in 1..(Len(s) - i) : b[k] = s[i + k]
    BY SubSeqProperties
<1> HIDE DEF a, b
<1>4. a \o b \in Seq(S) /\ Len(a \o b) = Len(s) - 1
    <2>1. a \o b \in Seq(S) /\ Len(a \o b) = Len(a) + Len(b)
        BY <1>1, <1>2, ConcatType
    <2> QED
        BY <1>1, <1>2, <2>1
<1>5. DOMAIN (a \o b) = 1..(Len(s) - 1)
    BY <1>4
<1>6. ASSUME NEW k \in 1..(Len(s) - 1)
      PROVE  (a \o b)[k] = s[IF k < i THEN k ELSE k + 1]
    <2>1. CASE k < i
        <3>1. k \in 1..Len(a)
            BY <1>1, <2>1
        <3>2. (a \o b)[k] = a[k]
            BY <1>1, <1>2, <3>1
        <3> QED
            BY <1>1, <2>1, <3>1, <3>2
    <2>2. CASE ~(k < i)
        <3>1. k - Len(a) \in 1..Len(b) /\ i + (k - Len(a)) = k + 1
            BY <1>1, <1>2, <2>2
        <3>2. (a \o b)[k] = b[k - Len(a)]
            BY <1>1, <1>2, <3>1
        <3> QED
            BY <1>2, <2>2, <3>1, <3>2
    <2> QED
        BY <2>1, <2>2
<1> QED
    BY <1>4, <1>5, <1>6 DEF a, b

LEMMA Piece ==
    ASSUME NEW S, NEW p \in Seq(S), NEW m \in 1..Len(p), NEW n \in m..Len(p)
    PROVE  /\ SubSeq(p, m, n) \in Seq(S) /\ Len(SubSeq(p, m, n)) = n - m + 1
           /\ \A i \in 1..(n - m + 1) : SubSeq(p, m, n)[i] = p[m + i - 1]
<1>1. Len(p) \in Nat /\ \A i \in m..n : p[i] \in S
    BY LenProperties, ElementOfSeq
<1>2. /\ SubSeq(p, m, n) \in Seq(S)
      /\ Len(SubSeq(p, m, n)) = IF m <= n THEN n - m + 1 ELSE 0
      /\ \A i \in 1..(n - m + 1) : SubSeq(p, m, n)[i] = p[m + i - 1]
    BY <1>1, SubSeqProperties
<1> QED
    BY <1>1, <1>2

LEMMA TailPiece ==
    ASSUME NEW S, NEW p \in Seq(S), Len(p) >= 1
    PROVE  /\ Tail(p) = SubSeq(p, 2, Len(p)) /\ Tail(p) \in Seq(S) /\ Len(Tail(p)) = Len(p) - 1
           /\ \A i \in 1..(Len(p) - 1) : Tail(p)[i] = p[i + 1]
<1>1. p # << >> /\ Len(p) \in Nat
    BY EmptySeq, LenProperties
<1>2. /\ Tail(p) \in Seq(S) /\ Len(Tail(p)) = Len(p) - 1
      /\ \A i \in 1..Len(Tail(p)) : Tail(p)[i] = p[i + 1]
    BY <1>1, HeadTailProperties
<1>3. Tail(p) = SubSeq(p, 2, Len(p))
    BY <1>1, TailIsSubSeq
<1> QED
    BY <1>1, <1>2, <1>3

=============================================================================
