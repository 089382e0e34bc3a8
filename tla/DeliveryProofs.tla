---------------------------- MODULE DeliveryProofs ----------------------------
(***************************************************************************)
(* What TLAPS proves of delivery, for every batch limit, delay and number  *)
(* of rows, pages, requests, losses, crashes and failed writes.            *)
(*                                                                         *)
(* Of the loop (SyncLoop): a flush offers the oldest rows, and a running   *)
(* loop always comes back in time.  Of a round end to end (Invigilation):  *)
(* the review tells the truth, and delivery keeps the promise of           *)
(* AtLeastOnce, wherever a write may be cut.                               *)
(*                                                                         *)
(* Store is the server once more, with the lemmas of SessionStoreProofs.   *)
(***************************************************************************)
EXTENDS Invigilation, ChunkQueueProofs

Store == INSTANCE SessionStoreProofs WITH Files <- {Owner}, Seqs <- 0..(MaxRows - 1)

-----------------------------------------------------------------------------
(* The rows a flush offers.                                                 *)

\* Rows are kept under their seq, and there are finitely many.
RowsKept ==
    /\ DOMAIN chunks \in SUBSET Nat
    /\ IsFiniteSet(DOMAIN chunks)
    /\ \A k \in DOMAIN chunks : chunks[k].seq = k
    /\ delivered \subseteq DOMAIN chunks

\* What is being sent are rows of the store, older than the rest of the pending.
OfferInv ==
    /\ RowsKept
    /\ stage = "send" => batch \subseteq DOMAIN chunks
    /\ OldestFirst

\* NextSeq is past every row.
LEMMA NextSeqIsNew ==
    ASSUME RowsKept
    PROVE  NextSeq \in Nat /\ \A k \in DOMAIN chunks : k < NextSeq
<1>1. CASE DOMAIN chunks = {}
    BY <1>1 DEF NextSeq
<1>2. CASE DOMAIN chunks # {}
    <2>1. \E m \in DOMAIN chunks : \A k \in DOMAIN chunks : m >= k
        BY <1>2, GreatestMember DEF RowsKept
    <2>2. /\ Max(DOMAIN chunks) \in DOMAIN chunks
          /\ \A k \in DOMAIN chunks : Max(DOMAIN chunks) >= k
        BY <2>1 DEF Max
    <2>3. NextSeq = Max(DOMAIN chunks) + 1
        BY <1>2 DEF NextSeq
    <2>4. \A k \in DOMAIN chunks : k \in Nat
        BY DEF RowsKept
    <2> QED
        BY <2>2, <2>3, <2>4
<1> QED
    BY <1>1, <1>2

\* The seqs of the rows pending() returns: the pending seqs of low rank.
LEMMA PendingIsLowest ==
    ASSUME RowsKept, NEW limit \in Nat
    PROVE  LET rows == Pending(limit)
           IN  {rows[i].seq : i \in DOMAIN rows} = {k \in PendingSeqs : Rank(PendingSeqs, k) < limit}
<1> DEFINE S == {k \in PendingSeqs : Rank(PendingSeqs, k) < limit}
<1> DEFINE n == Cardinality(S)
<1> DEFINE order == Ascending(S)
<1>1. S \in SUBSET DOMAIN chunks
    BY DEF PendingSeqs
<1>2. S \in SUBSET Nat /\ IsFiniteSet(S)
    BY <1>1, FS_Subset DEF RowsKept
<1>3. /\ order \in [1..n -> S]
      /\ \A k \in S : \E i \in 1..n : order[i] = k
    BY <1>2, AscendingLists
<1>4. Pending(limit) = [i \in 1..n |-> chunks[order[i]]]
    BY DEF Pending, Rows
<1> HIDE DEF order, n
<1>5. \A i \in 1..n : chunks[order[i]].seq = order[i] /\ order[i] \in S
    BY <1>1, <1>3 DEF RowsKept
<1> HIDE DEF S
<1>6. {Pending(limit)[i].seq : i \in DOMAIN Pending(limit)} = {order[i] : i \in 1..n}
    BY <1>4, <1>5
<1>7. {order[i] : i \in 1..n} = S
    BY <1>3, <1>5
<1> QED
    BY <1>6, <1>7 DEF S

\* A pending row of lower rank is older.
LEMMA LowerRankIsOlder ==
    ASSUME RowsKept, NEW k \in PendingSeqs, NEW j \in PendingSeqs,
           Rank(PendingSeqs, k) < Rank(PendingSeqs, j)
    PROVE  k < j
<1>1. PendingSeqs \in SUBSET Nat /\ IsFiniteSet(PendingSeqs)
    <2>1. PendingSeqs \in SUBSET DOMAIN chunks
        BY DEF PendingSeqs
    <2> QED
        BY <2>1, FS_Subset DEF RowsKept
<1>2. k \in Nat /\ j \in Nat
    BY <1>1
<1>3. Rank(PendingSeqs, k) \in Int /\ Rank(PendingSeqs, j) \in Int
    BY <1>1, RankBelowSize
<1>4. j < k => Rank(PendingSeqs, j) < Rank(PendingSeqs, k)
    BY <1>1, RankMonotone
<1> QED
    BY <1>2, <1>3, <1>4

-----------------------------------------------------------------------------
(* The loop's steps.                                                        *)

\* A flush that reads its batch offers the oldest pending rows.
LEMMA ReadOffersOldest ==
    ASSUME OfferInv, ReadPending
    PROVE  OfferInv'
<1>1. RowsKept /\ UNCHANGED <<chunks, delivered>> /\ stage' = "send"
    BY DEF OfferInv, ReadPending, queueVars
<1>2. BatchLimit \in Nat
    BY LoopBoundsAssumption
<1>3. batch' = {k \in PendingSeqs : Rank(PendingSeqs, k) < BatchLimit}
    BY <1>1, <1>2, PendingIsLowest DEF ReadPending
<1>4. \A k \in batch', j \in PendingSeqs \ batch' : k < j
    <2> SUFFICES ASSUME NEW k \in batch', NEW j \in PendingSeqs \ batch'
                 PROVE  k < j
        OBVIOUS
    <2>1. k \in PendingSeqs /\ j \in PendingSeqs
          /\ Rank(PendingSeqs, k) < BatchLimit /\ ~(Rank(PendingSeqs, j) < BatchLimit)
        BY <1>3
    <2>2. Rank(PendingSeqs, k) \in Int /\ Rank(PendingSeqs, j) \in Int
        <3>1. PendingSeqs \in SUBSET DOMAIN chunks
            BY DEF PendingSeqs
        <3>2. PendingSeqs \in SUBSET Nat /\ IsFiniteSet(PendingSeqs)
            BY <1>1, <3>1, FS_Subset DEF RowsKept
        <3> QED
            BY <2>1, <3>2, RankBelowSize
    <2> QED
        BY <1>1, <1>2, <2>1, <2>2, LowerRankIsOlder
<1>5. RowsKept'
    BY <1>1 DEF RowsKept
<1>6. batch' \subseteq DOMAIN chunks'
    BY <1>1, <1>3 DEF PendingSeqs
<1>7. OldestFirst'
    BY <1>1, <1>4 DEF OldestFirst, PendingSeqs
<1> QED
    BY <1>5, <1>6, <1>7 DEF OfferInv

\* Sealing adds one row behind the others, and touches no batch in flight.
LEMMA SealAddsRow ==
    ASSUME RowsKept, Seal
    PROVE  /\ RowsKept'
           /\ NextSeq \in Nat /\ NextSeq < MaxRows
           /\ \A k \in DOMAIN chunks : k < NextSeq
           /\ DOMAIN chunks' = DOMAIN chunks \cup {NextSeq}
           /\ UNCHANGED <<delivered, batch, accepted>>
           /\ PendingSeqs' = PendingSeqs \cup {NextSeq}
           /\ stage' = IF stage = "idle" THEN "pending" ELSE stage
<1> DEFINE n == NextSeq
<1>1. n \in Nat /\ \A k \in DOMAIN chunks : k < n
    BY NextSeqIsNew
<1>2. PICK chunk : /\ chunk.seq = n
                   /\ AppendChunk(chunk)
                   /\ n < MaxRows
                   /\ batch' = batch /\ accepted' = accepted
                   /\ stage' = IF stage = "idle" THEN "pending" ELSE stage
    BY DEF Seal, SealChunk, Flush
<1> HIDE DEF n
<1>3. /\ DOMAIN chunks' = DOMAIN chunks \cup {n} /\ chunks'[n] = chunk
      /\ \A k \in DOMAIN chunks : k # n => chunks'[k] = chunks[k]
      /\ delivered' = delivered \ {n}
    BY <1>2 DEF AppendChunk
<1>4. n \notin DOMAIN chunks
    BY <1>1 DEF RowsKept
<1>5. RowsKept'
    <2>1. IsFiniteSet(DOMAIN chunks')
        BY <1>3, FS_AddElement DEF RowsKept
    <2> QED
        BY <1>1, <1>2, <1>3, <1>4, <2>1 DEF RowsKept
<1>6. delivered' = delivered /\ PendingSeqs' = PendingSeqs \cup {n}
    BY <1>3, <1>4 DEF RowsKept, PendingSeqs
<1> QED
    BY <1>1, <1>2, <1>3, <1>5, <1>6 DEF n

\* A row sealed meanwhile is newer than anything offered.
LEMMA SealIsNewest ==
    ASSUME OfferInv, Seal
    PROVE  OfferInv'
<1> DEFINE n == NextSeq
<1>1. /\ RowsKept' /\ n \in Nat /\ \A k \in DOMAIN chunks : k < n
      /\ DOMAIN chunks' = DOMAIN chunks \cup {n}
      /\ UNCHANGED <<delivered, batch>>
      /\ PendingSeqs' = PendingSeqs \cup {n}
      /\ stage' = IF stage = "idle" THEN "pending" ELSE stage
    BY SealAddsRow DEF OfferInv
<1> HIDE DEF n
<1>2. stage' = "send" => stage = "send" /\ batch \subseteq DOMAIN chunks
    BY <1>1 DEF OfferInv
<1>3. stage' = "send" => batch' \subseteq DOMAIN chunks'
    BY <1>1, <1>2
<1>4. OldestFirst'
    <2> SUFFICES ASSUME NEW k \in batch \ delivered, NEW j \in (PendingSeqs \cup {n}) \ batch,
                        stage' = "send"
                 PROVE  k < j
        BY <1>1 DEF OldestFirst
    <2>1. k \in DOMAIN chunks /\ stage = "send"
        BY <1>2
    <2>2. CASE j = n
        BY <1>1, <2>1, <2>2
    <2>3. CASE j # n
        BY <2>1, <2>3 DEF OfferInv, OldestFirst
    <2> QED
        BY <2>2, <2>3
<1> QED
    BY <1>1, <1>3, <1>4 DEF OfferInv

\* Every step keeps the offer the oldest there is.
LEMMA OfferStep ==
    ASSUME OfferInv, [Next]_vars
    PROVE  OfferInv'
<1>1. ASSUME UNCHANGED <<chunks, delivered>>, stage' # "send"
      PROVE  OfferInv'
    BY <1>1 DEF OfferInv, RowsKept, OldestFirst
<1>2. ASSUME UNCHANGED <<chunks, delivered, batch>>, stage' = stage
      PROVE  OfferInv'
    BY <1>2 DEF OfferInv, RowsKept, OldestFirst, PendingSeqs
<1>3. CASE ReadPending
    BY <1>3, ReadOffersOldest
<1>4. CASE Seal
    BY <1>4, SealIsNewest
<1>5. CASE Start \/ Stop
    BY <1>2, <1>5 DEF Start, Stop, queueVars
<1>6. CASE Fire
    <2>1. UNCHANGED <<chunks, delivered, batch>>
          /\ stage' = IF stage = "idle" THEN "pending" ELSE stage
        BY <1>6 DEF Fire, Flush, queueVars
    <2> QED
        BY <1>1, <1>2, <2>1
<1>7. CASE ReadNothing \/ IdleAgain \/ Report \/ CountAgain \/ Retry \/ RetryFails \/ Close
    BY <1>1, <1>7 DEF ReadNothing, IdleAgain, Report, CountAgain, Retry, RetryFails, Close, queueVars
<1>8. CASE Answer \/ SendFails \/ QueueFails
    BY <1>1, <1>8 DEF Answer, Answered, SendFails, QueueFails, Fails, queueVars
<1>9. CASE Mark
    <2>1. /\ chunks' = chunks /\ stage' = "report"
          /\ delivered' = delivered \cup (accepted \cap DOMAIN chunks)
        BY <1>9 DEF Mark, MarkDelivered
    <2> QED
        BY <2>1 DEF OfferInv, RowsKept, OldestFirst
<1>10. CASE UNCHANGED vars
    BY <1>2, <1>10 DEF vars, queueVars, loopVars
<1> QED
    BY <1>3, <1>4, <1>5, <1>6, <1>7, <1>8, <1>9, <1>10 DEF Next, QueueStep

\* What a flush is sending is older than every other pending row, to the moment it
\* is answered, whatever is sealed in between (queue.ts 41).
THEOREM OffersOldestFirst == Spec => []OldestFirst
<1>1. Init => OfferInv
    <2> SUFFICES ASSUME Init PROVE OfferInv
        OBVIOUS
    <2>1. DOMAIN chunks = {} /\ delivered = {} /\ stage = "idle"
        BY DEF Init, QueueInit
    <2> QED
        BY <2>1, FS_EmptySet DEF OfferInv, RowsKept, OldestFirst
<1>2. OfferInv /\ [Next]_vars => OfferInv'
    BY OfferStep
<1>3. OfferInv => OldestFirst
    BY DEF OfferInv
<1> QED
    BY <1>1, <1>2, <1>3, PTL DEF Spec

-----------------------------------------------------------------------------
(* The types, and the growing delay.                                        *)

\* A power of two counts the subsets of a finite set.
LEMMA PowerOfTwo == ASSUME NEW n \in Nat PROVE 2^n \in Nat
<1>1. IsFiniteSet(1..n) /\ Cardinality(1..n) = n
    BY FS_Interval
<1>2. IsFiniteSet(SUBSET (1..n)) /\ Cardinality(SUBSET (1..n)) = 2^n
    BY <1>1, FS_SUBSET
<1> QED
    BY <1>2, FS_CardinalityType

\* The delay after n failures is a natural number, and no longer than the cap.
LEMMA BackoffType ==
    ASSUME NEW n \in Nat \ {0}
    PROVE  Backoff(n) \in 0..MaxDelay
<1> DEFINE doubled == BaseDelay * 2^(n - 1)
<1>1. n - 1 \in Nat
    OBVIOUS
<1>2. 2^(n - 1) \in Nat
    BY <1>1, PowerOfTwo
<1>3. doubled \in Nat /\ MaxDelay \in Nat
    BY <1>2, DelaysAssumption
<1>4. Backoff(n) = Min({doubled, MaxDelay})
    BY DEF Backoff
<1> HIDE DEF doubled
<1>5. \E m \in {doubled, MaxDelay} : \A k \in {doubled, MaxDelay} : m <= k
    BY <1>3
<1>6. /\ Min({doubled, MaxDelay}) \in {doubled, MaxDelay}
      /\ \A k \in {doubled, MaxDelay} : Min({doubled, MaxDelay}) <= k
    BY <1>5 DEF Min
<1> QED
    BY <1>3, <1>4, <1>6

\* No failure is outstanding after a success and while it is reported, one is in the
\* catch block, and a page that is gone runs nothing.
LoopInv ==
    /\ RowsKept
    /\ TypeOK
    /\ stage \in {"nothing", "report", "count"} => failures = 0
    /\ stage = "failed" => failures # 0
    /\ stage # "mark" => accepted = {}
    /\ LoopComesBack

\* The longest a scheduled attempt may be off.
Horizon == IF failures = 0 THEN Interval ELSE Backoff(failures)

LEMMA HorizonType == ASSUME failures \in Nat PROVE Horizon \in Nat
<1>1. CASE failures = 0
    BY <1>1, DelaysAssumption DEF Horizon
<1>2. CASE failures # 0
    BY <1>2, BackoffType, DelaysAssumption DEF Horizon
<1> QED
    BY <1>1, <1>2

LEMMA ComesBackWithin ==
    LoopComesBack <=> (running /\ stage = "idle" /\ ~stalled => timer \in 0..Horizon)
BY DEF LoopComesBack, Horizon, Backoff

LEMMA ComesBackWithinNext ==
    LoopComesBack' <=> (running' /\ stage' = "idle" /\ ~stalled' => timer' \in 0..Horizon')
BY DEF LoopComesBack, Horizon, Backoff

\* The read of the pending rows offers rows of the store.
LEMMA ReadOffersRows ==
    ASSUME RowsKept, ReadPending
    PROVE  batch' \subseteq DOMAIN chunks
<1>1. BatchLimit \in Nat
    BY LoopBoundsAssumption
<1> QED
    BY <1>1, PendingIsLowest DEF ReadPending, PendingSeqs

LEMMA SealKeepsLoop == ASSUME LoopInv, Seal PROVE LoopInv'
<1>1. /\ RowsKept' /\ NextSeq \in Nat
      /\ DOMAIN chunks' = DOMAIN chunks \cup {NextSeq}
      /\ UNCHANGED <<delivered, batch, accepted>>
      /\ stage' = IF stage = "idle" THEN "pending" ELSE stage
    BY SealAddsRow DEF LoopInv
<1>2. /\ UNCHANGED <<alive, running, timer, failures, netFaults, diskFaults, pageCount>>
      /\ stalled' = FALSE
    BY DEF Seal, Flush, countVars
<1>3. TypeOK'
    BY <1>1, <1>2 DEF LoopInv, TypeOK, Stages
<1>4. stage' # "idle"
    BY <1>1
<1> QED
    BY <1>1, <1>2, <1>3, <1>4 DEF LoopInv, LoopComesBack

LEMMA MarkKeepsLoop == ASSUME LoopInv, Mark PROVE LoopInv'
<1>1. /\ UNCHANGED <<chunks, alive, running, timer, stalled, netFaults, diskFaults, pageCount>>
      /\ delivered' = delivered \cup (accepted \cap DOMAIN chunks)
      /\ failures' = 0 /\ stage' = "report" /\ batch' = {} /\ accepted' = {}
    BY DEF Mark, MarkDelivered, countVars
<1>2. RowsKept'
    BY <1>1 DEF LoopInv, RowsKept
<1>3. TypeOK'
    BY <1>1 DEF LoopInv, TypeOK, Stages
<1> QED
    BY <1>1, <1>2, <1>3 DEF LoopInv, LoopComesBack

\* The steps that leave the rows alone: what is to show is the types and the timer.
LEMMA LoopStep ==
    ASSUME LoopInv, [Next]_vars
    PROVE  LoopInv'
<1> USE DEF LoopInv
<1>1. ASSUME UNCHANGED queueVars PROVE RowsKept'
    BY <1>1 DEF RowsKept, queueVars
<1>2. Horizon \in Nat /\ Interval \in Nat
    BY HorizonType, DelaysAssumption DEF TypeOK
<1>3. CASE Start
    <2>1. /\ UNCHANGED <<queueVars, stage, batch, accepted, failures, stalled, netFaults, diskFaults>>
          /\ alive' /\ running' /\ timer' = 0 /\ pageCount' = pageCount + 1
        BY <1>3 DEF Start
    <2>2. TypeOK'
        BY <2>1 DEF TypeOK, queueVars
    <2>3. LoopComesBack'
        BY <1>2, <2>1, ComesBackWithinNext DEF Horizon
    <2> QED
        BY <1>1, <2>1, <2>2, <2>3
<1>4. CASE Stop
    <2>1. /\ UNCHANGED <<queueVars, alive, stage, batch, accepted, failures, stalled, countVars>>
          /\ running' = FALSE /\ timer' = Off
        BY <1>4 DEF Stop
    <2>2. TypeOK'
        BY <2>1 DEF TypeOK, queueVars, countVars
    <2> QED
        BY <1>1, <2>1, <2>2 DEF LoopComesBack
<1>5. CASE Fire
    <2>1. /\ UNCHANGED <<queueVars, alive, running, batch, accepted, failures, countVars>>
          /\ timer' = Off /\ stalled' = FALSE
          /\ stage' = IF stage = "idle" THEN "pending" ELSE stage
        BY <1>5 DEF Fire, Flush
    <2>2. TypeOK'
        BY <2>1 DEF TypeOK, queueVars, countVars, Stages
    <2>3. stage' # "idle"
        BY <2>1
    <2> QED
        BY <1>1, <2>1, <2>2, <2>3 DEF LoopComesBack
<1>6. CASE ReadPending
    <2>1. /\ UNCHANGED <<queueVars, alive, running, timer, accepted, failures, stalled, countVars>>
          /\ stage = "pending" /\ stage' = "send"
        BY <1>6 DEF ReadPending
    <2>2. batch' \subseteq DOMAIN chunks
        BY <1>6, ReadOffersRows
    <2>3. TypeOK'
        BY <2>1, <2>2 DEF TypeOK, queueVars, countVars, Stages
    <2> QED
        BY <1>1, <2>1, <2>3 DEF LoopComesBack
<1>7. CASE ReadNothing
    <2>1. /\ UNCHANGED <<queueVars, alive, running, timer, batch, accepted, stalled, countVars>>
          /\ stage = "pending" /\ stage' = "nothing" /\ failures' = 0
        BY <1>7 DEF ReadNothing
    <2>2. TypeOK'
        BY <2>1 DEF TypeOK, queueVars, countVars, Stages
    <2> QED
        BY <1>1, <2>1, <2>2 DEF LoopComesBack
<1>8. CASE IdleAgain \/ CountAgain
    <2>1. /\ UNCHANGED <<queueVars, alive, running, batch, accepted, failures, stalled, countVars>>
          /\ stage \in {"nothing", "count"} /\ stage' = "idle"
          /\ failures = 0
        BY <1>8 DEF IdleAgain, CountAgain
    <2>2. /\ timer' \in Nat \cup {Off}
          /\ running => timer' \in 0..Interval
          /\ ~running => timer' = Off
        BY <1>2, <1>8 DEF IdleAgain, CountAgain, Schedule, TypeOK
    <2>3. TypeOK'
        BY <2>1, <2>2 DEF TypeOK, queueVars, countVars, Stages
    <2>4. LoopComesBack'
        BY <2>1, <2>2 DEF LoopComesBack
    <2> QED
        BY <1>1, <2>1, <2>3, <2>4
<1>9. CASE Answer
    <2>1. /\ UNCHANGED <<queueVars, alive, running, timer, batch, failures, stalled, countVars>>
          /\ accepted' \subseteq batch /\ stage' = "mark"
        BY <1>9 DEF Answer, Answered
    <2>2. TypeOK'
        BY <2>1 DEF TypeOK, queueVars, countVars, Stages
    <2> QED
        BY <1>1, <2>1, <2>2 DEF LoopComesBack
<1>10. CASE Mark
    BY <1>10, MarkKeepsLoop
<1>11. CASE Report
    <2>1. /\ UNCHANGED <<queueVars, alive, running, timer, batch, accepted, failures, stalled,
                         countVars>>
          /\ stage = "report" /\ stage' = "count"
        BY <1>11 DEF Report
    <2>2. TypeOK'
        BY <2>1 DEF TypeOK, queueVars, countVars, Stages
    <2> QED
        BY <1>1, <2>1, <2>2 DEF LoopComesBack
<1>12. CASE SendFails \/ QueueFails
    <2>1. /\ UNCHANGED <<queueVars, alive, running, timer, stalled, pageCount>>
          /\ failures' = failures + 1 /\ stage' = "failed"
          /\ batch' = {} /\ accepted' = {}
          /\ netFaults' \in Nat /\ diskFaults' \in Nat
        BY <1>12 DEF SendFails, QueueFails, Fails, TypeOK
    <2>2. TypeOK'
        BY <2>1 DEF TypeOK, queueVars, Stages
    <2>3. failures' # 0
        BY <2>1 DEF TypeOK
    <2> QED
        BY <1>1, <2>1, <2>2, <2>3 DEF LoopComesBack
<1>13. CASE Retry
    <2>1. /\ UNCHANGED <<queueVars, alive, running, batch, accepted, failures, stalled, countVars>>
          /\ timer' = IF running THEN Horizon ELSE timer
          /\ stage = "failed" /\ stage' = "idle"
        BY <1>13 DEF Retry, Schedule, Horizon
    <2>2. TypeOK'
        BY <1>2, <2>1 DEF TypeOK, queueVars, countVars, Stages
    <2>3. Horizon' = Horizon
        BY <2>1 DEF Horizon, Backoff
    <2>4. LoopComesBack'
        BY <1>2, <2>1, <2>3, ComesBackWithinNext
    <2> QED
        BY <1>1, <2>1, <2>2, <2>4
<1>14. CASE RetryFails
    <2>1. /\ UNCHANGED <<queueVars, alive, running, timer, batch, accepted, failures, netFaults,
                         pageCount>>
          /\ stage = "failed" /\ stage' = "idle" /\ stalled' = TRUE /\ diskFaults' \in Nat
        BY <1>14 DEF RetryFails, TypeOK
    <2>2. TypeOK'
        BY <2>1 DEF TypeOK, queueVars, Stages
    <2> QED
        BY <1>1, <2>1, <2>2 DEF LoopComesBack
<1>15. CASE Seal
    BY <1>15, SealKeepsLoop
<1>16. CASE Close
    <2>1. /\ UNCHANGED <<queueVars, countVars>>
          /\ alive' = FALSE /\ running' = FALSE /\ timer' = Off /\ stage' = "idle"
          /\ batch' = {} /\ accepted' = {} /\ failures' = 0 /\ stalled' = FALSE
        BY <1>16 DEF Close
    <2>2. TypeOK'
        BY <2>1 DEF TypeOK, queueVars, countVars, Stages
    <2> QED
        BY <1>1, <2>1, <2>2 DEF LoopComesBack
<1>17. CASE UNCHANGED vars
    <2>1. UNCHANGED <<queueVars, loopVars, countVars>>
        BY <1>17 DEF vars
    <2>2. TypeOK'
        BY <2>1 DEF TypeOK, queueVars, loopVars, countVars
    <2>3. LoopComesBack'
        BY <2>1 DEF LoopComesBack, loopVars
    <2> QED
        BY <1>1, <2>1, <2>2, <2>3 DEF loopVars
<1> QED
    BY <1>3, <1>4, <1>5, <1>6, <1>7, <1>8, <1>9, <1>10, <1>11, <1>12, <1>13, <1>14, <1>15,
       <1>16, <1>17 DEF Next, QueueStep

LEMMA LoopInvariant == Spec => []LoopInv
<1>1. Init => LoopInv
    <2> SUFFICES ASSUME Init PROVE LoopInv
        OBVIOUS
    <2>1. /\ DOMAIN chunks = {} /\ delivered = {} /\ batch = {} /\ accepted = {}
          /\ alive = FALSE /\ running = FALSE /\ timer = Off /\ stage = "idle"
          /\ failures = 0 /\ stalled = FALSE /\ netFaults = 0 /\ diskFaults = 0 /\ pageCount = 0
        BY DEF Init, QueueInit
    <2>2. RowsKept
        BY <2>1, FS_EmptySet DEF RowsKept
    <2>3. {netFaults, diskFaults, pageCount} \subseteq Nat
        BY <2>1
    <2>4. /\ DOMAIN chunks \subseteq Nat /\ delivered \subseteq DOMAIN chunks
          /\ batch \subseteq DOMAIN chunks /\ accepted \subseteq batch
        BY <2>1
    <2>5. TypeOK
        BY <2>1, <2>3, <2>4 DEF TypeOK, Stages
    <2> QED
        BY <2>1, <2>2, <2>5 DEF LoopInv, LoopComesBack
<1>2. LoopInv /\ [Next]_vars => LoopInv'
    BY LoopStep
<1> QED
    BY <1>1, <1>2, PTL DEF Spec

\* The loop, its timer and its counters keep their types; what a flush offers are rows
\* of the queue, and what it takes for accepted is among them.
THEOREM LoopTypes == Spec => []TypeOK
<1>1. LoopInv => TypeOK
    BY DEF LoopInv
<1> QED
    BY <1>1, LoopInvariant, PTL

\* "Keeps going when it cannot" (sync.ts 49): whatever fails, a running loop at rest has
\* its next attempt scheduled within the interval or the capped doubling delay, unless
\* the report of a failure failed as well.
THEOREM NextAttemptScheduled == Spec => []LoopComesBack
<1>1. LoopInv => LoopComesBack
    BY DEF LoopInv
<1> QED
    BY <1>1, LoopInvariant, PTL

-----------------------------------------------------------------------------
(* The round.  Its server's steps are those of the instance the lemmas of   *)
(* SessionStoreProofs are about.                                            *)

LEMMA StoreAssumed == Store!StoreAssumption
<1>1. MaxRows \in Nat
    BY LoopBoundsAssumption
<1>2. IsFiniteSet(0..(MaxRows - 1))
    BY <1>1, FS_Interval
<1>3. Store!IsFiniteSet(0..(MaxRows - 1))
    BY <1>2 DEF IsFiniteSet, Store!IsFiniteSet
<1> QED
    BY <1>1, <1>3, RoundAssumption DEF Store!StoreAssumption

LEMMA InitIsStore == ASSUME Server!Init PROVE Store!Init
BY DEF Server!Init, Store!Init, Server!NotRead, Store!NotRead

LEMMA ReceiveIsStore ==
    ASSUME NEW seqs, Server!Receive(Owner, seqs)
    PROVE  Store!Receive(Owner, seqs)
BY DEF Server!Receive, Store!Receive

LEMMA ReadThrowsIsStore == ASSUME Server!ReadThrows(Owner) PROVE Store!ReadThrows(Owner)
BY DEF Server!ReadThrows, Store!ReadThrows, Server!Running, Store!Running, Server!NotRead,
       Store!NotRead, Server!Readable, Store!Readable, Server!Refuse, Store!Refuse,
       Server!Finish, Store!Finish, Server!ToSet, Store!ToSet, Server!storeCounts, Store!storeCounts

LEMMA ReadAllHeldIsStore == ASSUME Server!ReadAllHeld(Owner) PROVE Store!ReadAllHeld(Owner)
BY DEF Server!ReadAllHeld, Store!ReadAllHeld, Server!Running, Store!Running, Server!NotRead,
       Store!NotRead, Server!Readable, Store!Readable, Server!Acknowledge, Store!Acknowledge,
       Server!Finish, Store!Finish, Server!ToSet, Store!ToSet, Server!Held, Store!Held,
       Server!storeCounts, Store!storeCounts

LEMMA ReadFreshIsStore == ASSUME Server!ReadFresh(Owner) PROVE Store!ReadFresh(Owner)
BY DEF Server!ReadFresh, Store!ReadFresh, Server!Running, Store!Running, Server!NotRead,
       Store!NotRead, Server!Readable, Store!Readable, Server!ToSet, Store!ToSet,
       Server!Held, Store!Held, Server!Ascending, Store!Ascending, Server!Rank, Store!Rank,
       Server!Cardinality, Store!Cardinality,
       Server!storeCounts, Store!storeCounts

LEMMA AppendFileIsStore == ASSUME Server!AppendFile(Owner) PROVE Store!AppendFile(Owner)
BY DEF Server!AppendFile, Store!AppendFile, Server!Running, Store!Running, Server!NotRead,
       Store!NotRead, Server!Write, Store!Write, Server!Appended, Store!Appended,
       Server!Lines, Store!Lines, Server!Front, Store!Front, Server!Last, Store!Last,
       Server!Acknowledge, Store!Acknowledge, Server!Finish, Store!Finish,
       Server!storeCounts, Store!storeCounts

LEMMA AppendFailsIsStore == ASSUME Server!AppendFails(Owner) PROVE Store!AppendFails(Owner)
BY DEF Server!AppendFails, Store!AppendFails, Server!Running, Store!Running, Server!NotRead,
       Store!NotRead, Server!Write, Store!Write, Server!Appended, Store!Appended,
       Server!Lines, Store!Lines, Server!Front, Store!Front, Server!Last, Store!Last,
       Server!CutShort, Store!CutShort, Server!Refuse, Store!Refuse, Server!Finish, Store!Finish

LEMMA CrashIsStore == ASSUME Server!Crash PROVE Store!Crash
BY DEF Server!Crash, Store!Crash, Server!Forget, Store!Forget, Server!NotRead, Store!NotRead

LEMMA CrashInWriteIsStore == ASSUME Server!CrashInWrite(Owner) PROVE Store!CrashInWrite(Owner)
BY DEF Server!CrashInWrite, Store!CrashInWrite, Server!Running, Store!Running, Server!NotRead,
       Store!NotRead, Server!Write, Store!Write, Server!Appended, Store!Appended,
       Server!Lines, Store!Lines, Server!Front, Store!Front, Server!Last, Store!Last,
       Server!CutShort, Store!CutShort, Server!Forget, Store!Forget

LEMMA RestartIsStore == ASSUME Server!Restart PROVE Store!Restart
BY DEF Server!Restart, Store!Restart, Server!storeCounts, Store!storeCounts

-----------------------------------------------------------------------------
(* The invariant of a round.                                                *)

\* What a flush sends are rows of the queue, under a ticket of its own.
PageInv ==
    /\ RowsKept
    /\ DOMAIN chunks \subseteq 0..(MaxRows - 1)
    /\ batch \subseteq DOMAIN chunks
    /\ ticket \in Nat
    /\ stage = "send" => ticket > 0

\* The loop's fetch waits for the response to this ticket.
Awaited(t) == stage = "send" /\ t = ticket

\* A 200 the loop may act on lists the rows of its batch.
RepliesAreOfBatch ==
    \A r \in replies : stage = "send" /\ r.status = 200 => r.seqs = batch

\* Wherever the awaited request is - on its way, in the chain, answered - it
\* carries the batch, and no ticket is given twice.
WireInv ==
    /\ \A m \in net : /\ m.seqs \subseteq DOMAIN chunks
                      /\ m.ticket \in 0..ticket
                      /\ Awaited(m.ticket) => m.seqs = batch
    /\ origins \in Seq(Nat)
    /\ Len(origins) = requests
    /\ \A i \in 1..Len(origins) : origins[i] <= ticket
    /\ \A i \in 1..Len(work[Owner]) :
           /\ work[Owner][i].seqs \subseteq DOMAIN chunks
           /\ Awaited(origins[work[Owner][i].id + 1]) => work[Owner][i].seqs = batch
    /\ RepliesAreOfBatch

RoundInv == PageInv /\ WireInv /\ Store!StoreInv

\* What is settled, or about to be, was acknowledged or refused.
HeldInv ==
    /\ Store!AckedIsKept
    /\ ServerHeld \subseteq DOMAIN chunks
    /\ acked[Owner] \subseteq DOMAIN chunks
    /\ rejected \subseteq DOMAIN chunks
    /\ delivered \cup accepted \subseteq acked[Owner] \cup rejected
    /\ \A r \in replies : /\ r.status \in {0, 200, 400}
                          /\ stage = "send" /\ r.status = 200 => batch \subseteq acked[Owner]

\* A step of the promise, or none.
Kept ==
    [Promise!Seal \/ Promise!Hold \/ Promise!Spoil \/ Promise!Refuse \/ Promise!Settle]_Promise!vars

LEMMA StoreFacts ==
    ASSUME Store!StoreInv
    PROVE  /\ work \in [{Owner} -> Seq([id : Nat, seqs : SUBSET (0..(MaxRows - 1))])]
           /\ Len(work[Owner]) \in Nat
           /\ \A i \in 1..Len(work[Owner]) :
                  work[Owner][i].id \in Nat /\ work[Owner][i].id < requests
           /\ requests \in Nat
<1>1. /\ work \in [{Owner} -> Seq([id : Nat, seqs : SUBSET (0..(MaxRows - 1))])]
      /\ requests \in Nat
      /\ \A i \in 1..Len(work[Owner]) : work[Owner][i].id < requests
    BY DEF Store!StoreInv, Store!Typed, Store!IdsGiven, Store!Request
<1>2. work[Owner] \in Seq([id : Nat, seqs : SUBSET (0..(MaxRows - 1))])
    BY <1>1
<1>3. \A i \in 1..Len(work[Owner]) :
          work[Owner][i] \in [id : Nat, seqs : SUBSET (0..(MaxRows - 1))]
    BY <1>2, ElementOfSeq
<1> QED
    BY <1>1, <1>2, <1>3

LEMMA HeldIsWhole ==
    /\ ServerHeld = Store!WholeSeqs(Owner)
    /\ ServerHeld' = Store!WholeSeqs(Owner)'
    /\ Server!Readable(Owner) <=> Store!Readable(Owner)
    /\ (Server!Readable(Owner))' <=> (Store!Readable(Owner))'
BY DEF ServerHeld, Server!WholeSeqs, Server!ToSet, Store!WholeSeqs, Store!ToSet,
       Server!Readable, Store!Readable

\* A file nothing is written to, and of which nothing more is acknowledged.
LEMMA SameFile ==
    ASSUME UNCHANGED <<disk, acked>>
    PROVE  /\ Store!AckedIsKept => Store!AckedIsKept'
           /\ ServerHeld' = ServerHeld
           /\ Spoiled' = Spoiled
           /\ Server!Readable(Owner)' = Server!Readable(Owner)
<1>1. Store!AckedIsKept => Store!AckedIsKept'
    BY DEF Store!AckedIsKept, Store!WholeSeqs, Store!Readable
<1>2. ServerHeld' = ServerHeld
    BY DEF ServerHeld, Server!WholeSeqs
<1>3. Spoiled' = Spoiled
    BY <1>2 DEF Spoiled
<1>4. Server!Readable(Owner)' = Server!Readable(Owner)
    BY DEF Server!Readable
<1> QED
    BY <1>1, <1>2, <1>3, <1>4

LEMMA ServerAtRest ==
    ASSUME UNCHANGED serverVars
    PROVE  /\ Store!StoreInv => Store!StoreInv'
           /\ Store!AckedIsKept => Store!AckedIsKept'
           /\ ServerHeld' = ServerHeld
           /\ Spoiled' = Spoiled
           /\ Server!Readable(Owner)' = Server!Readable(Owner)
           /\ acked' = acked
<1>1. UNCHANGED Store!vars
    BY DEF serverVars, Store!vars, Store!storeVars, Store!storeCounts
<1>2. Store!StoreInv => Store!StoreInv'
    BY <1>1, StoreAssumed, Store!StutterKeeps
<1>3. UNCHANGED <<disk, acked>>
    BY DEF serverVars
<1> QED
    BY <1>2, <1>3, SameFile

\* Two that cover some of a set can be taken from the set.
LEMMA TwoOfThem ==
    ASSUME NEW S, NEW T, S # {}, S \subseteq T, \E old, new : S \subseteq {old, new}
    PROVE  \E old, new \in T : S \subseteq {old, new}
<1>1. PICK old, new : S \subseteq {old, new}
    OBVIOUS
<1>2. PICK some \in S : some \in T
    OBVIOUS
<1>3. CASE old \in S /\ new \in S
    BY <1>1, <1>3
<1>4. CASE old \notin S \/ new \notin S
    <2>1. S \subseteq {some, some}
        BY <1>1, <1>2, <1>4
    <2> QED
        BY <1>2, <2>1
<1> QED
    BY <1>3, <1>4

\* What was acknowledged is in the file or spoiled.
LEMMA AckedHeldOrSpoiled == acked[Owner] \subseteq ServerHeld \cup Spoiled
BY DEF Spoiled

-----------------------------------------------------------------------------
(* The page's steps.                                                        *)

\* What a step may do to the page without breaking what is on the wire: rows are
\* added, and the awaited batch stays or is awaited no more.
PageMoves ==
    /\ RowsKept'
    /\ DOMAIN chunks \subseteq DOMAIN chunks'
    /\ DOMAIN chunks' \subseteq 0..(MaxRows - 1)
    /\ batch' \subseteq batch
    /\ stage' = "send" => stage = "send" /\ batch' = batch

LEMMA PageMovesKeep ==
    ASSUME RoundInv, PageMoves, UNCHANGED <<serverVars, ticket, origins>>,
           net' \subseteq net, replies' \subseteq replies
    PROVE  RoundInv'
<1>1. PageInv /\ WireInv
    BY DEF RoundInv
<1>2. PageInv'
    BY <1>1 DEF PageInv, PageMoves
<1>3. \A t : Awaited(t)' => Awaited(t) /\ batch' = batch
    BY DEF Awaited, PageMoves
<1>4. UNCHANGED <<work, requests>>
    BY DEF serverVars
<1>5. \A m \in net' : /\ m.seqs \subseteq DOMAIN chunks'
                      /\ m.ticket \in 0..ticket'
                      /\ Awaited(m.ticket)' => m.seqs = batch'
    BY <1>1, <1>3 DEF WireInv, PageMoves
<1>6. \A i \in 1..Len(work[Owner]) :
           /\ work[Owner][i].seqs \subseteq DOMAIN chunks'
           /\ Awaited(origins[work[Owner][i].id + 1])' => work[Owner][i].seqs = batch'
    BY <1>1, <1>4 DEF WireInv, PageMoves, Awaited
<1>7. RepliesAreOfBatch'
    BY <1>1 DEF WireInv, RepliesAreOfBatch, PageMoves
<1>8. WireInv'
    BY <1>1, <1>4, <1>5, <1>6, <1>7 DEF WireInv, Awaited
<1> QED
    BY <1>2, <1>8, ServerAtRest DEF RoundInv

\* Whatever the page does by itself is such a step, and settles no more than was
\* accepted.
LEMMA QuietMoves ==
    ASSUME PageInv, Quiet
    PROVE  /\ PageMoves
           /\ accepted' \subseteq accepted
           /\ delivered \subseteq delivered' /\ delivered' \subseteq delivered \cup accepted
           /\ DOMAIN chunks' = DOMAIN chunks \/ delivered' = delivered
<1>1. /\ RowsKept /\ DOMAIN chunks \subseteq 0..(MaxRows - 1)
    BY DEF PageInv
<1>2. ASSUME UNCHANGED <<chunks, delivered, accepted, batch>>,
             stage' = stage \/ stage' # "send"
      PROVE  PageMoves /\ UNCHANGED <<chunks, delivered, accepted>>
    BY <1>1, <1>2 DEF PageMoves, RowsKept
<1>3. ASSUME UNCHANGED <<chunks, delivered>>, accepted' = {}, batch' = {}, stage' # "send"
      PROVE  PageMoves /\ UNCHANGED <<chunks, delivered>>
    BY <1>1, <1>3 DEF PageMoves, RowsKept
<1>4. CASE Start \/ Stop \/ Fire
    BY <1>2, <1>4 DEF Start, Stop, Fire, Flush, queueVars
<1>5. CASE ReadNothing \/ IdleAgain \/ Report \/ CountAgain \/ Retry \/ RetryFails
    BY <1>2, <1>5 DEF ReadNothing, IdleAgain, Report, CountAgain, Retry, RetryFails, queueVars
<1>6. CASE Close \/ QueueFails
    BY <1>3, <1>6 DEF Close, QueueFails, Fails, queueVars
<1>7. CASE Seal
    <2>1. /\ RowsKept'
          /\ NextSeq \in Nat /\ NextSeq < MaxRows
          /\ DOMAIN chunks' = DOMAIN chunks \cup {NextSeq}
          /\ UNCHANGED <<delivered, batch, accepted>>
          /\ stage' = IF stage = "idle" THEN "pending" ELSE stage
        BY <1>1, <1>7, SealAddsRow
    <2>2. DOMAIN chunks' \subseteq 0..(MaxRows - 1)
        BY <1>1, <2>1, LoopBoundsAssumption
    <2> QED
        BY <2>1, <2>2 DEF PageMoves
<1>8. CASE Mark
    <2>1. /\ chunks' = chunks /\ stage' = "report" /\ batch' = {} /\ accepted' = {}
          /\ delivered' = delivered \cup (accepted \cap DOMAIN chunks)
        BY <1>8 DEF Mark, MarkDelivered
    <2> QED
        BY <1>1, <2>1 DEF PageMoves, RowsKept
<1> QED
    BY <1>2, <1>3, <1>4, <1>5, <1>6, <1>7, <1>8 DEF Quiet

LEMMA PageMovesHold ==
    ASSUME RoundInv, HeldInv, PageMoves, UNCHANGED <<serverVars, rejected>>, replies' \subseteq replies,
           accepted' \subseteq accepted,
           delivered \subseteq delivered', delivered' \subseteq delivered \cup accepted,
           DOMAIN chunks' = DOMAIN chunks \/ delivered' = delivered
    PROVE  HeldInv' /\ Kept
<1>1. /\ Store!AckedIsKept' /\ ServerHeld' = ServerHeld /\ Spoiled' = Spoiled
      /\ Server!Readable(Owner)' = Server!Readable(Owner) /\ acked' = acked
    BY ServerAtRest DEF HeldInv
<1>2. delivered' \cup accepted' \subseteq acked[Owner] \cup rejected
    BY DEF HeldInv
<1>3. \A r \in replies' : /\ r.status \in {0, 200, 400}
                          /\ stage' = "send" /\ r.status = 200 => batch' \subseteq acked[Owner]
    BY DEF HeldInv, PageMoves
<1>4. /\ ServerHeld \subseteq DOMAIN chunks' /\ acked[Owner] \subseteq DOMAIN chunks'
      /\ rejected \subseteq DOMAIN chunks'
    BY DEF HeldInv, PageMoves
<1>5. HeldInv'
    BY <1>1, <1>2, <1>3, <1>4 DEF HeldInv
<1>6. CASE DOMAIN chunks' = DOMAIN chunks
    <2>1. delivered' \subseteq ServerHeld \cup Spoiled \cup rejected
        BY <1>2, AckedHeldOrSpoiled
    <2> QED
        BY <1>1, <1>5, <1>6, <2>1 DEF Kept, Promise!Settle, Promise!vars
<1>7. CASE delivered' = delivered
    BY <1>1, <1>5, <1>7 DEF Kept, Promise!Seal, Promise!vars, PageMoves
<1> QED
    BY <1>6, <1>7

\* The rows of a batch are rows of the queue.
LEMMA BatchIsOfQueue ==
    ASSUME RowsKept
    PROVE  LET rows == Pending(BatchLimit)
           IN  {rows[i].seq : i \in DOMAIN rows} \subseteq DOMAIN chunks
<1>1. BatchLimit \in Nat
    BY LoopBoundsAssumption
<1> QED
    BY <1>1, PendingIsLowest DEF PendingSeqs

\* A new ticket is nobody's yet.
LEMMA PostKeeps ==
    ASSUME RoundInv, Post
    PROVE  RoundInv'
<1>1. PageInv /\ WireInv
    BY DEF RoundInv
<1>2. /\ UNCHANGED <<chunks, delivered, serverVars, origins, work, requests>>
      /\ stage' = "send" /\ batch' \subseteq DOMAIN chunks
      /\ ticket' = ticket + 1 /\ replies' = {}
      /\ net' = net \cup {[ticket |-> ticket + 1, seqs |-> batch']}
    BY <1>1, BatchIsOfQueue DEF Post, ReadPending, PageInv, queueVars, serverVars
<1>3. PageInv'
    BY <1>1, <1>2 DEF PageInv, RowsKept
<1>4. ASSUME NEW m \in net'
      PROVE  /\ m.seqs \subseteq DOMAIN chunks'
             /\ m.ticket \in 0..ticket'
             /\ Awaited(m.ticket)' => m.seqs = batch'
    <2>1. CASE m \in net
        <3>1. m.seqs \subseteq DOMAIN chunks /\ m.ticket \in 0..ticket
            BY <1>1, <2>1 DEF WireInv
        <3> QED
            BY <1>1, <1>2, <3>1 DEF PageInv, Awaited
    <2>2. CASE m = [ticket |-> ticket + 1, seqs |-> batch']
        BY <1>1, <1>2, <2>2 DEF PageInv
    <2> QED
        BY <1>2, <2>1, <2>2
<1>5. ASSUME NEW i \in 1..Len(work[Owner])
      PROVE  /\ work[Owner][i].seqs \subseteq DOMAIN chunks
             /\ origins[work[Owner][i].id + 1] # ticket'
    <2>1. work[Owner][i].id \in Nat /\ work[Owner][i].id < requests /\ requests \in Nat
        BY <1>5, StoreFacts DEF RoundInv
    <2>2. work[Owner][i].id + 1 \in 1..Len(origins)
        BY <1>1, <2>1 DEF WireInv
    <2>3. origins[work[Owner][i].id + 1] \in Nat /\ origins[work[Owner][i].id + 1] <= ticket
        BY <1>1, <2>2, ElementOfSeq DEF WireInv
    <2> QED
        BY <1>1, <1>2, <2>3 DEF PageInv, WireInv
<1>6. \A i \in 1..Len(work'[Owner]) :
           /\ work'[Owner][i].seqs \subseteq DOMAIN chunks'
           /\ Awaited(origins[work[Owner][i].id + 1])' => work'[Owner][i].seqs = batch'
    BY <1>2, <1>5 DEF Awaited
<1>7. \A i \in 1..Len(origins) : origins[i] <= ticket'
    <2>1. \A i \in 1..Len(origins) : origins[i] \in Nat /\ origins[i] <= ticket
        BY <1>1, ElementOfSeq DEF WireInv
    <2> QED
        BY <1>1, <1>2, <2>1 DEF PageInv
<1>8. RepliesAreOfBatch'
    BY <1>2 DEF RepliesAreOfBatch
<1>9. WireInv'
    BY <1>1, <1>2, <1>4, <1>6, <1>7, <1>8 DEF WireInv
<1> QED
    BY <1>2, <1>3, <1>9, ServerAtRest DEF RoundInv

LEMMA PostHolds ==
    ASSUME HeldInv, Post
    PROVE  HeldInv' /\ Kept
<1>1. /\ UNCHANGED <<chunks, delivered, accepted, rejected, serverVars>>
      /\ replies' = {}
    BY DEF Post, ReadPending, queueVars
<1>2. /\ Store!AckedIsKept' /\ ServerHeld' = ServerHeld /\ Spoiled' = Spoiled
      /\ Server!Readable(Owner)' = Server!Readable(Owner) /\ acked' = acked
    BY <1>1, ServerAtRest DEF HeldInv
<1> QED
    BY <1>1, <1>2 DEF HeldInv, Kept, Promise!vars

\* A beacon's request has no ticket, so no response to it is awaited.
LEMMA BeaconKeeps ==
    ASSUME RoundInv, Beacon
    PROVE  RoundInv'
<1>1. PageInv /\ WireInv
    BY DEF RoundInv
<1>2. PICK seqs \in SUBSET DOMAIN chunks :
          net' = net \cup {[ticket |-> 0, seqs |-> seqs]}
    BY <1>1, BatchIsOfQueue DEF Beacon, NoTicket, PageInv
<1>3. UNCHANGED <<chunks, delivered, batch, stage, ticket, origins, replies, serverVars, work, requests>>
    BY DEF Beacon, vars, queueVars, loopVars, serverVars
<1>4. PageInv'
    BY <1>1, <1>3 DEF PageInv, RowsKept
<1>5. \A m \in net' : /\ m.seqs \subseteq DOMAIN chunks'
                      /\ m.ticket \in 0..ticket'
                      /\ Awaited(m.ticket)' => m.seqs = batch'
    BY <1>1, <1>2, <1>3 DEF WireInv, PageInv, Awaited
<1>6. WireInv'
    BY <1>1, <1>3, <1>5 DEF WireInv, RepliesAreOfBatch, Awaited
<1> QED
    BY <1>3, <1>4, <1>6, ServerAtRest DEF RoundInv

\* Nothing happens to rows or files: no promise is broken.
LEMMA NothingMoves ==
    ASSUME HeldInv, UNCHANGED <<vars, serverVars, replies, rejected>>
    PROVE  HeldInv' /\ Kept
<1>1. /\ Store!AckedIsKept' /\ ServerHeld' = ServerHeld /\ Spoiled' = Spoiled
      /\ Server!Readable(Owner)' = Server!Readable(Owner) /\ acked' = acked
    BY ServerAtRest DEF HeldInv
<1>2. UNCHANGED <<chunks, delivered, accepted, batch, stage>>
    BY DEF vars, queueVars, loopVars
<1> QED
    BY <1>1, <1>2 DEF HeldInv, Kept, Promise!vars

\* The response to the awaited request: what it takes is held, or refused for good.
LEMMA GetReplyKeeps ==
    ASSUME RoundInv, GetReply
    PROVE  RoundInv'
<1>1. /\ UNCHANGED <<chunks, delivered, batch, ticket, origins, serverVars, net>>
      /\ stage' = "mark" /\ replies' \subseteq replies
    BY DEF GetReply, Answered, queueVars
<1>2. PageMoves
    BY <1>1 DEF PageMoves, RoundInv, PageInv, RowsKept
<1> QED
    BY <1>1, <1>2, PageMovesKeep

LEMMA GetReplyHolds ==
    ASSUME RoundInv, HeldInv, GetReply
    PROVE  HeldInv' /\ Kept
<1>1. PICK r \in replies :
          /\ r.status # 0
          /\ Answered(Accepted(r))
          /\ rejected' = IF r.status = 400 THEN rejected \cup batch ELSE rejected
          /\ replies' = replies \ {r}
    BY DEF GetReply
<1>2. /\ UNCHANGED <<chunks, delivered, serverVars>>
      /\ stage = "send" /\ stage' = "mark" /\ accepted' = Accepted(r)
    BY <1>1 DEF GetReply, Answered, queueVars
<1>3. /\ Store!AckedIsKept' /\ ServerHeld' = ServerHeld /\ Spoiled' = Spoiled
      /\ Server!Readable(Owner)' = Server!Readable(Owner) /\ acked' = acked
    BY <1>2, ServerAtRest DEF HeldInv
<1>4. rejected \subseteq rejected' /\ rejected' \subseteq DOMAIN chunks
    BY <1>1 DEF HeldInv, RoundInv, PageInv
<1>5. accepted' \subseteq acked[Owner] \cup rejected'
    <2>1. CASE r.status = 200
        BY <1>2, <2>1 DEF Accepted, HeldInv, RoundInv, WireInv, RepliesAreOfBatch
    <2>2. CASE r.status = 400
        BY <1>1, <1>2, <2>2 DEF Accepted
    <2> QED
        BY <1>1, <2>1, <2>2 DEF HeldInv
<1>6. HeldInv'
    BY <1>1, <1>2, <1>3, <1>4, <1>5 DEF HeldInv
<1>7. Kept
    BY <1>2, <1>3, <1>4 DEF Kept, Promise!Refuse, Promise!vars
<1> QED
    BY <1>6, <1>7

\* A fetch that fails, or is reset, is awaited no more.
LEMMA FailureMoves ==
    ASSUME RoundInv, GetReset \/ Break
    PROVE  /\ PageMoves
           /\ UNCHANGED <<chunks, delivered, serverVars, ticket, origins, rejected>>
           /\ accepted' = {} /\ net' \subseteq net /\ replies' \subseteq replies
<1>1. /\ UNCHANGED <<chunks, delivered, serverVars, ticket, origins, rejected>>
      /\ accepted' = {} /\ batch' = {} /\ stage' = "failed"
      /\ net' \subseteq net /\ replies' \subseteq replies
    BY DEF GetReset, Break, SendFails, Fails, queueVars
<1> QED
    BY <1>1 DEF PageMoves, RoundInv, PageInv, RowsKept

-----------------------------------------------------------------------------
(* The network's and the server's steps.                                    *)

\* A request that arrives is the last of the chain, and its ticket is on record.
LEMMA ArriveKeeps ==
    ASSUME RoundInv, Arrive
    PROVE  RoundInv'
<1>1. PageInv /\ WireInv /\ Store!StoreInv
    BY DEF RoundInv
<1>2. PICK m \in net : /\ Server!Receive(Owner, m.seqs)
                       /\ net' = net \ {m}
                       /\ origins' = Append(origins, m.ticket)
    BY DEF Arrive
<1>3. UNCHANGED <<chunks, delivered, batch, stage, ticket, replies>>
    BY DEF Arrive, vars, queueVars, loopVars
<1>4. /\ m.seqs \subseteq DOMAIN chunks /\ m.ticket \in 0..ticket
      /\ Awaited(m.ticket) => m.seqs = batch
    BY <1>1 DEF WireInv
<1>5. Store!StoreInv'
    <2>1. m.seqs \in SUBSET (0..(MaxRows - 1))
        BY <1>1, <1>4 DEF PageInv
    <2> QED
        BY <1>1, <1>2, <2>1, ReceiveIsStore, StoreAssumed, Store!ReceiveKeeps
<1>6. PageInv'
    BY <1>1, <1>3 DEF PageInv, RowsKept
<1> DEFINE request == [id |-> requests, seqs |-> m.seqs]
<1> DEFINE n == Len(work[Owner])
<1>7. /\ n \in Nat /\ requests \in Nat /\ requests' = requests + 1
      /\ Len(work'[Owner]) = n + 1 /\ work'[Owner][n + 1] = request
      /\ \A i \in 1..n : work'[Owner][i] = work[Owner][i]
    <2>1. /\ work' = [work EXCEPT ![Owner] = Append(@, request)]
          /\ requests' = requests + 1
        BY <1>2 DEF Server!Receive
    <2>2. /\ work \in [{Owner} -> Seq([id : Nat, seqs : SUBSET (0..(MaxRows - 1))])]
          /\ n \in Nat /\ requests \in Nat
        BY <1>1, StoreFacts
    <2>3. work'[Owner] = Append(work[Owner], request)
        BY <2>1, <2>2
    <2>4. work[Owner] \in Seq([id : Nat, seqs : SUBSET (0..(MaxRows - 1))])
        BY <2>2
    <2>5. request \in [id : Nat, seqs : SUBSET (0..(MaxRows - 1))]
        BY <1>1, <1>4, <2>2 DEF PageInv
    <2> HIDE DEF request
    <2> QED
        BY <2>1, <2>2, <2>3, <2>4, <2>5, AppendProperties
<1>8. /\ origins' \in Seq(Nat) /\ Len(origins') = requests' /\ Len(origins) = requests
      /\ origins'[requests + 1] = m.ticket
      /\ \A i \in 1..requests : origins'[i] = origins[i] /\ origins[i] <= ticket
    <2>1. /\ origins \in Seq(Nat) /\ Len(origins) = requests
          /\ \A i \in 1..Len(origins) : origins[i] <= ticket
        BY <1>1 DEF WireInv
    <2>2. m.ticket \in Nat
        BY <1>1, <1>4 DEF PageInv
    <2>3. origins' = Append(origins, m.ticket)
        BY <1>2
    <2> QED
        BY <1>7, <2>1, <2>2, <2>3, AppendProperties
<1>9. \A i \in 1..Len(origins') : origins'[i] <= ticket'
    <2>1. m.ticket <= ticket /\ ticket' = ticket
        BY <1>1, <1>3, <1>4 DEF PageInv
    <2>2. \A i \in 1..Len(origins') : i = requests + 1 \/ i \in 1..requests
        BY <1>7, <1>8
    <2> QED
        BY <1>8, <2>1, <2>2
<1>10. ASSUME NEW i \in 1..Len(work'[Owner])
       PROVE  /\ work'[Owner][i].seqs \subseteq DOMAIN chunks'
              /\ Awaited(origins'[work'[Owner][i].id + 1]) => work'[Owner][i].seqs = batch'
    <2>1. CASE i = n + 1
        <3>1. work'[Owner][i].id = requests /\ work'[Owner][i].seqs = m.seqs
            BY <1>7, <2>1
        <3> QED
            BY <1>3, <1>4, <1>8, <3>1
    <2>2. CASE i \in 1..n
        <3>1. work[Owner][i].id \in Nat /\ work[Owner][i].id < requests
            BY <1>1, <2>2, StoreFacts
        <3>2. work[Owner][i].id + 1 \in 1..requests
            BY <1>7, <3>1
        <3>3. origins'[work[Owner][i].id + 1] = origins[work[Owner][i].id + 1]
            BY <1>8, <3>2
        <3> QED
            BY <1>1, <1>3, <1>7, <2>2, <3>3 DEF WireInv
    <2> QED
        BY <1>7, <2>1, <2>2
<1>11. \A o \in net' : /\ o.seqs \subseteq DOMAIN chunks'
                       /\ o.ticket \in 0..ticket'
                       /\ Awaited(o.ticket)' => o.seqs = batch'
    BY <1>1, <1>2, <1>3 DEF WireInv, Awaited
<1>12. RepliesAreOfBatch'
    BY <1>1, <1>3 DEF WireInv, RepliesAreOfBatch
<1>13. \A i \in 1..Len(work'[Owner]) :
           Awaited(origins[work[Owner][i].id + 1])' => work'[Owner][i].seqs = batch'
    BY <1>3, <1>10 DEF Awaited
<1>14. WireInv'
    BY <1>8, <1>9, <1>10, <1>11, <1>12, <1>13 DEF WireInv
<1> QED
    BY <1>5, <1>6, <1>14 DEF RoundInv

LEMMA ArriveHolds ==
    ASSUME HeldInv, Arrive
    PROVE  HeldInv' /\ Kept
<1>1. /\ UNCHANGED <<chunks, delivered, accepted, batch, stage, replies, rejected>>
      /\ UNCHANGED <<disk, bare, acked>>
    BY DEF Arrive, Server!Receive, vars, queueVars, loopVars
<1>2. /\ Store!AckedIsKept' /\ ServerHeld' = ServerHeld /\ Spoiled' = Spoiled
      /\ Server!Readable(Owner)' = Server!Readable(Owner)
    BY <1>1, SameFile DEF HeldInv
<1> QED
    BY <1>1, <1>2 DEF HeldInv, Kept, Promise!vars

\* The invariants of the server through its own steps.
LEMMA ServerSteps ==
    ASSUME Store!StoreInv,
           \/ Server!WorkStep(Owner) \/ Server!AppendFails(Owner) \/ Server!CrashInWrite(Owner)
           \/ Server!Crash \/ Server!Restart
    PROVE  /\ Store!StoreInv'
           /\ Store!AckedIsKept => Store!AckedIsKept'
<1>1. \/ Store!WorkStep(Owner) \/ Store!AppendFails(Owner) \/ Store!CrashInWrite(Owner)
      \/ Store!Crash \/ Store!Restart
    BY ReadThrowsIsStore, ReadAllHeldIsStore, ReadFreshIsStore, AppendFileIsStore,
       AppendFailsIsStore, CrashInWriteIsStore, CrashIsStore, RestartIsStore
       DEF Server!WorkStep, Store!WorkStep
<1>2. Store!Next
    BY <1>1 DEF Store!Next
<1>3. Store!StoreInv'
    BY <1>2, StoreAssumed, Store!StepKeeps
<1>4. Store!AckedIsKept => Store!AckedIsKept'
    BY <1>2, StoreAssumed, Store!StepKeepsAcked
<1> QED
    BY <1>3, <1>4

\* ... and what they leave of the chain.
LEMMA ChainMoves ==
    ASSUME Store!StoreInv, Server!WorkStep(Owner) \/ Server!AppendFails(Owner)
    PROVE  /\ work[Owner] # << >> /\ requests' = requests
           /\ work' = work \/ work'[Owner] = Tail(work[Owner])
<1>1. /\ work[Owner] # << >> /\ requests' = requests
      /\ work' = work \/ work' = [work EXCEPT ![Owner] = Tail(@)]
    BY DEF Server!WorkStep, Server!ReadThrows, Server!ReadAllHeld, Server!ReadFresh,
           Server!AppendFile, Server!AppendFails, Server!Running, Server!Acknowledge,
           Server!Refuse, Server!Finish, Server!storeCounts
<1> QED
    BY <1>1, StoreFacts

\* Only the response to the awaited ticket reaches the loop, and that ticket is its
\* batch's.
LEMMA ServeKeeps ==
    ASSUME RoundInv, Serve
    PROVE  RoundInv'
<1> DEFINE request == Head(work[Owner])
<1>1. PageInv /\ WireInv /\ Store!StoreInv
    BY DEF RoundInv
<1>2. /\ Server!WorkStep(Owner) \/ Server!AppendFails(Owner)
      /\ UNCHANGED <<chunks, delivered, batch, stage, net, ticket, origins>>
      /\ replies' = IF work' = work THEN replies
                    ELSE IF request.id \in refused' THEN Reply(request.id, 400, {})
                    ELSE Reply(request.id, 200, request.seqs)
    BY DEF Serve, vars, queueVars, loopVars
<1>3. /\ Store!StoreInv' /\ work[Owner] # << >> /\ requests' = requests
      /\ work' = work \/ work'[Owner] = Tail(work[Owner])
    BY <1>1, <1>2, ServerSteps, ChainMoves
<1>4. /\ work[Owner] \in Seq([id : Nat, seqs : SUBSET (0..(MaxRows - 1))])
      /\ Len(work[Owner]) \in Nat
    BY <1>1, StoreFacts
<1>5. request = work[Owner][1] /\ 1 \in 1..Len(work[Owner])
    BY <1>3, <1>4
<1>6. Awaited(origins[request.id + 1]) => request.seqs = batch
    BY <1>1, <1>5 DEF WireInv
<1> HIDE DEF request
<1>7. RepliesAreOfBatch'
    BY <1>1, <1>2, <1>6 DEF WireInv, RepliesAreOfBatch, Reply, Awaited
<1>8. ASSUME NEW i \in 1..Len(work'[Owner])
      PROVE  /\ work'[Owner][i].seqs \subseteq DOMAIN chunks
             /\ Awaited(origins[work'[Owner][i].id + 1]) => work'[Owner][i].seqs = batch
    <2>1. CASE work' = work
        BY <1>1, <2>1 DEF WireInv
    <2>2. CASE work'[Owner] = Tail(work[Owner])
        <3>1. i + 1 \in 1..Len(work[Owner]) /\ work'[Owner][i] = work[Owner][i + 1]
            BY <1>3, <1>4, <2>2
        <3> QED
            BY <1>1, <3>1 DEF WireInv
    <2> QED
        BY <1>3, <2>1, <2>2
<1>9. WireInv'
    BY <1>1, <1>2, <1>3, <1>7, <1>8 DEF WireInv, Awaited
<1>10. PageInv'
    BY <1>1, <1>2 DEF PageInv, RowsKept
<1> QED
    BY <1>3, <1>9, <1>10 DEF RoundInv

\* What the append at the head of a chain does to a file that can be read keeps the
\* promise: if the file still reads, nothing is gone; if not, two rows at most.
LEMMA AppendHolds ==
    ASSUME RoundInv, HeldInv, UNCHANGED <<chunks, delivered, rejected>>,
           Server!WorkStep(Owner) \/ Server!AppendFails(Owner) \/ Server!CrashInWrite(Owner)
    PROVE  /\ Store!AckedIsKept'
           /\ ServerHeld' \subseteq DOMAIN chunks
           /\ acked[Owner] \subseteq acked'[Owner] /\ acked'[Owner] \subseteq DOMAIN chunks
           /\ Kept
<1> DEFINE request == Head(work[Owner])
<1>1. WireInv /\ Store!StoreInv /\ Store!AckedIsKept
    BY DEF RoundInv, HeldInv
<1>2. Store!AckedIsKept'
    BY <1>1, ServerSteps
<1>3. Store!WorkStep(Owner) \/ Store!AppendFails(Owner) \/ Store!CrashInWrite(Owner)
    BY ReadThrowsIsStore, ReadAllHeldIsStore, ReadFreshIsStore, AppendFileIsStore,
       AppendFailsIsStore, CrashInWriteIsStore DEF Server!WorkStep, Store!WorkStep
<1>4. request.seqs \subseteq DOMAIN chunks
    <2>1. work[Owner] # << >>
        BY <1>1, ChainMoves DEF Server!CrashInWrite, Server!Running
    <2>2. work[Owner] \in Seq([id : Nat, seqs : SUBSET (0..(MaxRows - 1))])
        BY <1>1, StoreFacts
    <2>3. request = work[Owner][1] /\ 1 \in 1..Len(work[Owner])
        BY <2>1, <2>2
    <2> QED
        BY <1>1, <2>3 DEF WireInv
<1>5. ServerHeld' \subseteq ServerHeld \cup request.seqs
    <2>1. Store!WholeSeqs(Owner)' \subseteq Store!WholeSeqs(Owner) \cup request.seqs
        BY <1>1, <1>3, StoreAssumed, Store!StepHoldsNoMore
    <2> QED
        BY <2>1, HeldIsWhole
<1>6. acked'[Owner] \subseteq acked[Owner] \cup request.seqs
    <2>1. acked \in [{Owner} -> SUBSET (0..(MaxRows - 1))]
        BY <1>1 DEF Store!StoreInv, Store!Typed
    <2>2. acked' = acked \/ acked' = [acked EXCEPT ![Owner] = @ \cup request.seqs]
        BY DEF Server!WorkStep, Server!ReadThrows, Server!ReadAllHeld, Server!ReadFresh,
               Server!AppendFile, Server!AppendFails, Server!CrashInWrite,
               Server!Acknowledge, Server!Refuse
    <2> QED
        BY <2>1, <2>2
<1> HIDE DEF request
<1>7. /\ acked[Owner] \subseteq acked'[Owner]
      /\ \E old, new :
             /\ ServerHeld \ ServerHeld' \subseteq {old}
             /\ acked'[Owner] \subseteq acked[Owner] \cup ServerHeld' \cup {old, new}
      /\ Server!Readable(Owner)' => /\ ServerHeld \subseteq ServerHeld'
                                    /\ acked'[Owner] \subseteq acked[Owner] \cup ServerHeld'
      /\ ~Server!Readable(Owner) => disk' = disk /\ acked' = acked
    <2>1. /\ acked[Owner] \subseteq acked'[Owner]
          /\ \E old, new :
                 /\ Store!WholeSeqs(Owner) \ Store!WholeSeqs(Owner)' \subseteq {old}
                 /\ acked'[Owner] \subseteq acked[Owner] \cup Store!WholeSeqs(Owner)' \cup {old, new}
          /\ Store!Readable(Owner)' =>
                 /\ Store!WholeSeqs(Owner) \subseteq Store!WholeSeqs(Owner)'
                 /\ acked'[Owner] \subseteq acked[Owner] \cup Store!WholeSeqs(Owner)'
          /\ ~Store!Readable(Owner) => disk' = disk /\ acked' = acked
        BY <1>1, <1>3, StoreAssumed, Store!StepSpoils
    <2> QED
        BY <2>1, HeldIsWhole
<1>8. ServerHeld' \subseteq DOMAIN chunks /\ acked'[Owner] \subseteq DOMAIN chunks
    BY <1>4, <1>5, <1>6 DEF HeldInv
<1>9. Kept
    <2>1. CASE ~Server!Readable(Owner)
        <3>1. UNCHANGED <<disk, acked>>
            BY <1>7, <2>1
        <3> QED
            BY <3>1, SameFile DEF Kept, Promise!vars
    <2>2. CASE Server!Readable(Owner)
        <3>1. acked[Owner] \subseteq ServerHeld
            BY <1>1, <2>2, HeldIsWhole DEF Store!AckedIsKept
        <3>2. Spoiled = {}
            BY <3>1 DEF Spoiled
        <3>3. CASE Spoiled' = {} /\ ServerHeld \subseteq ServerHeld'
            BY <1>8, <2>2, <3>2, <3>3 DEF Kept, Promise!Hold
        <3>4. CASE ~(Spoiled' = {} /\ ServerHeld \subseteq ServerHeld')
            <4> DEFINE gone == Spoiled' \cup (ServerHeld \ ServerHeld')
            <4>1. gone # {} /\ gone \subseteq DOMAIN chunks
                BY <1>8, <3>4 DEF Spoiled, HeldInv
            <4>2. \E old, new : gone \subseteq {old, new}
                BY <1>7, <3>1 DEF Spoiled
            <4>3. ~(Server!Readable(Owner)')
                BY <1>7, <3>1, <3>4 DEF Spoiled
            <4> HIDE DEF gone
            <4>4. \E old, new \in DOMAIN chunks : gone \subseteq {old, new}
                BY <4>1, <4>2, TwoOfThem
            <4> QED
                BY <1>8, <2>2, <4>3, <4>4 DEF Kept, Promise!Spoil, gone
        <3> QED
            BY <3>3, <3>4
    <2> QED
        BY <2>1, <2>2
<1> QED
    BY <1>2, <1>7, <1>8, <1>9

\* A 200 is sent when the batch has been acknowledged.
LEMMA ServeHolds ==
    ASSUME RoundInv, HeldInv, Serve
    PROVE  HeldInv' /\ Kept
<1> DEFINE request == Head(work[Owner])
<1>1. WireInv /\ Store!StoreInv
    BY DEF RoundInv
<1>2. /\ Server!WorkStep(Owner) \/ Server!AppendFails(Owner)
      /\ UNCHANGED <<chunks, delivered, accepted, batch, stage, rejected>>
      /\ replies' = IF work' = work THEN replies
                    ELSE IF request.id \in refused' THEN Reply(request.id, 400, {})
                    ELSE Reply(request.id, 200, request.seqs)
    BY DEF Serve, vars, queueVars, loopVars
<1>3. /\ Store!AckedIsKept' /\ Kept
      /\ ServerHeld' \subseteq DOMAIN chunks
      /\ acked[Owner] \subseteq acked'[Owner] /\ acked'[Owner] \subseteq DOMAIN chunks
    BY <1>2, AppendHolds
<1>4. Awaited(origins[request.id + 1]) => request.seqs = batch
    <2>1. work[Owner] \in Seq([id : Nat, seqs : SUBSET (0..(MaxRows - 1))])
        BY <1>1, StoreFacts
    <2>2. work[Owner] # << >>
        BY <1>1, <1>2, ChainMoves
    <2>3. request = work[Owner][1] /\ 1 \in 1..Len(work[Owner])
        BY <2>1, <2>2
    <2> QED
        BY <1>1, <2>3 DEF WireInv
<1>5. ASSUME work' # work, request.id \notin refused'
      PROVE  request.seqs \subseteq acked'[Owner]
    <2>1. ~Server!ReadThrows(Owner) /\ ~Server!AppendFails(Owner) /\ ~Server!ReadFresh(Owner)
        BY <1>5 DEF Server!ReadThrows, Server!AppendFails, Server!Refuse, Server!ReadFresh
    <2>2. Server!Acknowledge(Owner)
        BY <1>2, <2>1 DEF Server!WorkStep, Server!ReadAllHeld, Server!AppendFile
    <2>3. acked \in [{Owner} -> SUBSET (0..(MaxRows - 1))]
        BY <1>1 DEF Store!StoreInv, Store!Typed
    <2> QED
        BY <2>2, <2>3 DEF Server!Acknowledge
<1> HIDE DEF request
<1>6. ASSUME NEW r \in replies'
      PROVE  /\ r.status \in {0, 200, 400}
             /\ stage = "send" /\ r.status = 200 => batch \subseteq acked'[Owner]
    <2>1. CASE r \in replies
        BY <1>3, <2>1 DEF HeldInv
    <2>2. CASE r = [status |-> 400, seqs |-> {}]
        BY <2>2
    <2>3. CASE /\ r = [status |-> 200, seqs |-> request.seqs]
               /\ work' # work /\ request.id \notin refused' /\ Awaited(origins[request.id + 1])
        BY <1>4, <1>5, <2>3
    <2> QED
        BY <1>2, <1>6, <2>1, <2>2, <2>3 DEF Reply, Awaited
<1>7. HeldInv'
    BY <1>2, <1>3, <1>6 DEF HeldInv
<1> QED
    BY <1>3, <1>7

\* With the server its chain dies; its file does not.
LEMMA DieKeeps ==
    ASSUME RoundInv, Die
    PROVE  RoundInv'
<1>1. PageInv /\ WireInv /\ Store!StoreInv
    BY DEF RoundInv
<1>2. /\ Server!Crash \/ Server!CrashInWrite(Owner)
      /\ UNCHANGED <<chunks, delivered, batch, stage, net, ticket, origins>>
      /\ replies' \subseteq replies \cup {[status |-> 0, seqs |-> {}]}
    BY DEF Die, vars, queueVars, loopVars
<1>3. Store!StoreInv'
    BY <1>1, <1>2, ServerSteps
<1>4. work'[Owner] = << >> /\ requests' = requests
    BY <1>2 DEF Server!Crash, Server!CrashInWrite, Server!Forget
<1>5. RepliesAreOfBatch'
    BY <1>1, <1>2 DEF WireInv, RepliesAreOfBatch
<1>6. WireInv'
    BY <1>1, <1>2, <1>4, <1>5 DEF WireInv, Awaited
<1>7. PageInv'
    BY <1>1, <1>2 DEF PageInv, RowsKept
<1> QED
    BY <1>3, <1>6, <1>7 DEF RoundInv

LEMMA DieHolds ==
    ASSUME RoundInv, HeldInv, Die
    PROVE  HeldInv' /\ Kept
<1>1. /\ Server!Crash \/ Server!CrashInWrite(Owner)
      /\ UNCHANGED <<chunks, delivered, accepted, batch, stage, rejected>>
      /\ replies' \subseteq replies \cup {[status |-> 0, seqs |-> {}]}
    BY DEF Die, vars, queueVars, loopVars
<1>2. /\ Store!AckedIsKept' /\ Kept
      /\ ServerHeld' \subseteq DOMAIN chunks
      /\ acked[Owner] \subseteq acked'[Owner] /\ acked'[Owner] \subseteq DOMAIN chunks
    <2>1. CASE Server!Crash
        <3>1. UNCHANGED <<disk, acked>>
            BY <2>1 DEF Server!Crash
        <3> QED
            BY <1>1, <3>1, SameFile DEF HeldInv, Kept, Promise!vars
    <2>2. CASE Server!CrashInWrite(Owner)
        BY <1>1, <2>2, AppendHolds
    <2> QED
        BY <1>1, <2>1, <2>2
<1>3. \A r \in replies' : /\ r.status \in {0, 200, 400}
                          /\ stage = "send" /\ r.status = 200 => batch \subseteq acked'[Owner]
    BY <1>1, <1>2 DEF HeldInv
<1>4. HeldInv'
    BY <1>1, <1>2, <1>3 DEF HeldInv
<1> QED
    BY <1>2, <1>4

LEMMA RecoverKeeps ==
    ASSUME RoundInv, Recover
    PROVE  RoundInv'
<1>1. /\ UNCHANGED <<chunks, delivered, batch, stage, net, ticket, origins, replies>>
      /\ UNCHANGED <<work, requests>> /\ Server!Restart
    BY DEF Recover, Server!Restart, Server!storeCounts, vars, queueVars, loopVars, wireVars
<1>2. Store!StoreInv'
    BY <1>1, ServerSteps DEF RoundInv
<1>3. PageInv' /\ WireInv'
    BY <1>1 DEF RoundInv, PageInv, RowsKept, WireInv, RepliesAreOfBatch, Awaited
<1> QED
    BY <1>2, <1>3 DEF RoundInv

LEMMA RecoverHolds ==
    ASSUME HeldInv, Recover
    PROVE  HeldInv' /\ Kept
<1>1. /\ UNCHANGED <<chunks, delivered, accepted, batch, stage, replies, rejected>>
      /\ UNCHANGED <<disk, bare, acked>>
    BY DEF Recover, Server!Restart, vars, queueVars, loopVars, wireVars
<1>2. /\ Store!AckedIsKept' /\ ServerHeld' = ServerHeld /\ Spoiled' = Spoiled
      /\ Server!Readable(Owner)' = Server!Readable(Owner)
    BY <1>1, SameFile DEF HeldInv
<1> QED
    BY <1>1, <1>2 DEF HeldInv, Kept, Promise!vars

-----------------------------------------------------------------------------
(* The review.  A verdict is only as true as the rows it is about: they are *)
(* the queue's, whose chain is honest, and each is in the file once.  All   *)
(* of this holds wherever a write is cut: a line spoiled by the next write  *)
(* makes the file unreadable, and then there is no verdict.                 *)

ReviewInv ==
    /\ Gapless
    /\ Linked
    /\ ServerHeld \subseteq DOMAIN chunks

LEMMA SealLinks ==
    ASSUME Gapless, Linked, Seal
    PROVE  Gapless' /\ Linked'
<1> DEFINE chunk == SealChunk([session |-> Owner, seq |-> NextSeq,
                               prevHash |-> LastHash, events |-> << >>])
<1>1. /\ AppendChunk(chunk)
      /\ chunk.seq = NextSeq /\ chunk.prevHash = LastHash
    BY DEF Seal, SealChunk
<1>2. chunk.hash = Hash(Canonical(chunk))
    BY DEF SealChunk, Canonical
<1> HIDE DEF chunk
<1> QED
    BY <1>1, <1>2, AppendLinks

\* Only a seal touches the rows, and it adds one.
LEMMA RowsStay ==
    ASSUME RoundInv, Gapless, Linked, [RoundNext]_allVars
    PROVE  /\ Gapless' /\ Linked'
           /\ DOMAIN chunks \subseteq DOMAIN chunks'
<1>1. CASE Seal
    <2>1. DOMAIN chunks' = DOMAIN chunks \cup {NextSeq}
        BY <1>1, SealAddsRow DEF RoundInv, PageInv
    <2> QED
        BY <1>1, <2>1, SealLinks
<1>2. CASE chunks' = chunks
    BY <1>2 DEF Gapless, Linked
<1>3. CASE Quiet
    <2>1. (\/ Start \/ Stop \/ Fire \/ Close \/ ReadNothing \/ IdleAgain \/ Mark \/ Report
           \/ CountAgain \/ Retry \/ QueueFails \/ RetryFails) => chunks' = chunks
        BY DEF Start, Stop, Fire, Close, ReadNothing, IdleAgain, Mark, MarkDelivered, Report,
               CountAgain, Retry, QueueFails, Fails, RetryFails, queueVars
    <2> QED
        BY <1>1, <1>2, <1>3, <2>1 DEF Quiet
<1>4. CASE Post \/ GetReply \/ GetReset \/ Break
    BY <1>2, <1>4 DEF Post, ReadPending, GetReply, Answered, GetReset, Break, SendFails, Fails, queueVars
<1>5. CASE Beacon \/ LoseStray \/ Arrive \/ Serve \/ Die \/ Recover \/ UNCHANGED allVars
    BY <1>2, <1>5 DEF Beacon, LoseStray, Arrive, Serve, Die, Recover, allVars, vars, queueVars
<1> QED
    BY <1>3, <1>4, <1>5 DEF RoundNext

\* The server comes to hold only what the page sent.
LEMMA HeldAreRows ==
    ASSUME RoundInv, ServerHeld \subseteq DOMAIN chunks, [RoundNext]_allVars
    PROVE  ServerHeld' \subseteq DOMAIN chunks
<1>1. CASE UNCHANGED disk
    BY <1>1 DEF ServerHeld, Server!WholeSeqs
<1>2. ASSUME Server!WorkStep(Owner) \/ Server!AppendFails(Owner) \/ Server!CrashInWrite(Owner)
      PROVE  ServerHeld' \subseteq DOMAIN chunks
    <2>1. Store!WorkStep(Owner) \/ Store!AppendFails(Owner) \/ Store!CrashInWrite(Owner)
        BY <1>2, ReadThrowsIsStore, ReadAllHeldIsStore, ReadFreshIsStore, AppendFileIsStore,
           AppendFailsIsStore, CrashInWriteIsStore DEF Server!WorkStep, Store!WorkStep
    <2>2. Store!WholeSeqs(Owner)' \subseteq Store!WholeSeqs(Owner) \cup Head(work[Owner]).seqs
        BY <2>1, StoreAssumed, Store!StepHoldsNoMore DEF RoundInv
    <2>3. work[Owner] # << >>
        BY <1>2, ChainMoves DEF RoundInv, Server!CrashInWrite, Server!Running
    <2>4. Head(work[Owner]) = work[Owner][1] /\ 1 \in 1..Len(work[Owner])
        BY <2>3, StoreFacts DEF RoundInv
    <2>5. Head(work[Owner]).seqs \subseteq DOMAIN chunks
        BY <2>4 DEF RoundInv, WireInv
    <2> QED
        BY <2>2, <2>5, HeldIsWhole
<1>3. CASE Serve \/ Die
    <2>1. Server!Crash => UNCHANGED disk
        BY DEF Server!Crash
    <2> QED
        BY <1>1, <1>2, <1>3, <2>1 DEF Serve, Die
<1>4. CASE Arrive \/ Recover
    BY <1>1, <1>4 DEF Arrive, Recover, Server!Receive, Server!Restart
<1>5. CASE \/ Quiet \/ Post \/ Beacon \/ GetReply \/ GetReset \/ Break \/ LoseStray
           \/ UNCHANGED allVars
    BY <1>1, <1>5 DEF Quiet, Post, Beacon, GetReply, GetReset, Break, LoseStray, allVars, serverVars
<1> QED
    BY <1>3, <1>4, <1>5 DEF RoundNext

\* What a file that can be read is judged to be.
LEMMA VerdictOfRows ==
    ASSUME PageInv, Store!StoreInv, ReviewInv, Server!Readable(Owner)
    PROVE  /\ IsFiniteSet(ServerHeld)
           /\ Verdict = VerifyOrdered(Rows(ServerHeld))
<1> DEFINE d == disk[Owner]
<1> DEFINE n == Len(d)
<1> DEFINE q == [i \in 1..n |-> d[i].seq]
<1>1. n \in Nat /\ DOMAIN d = 1..n
    <2>1. disk \in [{Owner} -> Seq(Store!Line)]
        BY DEF Store!StoreInv, Store!Typed
    <2>2. d \in Seq(Store!Line)
        BY <2>1
    <2> QED
        BY <2>2
<1>2. \A i \in 1..n : d[i].whole
    BY <1>1 DEF Server!Readable, Server!ToSet
<1>3. ServerHeld = {d[i].seq : i \in 1..n}
    BY <1>1, <1>2 DEF ServerHeld, Server!WholeSeqs, Server!ToSet
<1>4. \A i, j \in 1..n : i # j => d[i].seq # d[j].seq
    BY <1>1 DEF Store!StoreInv, Store!NoDuplicates
<1>5. Verdict = VerifyChain([i \in 1..n |-> chunks[d[i].seq]])
    BY <1>1 DEF Verdict
<1> HIDE DEF n, d
<1>6. /\ q \in [1..n -> DOMAIN chunks]
      /\ \A i, j \in 1..n : i # j => q[i] # q[j]
      /\ ServerHeld = {q[i] : i \in 1..n}
      /\ Verdict = VerifyChain([i \in 1..n |-> chunks[q[i]]])
    BY <1>3, <1>4, <1>5 DEF ReviewInv
<1> HIDE DEF q
<1>7. /\ IsFiniteSet(ServerHeld)
      /\ Ordered([i \in 1..n |-> chunks[q[i]]]) = Rows(ServerHeld)
    BY <1>1, <1>6, OrderedRows DEF ReviewInv, PageInv, RowsKept
<1> QED
    BY <1>6, <1>7 DEF VerifyChain

LEMMA VerdictIsTrue ==
    ASSUME PageInv, Store!StoreInv, ReviewInv
    PROVE  ReviewTellsTheTruth
<1> SUFFICES ASSUME Server!Readable(Owner)
             PROVE  LET gaps == {k \in 0..MaxRows : k \notin ServerHeld}
                        first == Min(gaps)
                    IN  IF \A k \in ServerHeld : k < first
                        THEN Verdict = [ok |-> TRUE, chunks |-> Cardinality(ServerHeld)]
                        ELSE Verdict = [ok |-> FALSE, reason |-> "missing", atSeq |-> first]
    BY DEF ReviewTellsTheTruth
<1> DEFINE gaps == {k \in 0..MaxRows : k \notin ServerHeld}
<1> DEFINE first == Min(gaps)
<1>1. MaxRows \in Nat
    BY LoopBoundsAssumption
<1>2. ServerHeld \in SUBSET DOMAIN chunks /\ ServerHeld \subseteq 0..(MaxRows - 1)
    BY DEF ReviewInv, PageInv
<1>3. /\ first \in gaps
      /\ \A k \in gaps : first <= k
    <2>1. gaps \in SUBSET Nat /\ MaxRows \in gaps
        BY <1>1, <1>2
    <2>2. IsFiniteSet(0..MaxRows) /\ gaps \in SUBSET (0..MaxRows)
        BY <1>1, FS_Interval
    <2>3. IsFiniteSet(gaps) /\ gaps # {}
        BY <2>1, <2>2, FS_Subset
    <2> HIDE DEF gaps
    <2>4. \E m \in gaps : \A k \in gaps : m <= k
        BY <2>1, <2>3, LeastMember
    <2> QED
        BY <2>4 DEF Min
<1>4. first \in Nat /\ first \notin ServerHeld /\ first <= MaxRows
    BY <1>1, <1>3
<1>5. 0..(first - 1) \subseteq ServerHeld
    <2> SUFFICES ASSUME NEW k \in 0..(first - 1), k \notin ServerHeld
                 PROVE  FALSE
        OBVIOUS
    <2>1. k \in gaps
        BY <1>1, <1>4
    <2>2. first <= k
        BY <1>3, <2>1
    <2> QED
        BY <1>4, <2>2
<1> HIDE DEF first, gaps
<1>6. Linked /\ DOMAIN chunks \in SUBSET Nat
    BY DEF ReviewInv, PageInv, RowsKept
<1>7. IsFiniteSet(ServerHeld) /\ Verdict = VerifyOrdered(Rows(ServerHeld))
    BY VerdictOfRows
<1>8. CASE \A k \in ServerHeld : k < first
    <2>1. \A k \in ServerHeld : k \in Nat
        BY <1>1, <1>2
    <2>2. \A k \in ServerHeld : k \in 0..(first - 1)
        BY <1>4, <1>8, <2>1
    <2>3. ServerHeld = 0..(first - 1)
        BY <1>5, <2>2
    <2>4. VerifyOrdered(Rows(ServerHeld)) = [ok |-> TRUE, chunks |-> first]
        BY <1>2, <1>4, <1>6, <2>3, FirstRowsVerify
    <2>5. Cardinality(ServerHeld) = first
        BY <1>4, <2>3, CardinalityBelow
    <2> QED
        BY <1>7, <1>8, <2>4, <2>5 DEF first, gaps
<1>9. CASE ~(\A k \in ServerHeld : k < first)
    <2>1. PICK above \in ServerHeld : ~(above < first)
        BY <1>9
    <2>2. above > first
        BY <1>2, <1>4, <2>1
    <2>3. VerifyOrdered(Rows(ServerHeld)) = [ok |-> FALSE, reason |-> "missing", atSeq |-> first]
        BY <1>2, <1>4, <1>5, <1>6, <1>7, <2>2, GapIsNamed
    <2> QED
        BY <1>7, <1>9, <2>3 DEF first, gaps
<1> QED
    BY <1>8, <1>9

-----------------------------------------------------------------------------
(* What holds of a round.                                                   *)

LEMMA RoundStep ==
    ASSUME RoundInv, [RoundNext]_allVars
    PROVE  RoundInv'
<1>1. CASE Quiet
    <2>1. UNCHANGED <<serverVars, ticket, origins, net, replies>>
        BY <1>1 DEF Quiet, wireVars
    <2>2. PageMoves
        BY <1>1, QuietMoves DEF RoundInv
    <2> QED
        BY <2>1, <2>2, PageMovesKeep
<1>2. CASE GetReset \/ Break
    BY <1>2, FailureMoves, PageMovesKeep
<1>3. CASE LoseStray \/ UNCHANGED allVars
    <2>1. /\ UNCHANGED <<chunks, batch, stage, delivered, serverVars, ticket, origins>>
          /\ net' \subseteq net /\ replies' \subseteq replies
        BY <1>3 DEF LoseStray, allVars, vars, queueVars, loopVars, wireVars
    <2>2. PageMoves
        BY <2>1 DEF PageMoves, RoundInv, PageInv, RowsKept
    <2> QED
        BY <2>1, <2>2, PageMovesKeep
<1> QED
    BY <1>1, <1>2, <1>3, PostKeeps, BeaconKeeps, GetReplyKeeps, ArriveKeeps, ServeKeeps, DieKeeps,
       RecoverKeeps DEF RoundNext

LEMMA HeldStep ==
    ASSUME RoundInv, HeldInv, [RoundNext]_allVars
    PROVE  HeldInv' /\ Kept
<1>1. CASE Quiet
    <2>1. UNCHANGED <<serverVars, replies, rejected>>
        BY <1>1 DEF Quiet, wireVars
    <2>2. PageInv
        BY DEF RoundInv
    <2>3. /\ PageMoves /\ accepted' \subseteq accepted
          /\ delivered \subseteq delivered' /\ delivered' \subseteq delivered \cup accepted
          /\ DOMAIN chunks' = DOMAIN chunks \/ delivered' = delivered
        BY <1>1, <2>2, QuietMoves
    <2> QED
        BY <2>1, <2>3, PageMovesHold
<1>2. CASE GetReset \/ Break
    <2>1. /\ PageMoves
          /\ UNCHANGED <<chunks, delivered, serverVars, rejected>>
          /\ accepted' = {} /\ replies' \subseteq replies
        BY <1>2, FailureMoves
    <2> QED
        BY <2>1, PageMovesHold
<1>3. CASE LoseStray \/ Beacon \/ UNCHANGED allVars
    <2>1. UNCHANGED <<vars, serverVars, replies, rejected>>
        BY <1>3 DEF LoseStray, Beacon, allVars, wireVars
    <2> QED
        BY <2>1, NothingMoves
<1> QED
    BY <1>1, <1>2, <1>3, PostHolds, GetReplyHolds, ArriveHolds, ServeHolds, DieHolds, RecoverHolds
       DEF RoundNext

LEMMA RoundStart ==
    ASSUME RoundInit
    PROVE  RoundInv /\ HeldInv /\ Promise!Init
<1>1. /\ DOMAIN chunks = {} /\ delivered = {} /\ stage = "idle" /\ batch = {} /\ accepted = {}
      /\ net = {} /\ ticket = 0 /\ origins = << >> /\ replies = {} /\ rejected = {}
      /\ Server!Init
    BY DEF RoundInit, Init, QueueInit, NoTicket
<1>2. work[Owner] = << >> /\ disk[Owner] = << >> /\ requests = 0
      /\ bare = [f \in {Owner} |-> FALSE] /\ acked = [f \in {Owner} |-> {}]
    BY <1>1 DEF Server!Init
<1>3. Store!StoreInv
    BY <1>1, InitIsStore, StoreAssumed, Store!InitStore
<1>4. PageInv
    BY <1>1, FS_EmptySet DEF PageInv, RowsKept
<1>5. WireInv
    BY <1>1, <1>2 DEF WireInv, RepliesAreOfBatch
<1>6. ServerHeld = {}
    BY <1>2 DEF ServerHeld, Server!WholeSeqs, Server!ToSet
<1>7. /\ acked[Owner] = {} /\ Spoiled = {}
      /\ Server!Readable(Owner) = TRUE
    BY <1>2 DEF Spoiled, Server!Readable, Server!ToSet
<1>8. Store!AckedIsKept
    BY <1>7 DEF Store!AckedIsKept
<1>9. HeldInv
    BY <1>1, <1>6, <1>7, <1>8 DEF HeldInv
<1> QED
    BY <1>1, <1>3, <1>4, <1>5, <1>6, <1>7, <1>9 DEF RoundInv, Promise!Init

LEMMA RoundInvariant == RoundSpec => []RoundInv
<1>1. RoundInit => RoundInv
    BY RoundStart
<1>2. RoundInv /\ [RoundNext]_allVars => RoundInv'
    BY RoundStep
<1> QED
    BY <1>1, <1>2, PTL DEF RoundSpec

\* End to end, delivery implements AtLeastOnce (queue.ts 15-16, http-transport.ts
\* 26-31, store.ts 29-57), wherever a write may be cut: no row is settled before the
\* server has it in its file or has refused it, and what the server has it keeps, but
\* for two rows at most that a line glued to one left without its newline takes with it.
THEOREM AtLeastOnceDelivery == RoundSpec => DeliversAtLeastOnce
<1>1. RoundInit => HeldInv /\ Promise!Init
    BY RoundStart
<1>2. RoundInv /\ HeldInv /\ [RoundNext]_allVars => HeldInv' /\ Kept
    BY HeldStep
<1>3. Kept => [\/ Promise!Seal \/ Promise!Hold \/ Promise!Spoil
               \/ Promise!Refuse \/ Promise!Settle]_Promise!vars
    BY DEF Kept
<1> QED
    BY <1>1, <1>2, <1>3, RoundInvariant, PTL DEF RoundSpec, DeliversAtLeastOnce, Promise!Spec

\* The review of an honest session tells the truth about it (chain.ts 59-80, app.ts 118-139):
\* whatever was lost, repeated, reordered, cut short or crashed, a file that can be read
\* verifies exactly when it holds the first rows without a gap, and otherwise the first
\* row it lacks is named; an honest session is never said to be altered or unlinked.
THEOREM ReviewIsTrue == RoundSpec => []ReviewTellsTheTruth
<1>1. RoundInit => ReviewInv
    <2> SUFFICES ASSUME RoundInit PROVE ReviewInv
        OBVIOUS
    <2>1. DOMAIN chunks = {} /\ disk[Owner] = << >>
        BY DEF RoundInit, Init, QueueInit, Server!Init
    <2>2. ServerHeld = {}
        BY <2>1 DEF ServerHeld, Server!WholeSeqs, Server!ToSet
    <2>3. 0 \in Nat /\ DOMAIN chunks = 0..(0 - 1)
        BY <2>1
    <2> QED
        BY <2>1, <2>2, <2>3 DEF ReviewInv, Gapless, Linked
<1>2. RoundInv /\ ReviewInv /\ [RoundNext]_allVars => ReviewInv'
    BY RowsStay, HeldAreRows DEF ReviewInv
<1>3. RoundInv /\ ReviewInv => ReviewTellsTheTruth
    BY VerdictIsTrue DEF RoundInv
<1> QED
    BY <1>1, <1>2, <1>3, RoundInvariant, PTL DEF RoundSpec

=============================================================================
