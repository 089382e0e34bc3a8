----------------------------- MODULE ChunkQueue -----------------------------
(***************************************************************************)
(* The durable queue of packages/integrity/src/queue.ts: one IndexedDB     *)
(* object store per browser origin, its key path `seq` alone.  The object  *)
(* store outlives every page; each operation below is one IndexedDB        *)
(* transaction and so is atomic, and nothing is atomic across two of them. *)
(***************************************************************************)
EXTENDS Chain, Ranks, FiniteSetsExt

VARIABLES
    chunks,       \* seq -> chunk, the rows of the `chunks` store
    delivered     \* the seqs whose row carries delivered: 1

queueVars == <<chunks, delivered>>

QueueInit == chunks = << >> /\ delivered = {}

-----------------------------------------------------------------------------
\* The rows with these seqs, oldest first.
Rows(S) == LET order == Ascending(S) IN [i \in 1..Cardinality(S) |-> chunks[order[i]]]

All == Rows(DOMAIN chunks)

PendingSeqs == DOMAIN chunks \ delivered

\* (mutation) The newest rows instead of the oldest.
PendingNewest(limit) ==
    Rows({k \in PendingSeqs : Cardinality(PendingSeqs) - Rank(PendingSeqs, k) <= limit})

\* The oldest `limit` rows not yet delivered.
Pending(limit) == Rows({k \in PendingSeqs : Rank(PendingSeqs, k) < limit})

PendingCount == Cardinality(PendingSeqs)

\* (mutation) Only rows not yet delivered are counted.
NextSeqOfPending == IF PendingSeqs = {} THEN 0 ELSE Max(PendingSeqs) + 1

NextSeq == IF DOMAIN chunks = {} THEN 0
           ELSE Max(DOMAIN chunks) + 1

\* (mutation) The last row is taken from those not yet delivered.
LastPendingHash == IF PendingSeqs = {} THEN NoHash ELSE chunks[Max(PendingSeqs)].hash

LastHash == IF DOMAIN chunks = {} THEN NoHash
            ELSE chunks[Max(DOMAIN chunks)].hash

-----------------------------------------------------------------------------
\* put: the row is replaced, whatever it held, and is undelivered again.
AppendChunk(chunk) ==
    /\ chunks' = [k \in DOMAIN chunks \cup {chunk.seq} |->
                     IF k = chunk.seq THEN chunk ELSE chunks[k]]
    /\ delivered' = delivered \ {chunk.seq}

\* One read-write transaction; a seq that is not held is passed over.
MarkDelivered(seqs) ==
    /\ delivered' = delivered \cup (seqs \cap DOMAIN chunks)
    /\ UNCHANGED chunks

=============================================================================
