----------------------------- MODULE DurableLog -----------------------------
(***************************************************************************)
(* What the browser side promises the delivery side, without pages, seals  *)
(* or awaits: the queue is a log that grows by one chunk at a time, each   *)
(* following from the last, and its rows only ever change from pending to  *)
(* delivered.                                                              *)
(***************************************************************************)
EXTENDS ChunkQueue

\* One chunk more, numbered next and linked to the last.
Grow ==
    /\ DOMAIN chunks' = DOMAIN chunks \cup {NextSeq}
    /\ \A k \in DOMAIN chunks : chunks'[k] = chunks[k]
    /\ LET chunk == chunks'[NextSeq]
       IN  /\ chunk.seq = NextSeq
           /\ chunk.prevHash = LastHash
           /\ chunk.hash = Hash(Canonical(chunk))
    /\ delivered' = delivered

\* Some pending rows are delivered.
Deliver ==
    /\ chunks' = chunks
    /\ delivered \subseteq delivered'
    /\ delivered' \subseteq DOMAIN chunks

LogSpec == QueueInit /\ [][Grow \/ Deliver]_queueVars

=============================================================================
