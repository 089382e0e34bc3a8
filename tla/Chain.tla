------------------------------- MODULE Chain -------------------------------
(***************************************************************************)
(* The hash chain of packages/integrity/src/chain.ts: what a chunk is, how *)
(* it is sealed, and how verifyChain judges a collection of chunks.        *)
(*                                                                         *)
(* SHA-256 is the CONSTANT operator Hash: nothing here assumes anything of *)
(* it.  TLC runs with an injective one (a tagged copy of its argument).    *)
(***************************************************************************)
EXTENDS Integers, Sequences, FiniteSets

CONSTANTS
    Hash(_),    \* sha256 over the canonical JSON of a chunk without its hash
    NoHash      \* the empty string: what the first chunk follows

-----------------------------------------------------------------------------
(* A chunk is a batch of events linked to the one before it. `session`      *)
(* stands for the pair (sessionId, participantId), which always go together.*)

\* What the hash is taken over: every field but the hash itself.
Canonical(c) == [session  |-> c.session,
                 seq      |-> c.seq,
                 prevHash |-> c.prevHash,
                 events   |-> c.events]

SealChunk(body) == [session  |-> body.session,
                    seq      |-> body.seq,
                    prevHash |-> body.prevHash,
                    events   |-> body.events,
                    hash     |-> Hash(Canonical(body))]

-----------------------------------------------------------------------------
(* Array.prototype.sort on seq is stable: an entry's place is the number of *)
(* entries that sort before it.                                             *)

Place(cs, i) == Cardinality({j \in DOMAIN cs :
                                \/ cs[j].seq < cs[i].seq
                                \/ cs[j].seq = cs[i].seq /\ j < i})

Ordered(cs) == [k \in 1..Len(cs) |->
                    cs[CHOOSE i \in DOMAIN cs : Place(cs, i) = k - 1]]

\* The three tests of the loop, for the k-th chunk of an ordered collection.
Missing(o, k)  == o[k].seq # k - 1
Unlinked(o, k) == o[k].prevHash # (IF k = 1 THEN NoHash ELSE o[k-1].hash)
Altered(o, k)  == Hash(Canonical(o[k])) # o[k].hash

Defective(o, k) == Missing(o, k) \/ Unlinked(o, k) \/ Altered(o, k)

\* The loop stops at the first defect and names it.
VerifyOrdered(o) ==
    IF \A k \in 1..Len(o) : ~Defective(o, k)
    THEN [ok |-> TRUE, chunks |-> Len(o)]
    ELSE LET k == CHOOSE k \in 1..Len(o) : /\ Defective(o, k)
                                           /\ \A j \in 1..(k-1) : ~Defective(o, j)
         IN  CASE Missing(o, k) ->
                    [ok |-> FALSE, reason |-> "missing", atSeq |-> k - 1]
               [] ~Missing(o, k) /\ Unlinked(o, k) ->
                    [ok |-> FALSE, reason |-> "unlinked", atSeq |-> o[k].seq]
               [] OTHER ->
                    [ok |-> FALSE, reason |-> "altered", atSeq |-> o[k].seq]

VerifyChain(cs) == VerifyOrdered(Ordered(cs))

=============================================================================
