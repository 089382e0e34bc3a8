--------------------------- MODULE RecorderProofs ---------------------------
(***************************************************************************)
(* What TLAPS proves of Recorder, for every set of sessions, every bound   *)
(* and every hash: the types, that a queue one page writes at a time always*)
(* passes the audit, that to the delivery side the page is a log, that no  *)
(* event is lost or moved between buffer, seal and disk, and that one      *)
(* record has one `start`.                                                 *)
(***************************************************************************)
EXTENDS Recorder, ChunkQueueProofs

-----------------------------------------------------------------------------
(* The inductive invariant.  QueueVerifies says nothing of a seal that runs; *)
(* the next state's chain depends on it.  What it has read must still be     *)
(* true when it writes: one page, one seal, nobody else appends.             *)

\* What the running seal has read of the queue is still so.
JobCurrent ==
    /\ job.stage \in {"hash", "put"} => job.seq = NextSeq
    /\ job.stage = "put" => job.prevHash = LastHash

Inv == TypeOK /\ Gapless /\ Linked /\ JobCurrent

-----------------------------------------------------------------------------
(* Types.                                                                   *)

LEMMA InitTypes == Init => TypeOK
<1> SUFFICES ASSUME Init PROVE TypeOK
    OBVIOUS
<1>1. DOMAIN chunks = {} /\ delivered = {}
    BY DEF Init, QueueInit
<1>2. /\ mounted \in BOOLEAN
      /\ starting \in BOOLEAN
      /\ timers \in BOOLEAN
      /\ broken \in BOOLEAN
    BY DEF Init
<1>3. job \in [stage : {"idle", "seq", "hash", "put"}, events : Seq(Event),
               seq : Nat, prevHash : {job.prevHash}]
    BY DEF Init, Idle
<1> QED
    BY <1>1, <1>2, <1>3 DEF Init, Idle, TypeOK, NumberIsFree

\* Recording an event keeps the buffer a sequence of events.
LEMMA TakeTypes ==
    ASSUME TypeOK, NEW kind \in Kinds, Take(kind)
    PROVE  buffer' \in Seq(Event) /\ seals' \in Nat /\ eventCount' \in Nat
<1>1. [id |-> eventCount, kind |-> kind] \in Event
    BY DEF TypeOK, Event
<1> QED
    BY <1>1 DEF Take, TypeOK, RequestSeal

\* The ids of typed events are numbers.
LEMMA IdsTypes ==
    ASSUME NEW events \in Seq(Event)
    PROVE  Ids(events) \subseteq Nat
<1>1. \A i \in DOMAIN events : events[i] \in Event
    OBVIOUS
<1> QED
    BY <1>1 DEF Ids, ToSet, Event

LEMMA StepTypes == ASSUME Inv, [Next]_vars, NumberIsFree' PROVE TypeOK'
<1> USE DEF Inv
<1>1. ASSUME NEW s \in Sessions, Open(s) PROVE TypeOK'
    BY <1>1 DEF Open, TypeOK, queueVars
<1>2. CASE Start
    <2>1. (IF NextSeq = 0 THEN "start" ELSE "resume") \in Kinds
        BY DEF Kinds
    <2>2. buffer' \in Seq(Event) /\ seals' \in Nat /\ eventCount' \in Nat
        BY <1>2, <2>1, TakeTypes DEF Start
    <2> QED
        BY <1>2, <2>2 DEF Start, TypeOK, queueVars
<1>3. CASE Record
    <2>1. buffer' \in Seq(Event) /\ seals' \in Nat /\ eventCount' \in Nat
        BY <1>3, TakeTypes DEF Record, Kinds
    <2> QED
        BY <1>3, <2>1 DEF Record, TypeOK, queueVars
<1>4. CASE SealNow
    BY <1>4 DEF SealNow, RequestSeal, TypeOK, queueVars, historyVars
<1>5. CASE Stop
    <2>1. mounted' \in BOOLEAN /\ timers' \in BOOLEAN
        BY <1>5 DEF Stop
    <2>2. seals' \in Nat
        BY <1>5 DEF Stop, RequestSeal, TypeOK
    <2> QED
        BY <1>5, <2>1, <2>2 DEF Stop, TypeOK, queueVars, historyVars
<1>6. CASE SealNothing
    BY <1>6 DEF SealNothing, TypeOK, queueVars, historyVars
<1>7. CASE SealBegin
    <2>1. job' = [stage |-> "seq", events |-> buffer, seq |-> 0, prevHash |-> NoHash]
        BY <1>7 DEF SealBegin, Idle
    <2>2. seals' \in Nat /\ buffer' \in Seq(Event)
        BY <1>7 DEF SealBegin, TypeOK
    <2> QED
        BY <1>7, <2>1, <2>2 DEF SealBegin, TypeOK, queueVars, historyVars
<1>8. CASE ReadSeq
    <2>1. NextSeq \in Nat
        BY EndOfQueue DEF Gapless
    <2> QED
        BY <1>8, <2>1 DEF ReadSeq, TypeOK, queueVars, historyVars
<1>9. CASE ReadHash
    BY <1>9 DEF ReadHash, TypeOK, queueVars, historyVars
<1>10. CASE Store
    <2>1. Sealed.seq \in Nat /\ Sealed.events \in Seq(Event)
        BY DEF Sealed, SealChunk, TypeOK
    <2>2. /\ DOMAIN chunks' \subseteq Nat
          /\ \A k \in DOMAIN chunks' : chunks'[k].events \in Seq(Event)
          /\ delivered' \subseteq DOMAIN chunks'
        BY <1>10, <2>1 DEF Store, AppendChunk, TypeOK
    <2> QED
        BY <1>10, <2>2 DEF Store, Idle, TypeOK, historyVars
<1>11. CASE SealFails
    <2>1. lost' \subseteq Nat
        BY <1>11, IdsTypes DEF SealFails, Forget, TypeOK
    <2> QED
        BY <1>11, <2>1 DEF SealFails, Idle, TypeOK, queueVars
<1>12. CASE StartFails
    <2>1. starting' \in BOOLEAN
        BY <1>12 DEF StartFails
    <2> QED
        BY <1>12, <2>1 DEF StartFails, TypeOK, queueVars
<1>13. CASE Close
    <2>1. job.events \o buffer \in Seq(Event)
        BY DEF TypeOK
    <2>2. lost' \subseteq Nat
        BY <1>13, <2>1, IdsTypes DEF Close, Forget, TypeOK
    <2>3. /\ mounted' \in BOOLEAN
          /\ starting' \in BOOLEAN
          /\ timers' \in BOOLEAN
          /\ broken' \in BOOLEAN
        BY <1>13 DEF Close
    <2>4. job' = [stage |-> "idle", events |-> << >>, seq |-> 0, prevHash |-> NoHash]
        BY <1>13 DEF Close, Idle
    <2> QED
        BY <1>13, <2>2, <2>3, <2>4 DEF Close, TypeOK, queueVars
<1>14. CASE Acknowledge
    BY <1>14 DEF Acknowledge, MarkDelivered, TypeOK, pageVars, historyVars
<1>15. CASE UNCHANGED vars
    BY <1>15 DEF vars, queueVars, pageVars, historyVars, TypeOK
<1> QED
    BY <1>1, <1>2, <1>3, <1>4, <1>5, <1>6, <1>7, <1>8, <1>9, <1>10, <1>11,
       <1>12, <1>13, <1>14, <1>15 DEF Next, SealStep

-----------------------------------------------------------------------------
(* The chain.                                                               *)

LEMMA InitChain == Init => Gapless /\ Linked /\ JobCurrent
<1> SUFFICES ASSUME Init PROVE Gapless /\ Linked /\ JobCurrent
    OBVIOUS
<1>1. DOMAIN chunks = {} /\ job.stage = "idle"
    BY DEF Init, QueueInit, Idle
<1>2. DOMAIN chunks = 0..(0-1)
    BY <1>1
<1> QED
    BY <1>1, <1>2 DEF Gapless, Linked, JobCurrent

\* Only Store writes a row: it writes the one after the last.
LEMMA StoreAppends ==
    ASSUME Inv, Store
    PROVE  \E n \in Nat :
             /\ DOMAIN chunks = 0..(n-1)
             /\ Sealed.seq = n
             /\ chunks' = [k \in 0..n |-> IF k = n THEN Sealed ELSE chunks[k]]
<1>1. PICK n \in Nat : DOMAIN chunks = 0..(n-1)
    BY DEF Inv, Gapless
<1>2. job.seq = n
    BY <1>1, EndOfQueue DEF Inv, JobCurrent, Store
<1>3. Sealed.seq = n
    BY <1>2 DEF Sealed, SealChunk
<1>4. 0..(n-1) \cup {n} = 0..n
    OBVIOUS
<1> QED
    BY <1>1, <1>3, <1>4 DEF Store, AppendChunk

LEMMA StoreChains ==
    ASSUME Inv, Store
    PROVE  Gapless' /\ Linked' /\ JobCurrent'
<1>1. /\ AppendChunk(Sealed)
      /\ Sealed.seq = NextSeq /\ Sealed.prevHash = LastHash
    BY DEF Inv, JobCurrent, Store, Sealed, SealChunk
<1>2. Sealed.hash = Hash(Canonical(Sealed))
    BY DEF Sealed, SealChunk, Canonical
<1>3. Gapless' /\ Linked'
    BY <1>1, <1>2, AppendLinks DEF Inv
<1>4. JobCurrent'
    BY DEF Store, Idle, JobCurrent
<1> QED
    BY <1>3, <1>4

\* Every other step leaves the store alone, and a seal that has read the queue
\* keeps what it read.
LEMMA ElseChains ==
    ASSUME Inv, [Next]_vars, ~Store
    PROVE  Gapless' /\ Linked' /\ JobCurrent'
<1> USE DEF Inv
<1>1. chunks' = chunks
    BY DEF Next, SealStep, Open, Start, Record, SealNow, Stop, SealNothing, SealBegin, ReadSeq,
           ReadHash, SealFails, StartFails, Close, Acknowledge, MarkDelivered, vars, queueVars
<1>2. NextSeq' = NextSeq /\ LastHash' = LastHash
    BY <1>1 DEF NextSeq, LastHash
<1>3. JobCurrent'
    <2>1. CASE ReadSeq
        BY <2>1, <1>2 DEF ReadSeq, JobCurrent, TypeOK
    <2>2. CASE ReadHash
        BY <2>2, <1>2 DEF ReadHash, JobCurrent, TypeOK
    <2>3. CASE SealBegin \/ SealFails \/ Close
        <3>1. job'.stage \in {"idle", "seq"}
            <4>1. SealBegin => job'.stage = "seq"
                BY DEF SealBegin, Idle
            <4>2. SealFails \/ Close => job'.stage = "idle"
                BY DEF SealFails, Close, Idle
            <4> QED
                BY <2>3, <4>1, <4>2
        <3> QED
            BY <3>1 DEF JobCurrent
    <2>4. CASE job' = job
        BY <2>4, <1>2 DEF JobCurrent
    <2> QED
        BY <2>1, <2>2, <2>3, <2>4
        DEF Next, SealStep, Open, Start, Record, SealNow, Stop, SealNothing, StartFails,
            Acknowledge, vars, pageVars
<1> QED
    BY <1>1, <1>3 DEF Gapless, Linked

\* The number after the last row is no row's.
LEMMA CurrentIsFree == Gapless /\ JobCurrent => NumberIsFree
<1> SUFFICES ASSUME Gapless, JobCurrent PROVE NumberIsFree
    OBVIOUS
<1>1. PICK n \in Nat : DOMAIN chunks = 0..(n-1)
    BY DEF Gapless
<1>2. NextSeq = n
    BY <1>1, EndOfQueue
<1> QED
    BY <1>1, <1>2 DEF JobCurrent, NumberIsFree

\* Inv is an invariant of every behaviour.
THEOREM Invariance == Spec => []Inv
<1>1. Init => Inv
    BY InitTypes, InitChain DEF Inv
<1>2. Inv /\ [Next]_vars => Inv'
    <2> SUFFICES ASSUME Inv, [Next]_vars PROVE Inv'
        OBVIOUS
    <2>1. Gapless' /\ Linked' /\ JobCurrent'
        BY StoreChains, ElseChains
    <2>2. NumberIsFree'
        BY <2>1, CurrentIsFree, PTL
    <2>3. TypeOK'
        BY <2>2, StepTypes
    <2> QED
        BY <2>1, <2>3 DEF Inv
<1> QED
    BY <1>1, <1>2, PTL DEF Spec

\* A full buffer has a seal behind it, also when it filled up while another seal was
\* running (recorder.ts 74, 120-137).
THEOREM FullBufferIsSealed == Spec => []FullIsSealed
<1>1. Init => FullIsSealed
    BY BoundsAssumption DEF Init, FullIsSealed
<1>2. Inv /\ FullIsSealed /\ [Next]_vars => FullIsSealed'
    <2> SUFFICES ASSUME Inv, FullIsSealed, [Next]_vars PROVE FullIsSealed'
        OBVIOUS
    <2> USE DEF FullIsSealed
    <2>1. /\ buffer \in Seq(Event) /\ seals \in Nat
          /\ ChunkMaxEvents \in Nat \ {0}
        BY BoundsAssumption DEF Inv, TypeOK
    <2>2. ASSUME buffer' = << >> PROVE FullIsSealed'
        BY <2>1, <2>2
    <2>3. ASSUME NEW kind, Take(kind), broken' = broken PROVE FullIsSealed'
        BY <2>1, <2>3 DEF Take, RequestSeal
    <2>4. CASE Start \/ Record
        BY <2>3, <2>4 DEF Start, Record
    <2>5. CASE SealNow \/ Stop
        BY <2>1, <2>5 DEF SealNow, Stop, RequestSeal
    <2>6. CASE SealNothing \/ SealBegin \/ Close
        BY <2>2, <2>6 DEF SealNothing, SealBegin, Close
    <2>7. CASE SealFails
        BY <2>7 DEF SealFails
    <2>8. CASE UNCHANGED <<buffer, seals, broken>>
        BY <2>8
    <2> QED
        BY <2>4, <2>5, <2>6, <2>7, <2>8
        DEF Next, SealStep, Open, ReadSeq, ReadHash, Store, StartFails, Acknowledge, vars, pageVars
<1> QED
    BY <1>1, <1>2, Invariance, PTL DEF Spec

-----------------------------------------------------------------------------
(* What a page makes of the queue.                                          *)

\* Every variable keeps its type, the number a seal has read among them
\* (recorder.ts: Recorder, queue.ts: ChunkQueue).
THEOREM Typing == Spec => []TypeOK
<1>1. Inv => TypeOK
    BY DEF Inv
<1> QED
    BY <1>1, Invariance, PTL

\* The queue one page writes at a time always passes the audit of chain.ts 59-80,
\* through every reload, acknowledgement and storage failure.
THEOREM QueueAlwaysVerifies == Spec => []QueueVerifies
<1>1. Inv => QueueVerifies
    <2> SUFFICES ASSUME Inv PROVE QueueVerifies
        OBVIOUS
    <2>1. PICK n \in Nat : DOMAIN chunks = 0..(n-1)
        BY DEF Inv, Gapless
    <2> DEFINE q == [i \in 1..n |-> i - 1]
    <2>2. q \in [1..n -> DOMAIN chunks] /\ {q[i] : i \in 1..n} = 0..(n-1)
        <3>1. \A k \in 0..(n-1) : k + 1 \in 1..n /\ q[k + 1] = k
            OBVIOUS
        <3> QED
            BY <2>1, <3>1
    <2>3. All = [i \in 1..n |-> chunks[q[i]]]
        <3>1. Cardinality(0..(n-1)) = n
            BY CardinalityBelow
        <3>2. Ascending(DOMAIN chunks) = q
            BY <2>1, AscendingInterval
        <3> QED
            BY <2>1, <3>1, <3>2 DEF All, Rows
    <2>4. Ordered(All) = Rows(0..(n-1))
        <3>1. DOMAIN chunks \in SUBSET Nat
            BY <2>1
        <3>2. \A i, j \in 1..n : i # j => q[i] # q[j]
            OBVIOUS
        <3> HIDE DEF q
        <3> QED
            BY <2>2, <2>3, <3>1, <3>2, OrderedRows DEF Inv
    <2>5. VerifyOrdered(Rows(0..(n-1))) = [ok |-> TRUE, chunks |-> n]
        BY <2>1, FirstRowsVerify DEF Inv
    <2> QED
        BY <2>4, <2>5 DEF QueueVerifies, VerifyChain
<1> QED
    BY <1>1, Invariance, PTL

\* To the delivery side a page is a log: whatever it does, the queue only grows
\* by the next linked chunk, and no row is replaced, removed or undelivered.
THEOREM RecorderKeepsTheLog == Spec => LogPromise
<1>1. Init => Log!QueueInit
    BY DEF Init, QueueInit, Log!QueueInit
<1>2. Inv /\ [Next]_vars => [Log!Grow \/ Log!Deliver]_(Log!queueVars)
    <2> SUFFICES ASSUME Inv, [Next]_vars
                 PROVE  Log!Grow \/ Log!Deliver \/ UNCHANGED <<chunks, delivered>>
        BY DEF Log!queueVars
    <2>1. CASE Store
        <3>1. PICK n \in Nat :
                 /\ DOMAIN chunks = 0..(n-1)
                 /\ Sealed.seq = n
                 /\ chunks' = [k \in 0..n |-> IF k = n THEN Sealed ELSE chunks[k]]
            BY <2>1, StoreAppends
        <3>2. NextSeq = n
            BY <3>1, EndOfQueue
        <3>3. Log!NextSeq = n /\ Log!LastHash = LastHash
            BY <3>2 DEF Log!NextSeq, Log!LastHash, NextSeq, LastHash, Max, Log!Max
        <3>4. DOMAIN chunks' = DOMAIN chunks \cup {n}
            BY <3>1
        <3>5. \A k \in DOMAIN chunks : chunks'[k] = chunks[k]
            BY <3>1
        <3>6. chunks'[n] = Sealed
            BY <3>1
        <3>7. /\ Sealed.prevHash = LastHash
              /\ Sealed.hash = Hash(Log!Canonical(Sealed))
            BY <2>1 DEF Inv, JobCurrent, Store, Sealed, SealChunk, Canonical, Log!Canonical
        <3>8. delivered' = delivered
            <4>1. n \notin delivered
                BY <3>1 DEF Inv, TypeOK
            <4> QED
                BY <2>1, <3>1, <4>1 DEF Store, AppendChunk
        <3> QED
            BY <3>1, <3>3, <3>4, <3>5, <3>6, <3>7, <3>8 DEF Log!Grow
    <2>2. CASE Acknowledge
        BY <2>2 DEF Acknowledge, MarkDelivered, Inv, TypeOK, Log!Deliver
    <2>3. CASE ~Store /\ ~Acknowledge
        <3>1. UNCHANGED <<chunks, delivered>>
            BY <2>3 DEF Next, SealStep, Open, Start, Record, SealNow, Stop, SealNothing, SealBegin,
                        ReadSeq, ReadHash, SealFails, StartFails, Close, vars, queueVars
        <3> QED
            BY <3>1
    <2> QED
        BY <2>1, <2>2, <2>3
<1> QED
    BY <1>1, <1>2, Invariance, PTL DEF Spec, LogPromise, Log!LogSpec

-----------------------------------------------------------------------------
(* The order of events.  Sealing moves events from the buffer to the running*)
(* seal to the disk and loses, doubles or reorders none: RecordedInOrder is *)
(* inductive given Inv, which says where Store writes.                      *)

LEMMA NothingHeld ==
    ASSUME NEW events, events = << >>
    PROVE  Ids(events) = {} /\ Increasing(events)
BY DEF Ids, ToSet, Increasing

\* One more event adds its id.
LEMMA IdsOfAppend ==
    ASSUME NEW events \in Seq(Event), NEW event \in Event
    PROVE  Ids(Append(events, event)) = Ids(events) \cup {event.id}
<1>1. ToSet(Append(events, event)) = ToSet(events) \cup {event}
    <2>1. DOMAIN Append(events, event) = DOMAIN events \cup {Len(events) + 1}
        OBVIOUS
    <2>2. \A i \in DOMAIN events : Append(events, event)[i] = events[i]
        OBVIOUS
    <2>3. Append(events, event)[Len(events) + 1] = event
        OBVIOUS
    <2> QED
        BY <2>1, <2>2, <2>3 DEF ToSet
<1> QED
    BY <1>1 DEF Ids

\* The ids of two sequences put together.
LEMMA IdsOfConcat ==
    ASSUME NEW s \in Seq(Event), NEW t \in Seq(Event)
    PROVE  Ids(s \o t) = Ids(s) \cup Ids(t)
<1>1. ToSet(s \o t) = ToSet(s) \cup ToSet(t)
    <2>1. ToSet(s \o t) \subseteq ToSet(s) \cup ToSet(t)
        BY DEF ToSet
    <2>2. ASSUME NEW i \in DOMAIN s PROVE s[i] \in ToSet(s \o t)
        <3>1. i \in DOMAIN (s \o t) /\ (s \o t)[i] = s[i]
            OBVIOUS
        <3> QED
            BY <3>1 DEF ToSet
    <2>3. ASSUME NEW i \in DOMAIN t PROVE t[i] \in ToSet(s \o t)
        <3>1. Len(s) + i \in DOMAIN (s \o t) /\ (s \o t)[Len(s) + i] = t[i]
            OBVIOUS
        <3> QED
            BY <3>1 DEF ToSet
    <2> QED
        BY <2>1, <2>2, <2>3 DEF ToSet
<1> QED
    BY <1>1 DEF Ids

\* An event numbered above the others keeps the sequence increasing.
LEMMA IncreasingAppend ==
    ASSUME NEW events \in Seq(Event), NEW event \in Event,
           Increasing(events), \A n \in Ids(events) : n < event.id
    PROVE  Increasing(Append(events, event))
<1>1. \A i \in DOMAIN events : events[i].id < event.id
    BY DEF Ids, ToSet
<1>2. ASSUME NEW i \in DOMAIN Append(events, event),
             NEW j \in DOMAIN Append(events, event), i < j
      PROVE  Append(events, event)[i].id < Append(events, event)[j].id
    <2>1. i \in DOMAIN events /\ Append(events, event)[i] = events[i]
        BY <1>2
    <2>2. CASE j = Len(events) + 1
        <3>1. Append(events, event)[j] = event
            BY <2>2
        <3> QED
            BY <1>1, <2>1, <3>1
    <2>3. CASE j # Len(events) + 1
        <3>1. j \in DOMAIN events /\ Append(events, event)[j] = events[j]
            BY <2>3
        <3> QED
            BY <1>2, <2>1, <3>1 DEF Increasing
    <2> QED
        BY <2>2, <2>3
<1> QED
    BY <1>2 DEF Increasing

-----------------------------------------------------------------------------
(* The steps.                                                               *)

\* An id is on disk when a row holds it.
LEMMA OnDisk ==
    ASSUME NEW m
    PROVE  m \in DiskIds <=> \E k \in DOMAIN chunks : m \in Ids(chunks[k].events)
BY DEF DiskIds

\* While the rows stay, so do the ids on disk.
LEMMA DiskIdsKept ==
    ASSUME UNCHANGED chunks
    PROVE  DiskIds' = DiskIds
BY DEF DiskIds

\* A step that touches no event keeps every place as it is.
LEMMA PlacesKept ==
    ASSUME RecordedInOrder, UNCHANGED <<chunks, job, buffer, eventCount, lost>>
    PROVE  RecordedInOrder'
<1>1. Held' = Held
    BY DiskIdsKept DEF Held
<1> QED
    BY <1>1 DEF RecordedInOrder, Before, Increasing, Ids

\* Recording puts the newest event last.
LEMMA TakeInOrder ==
    ASSUME Inv, RecordedInOrder, NEW kind \in Kinds, Take(kind),
           UNCHANGED <<chunks, job, lost>>
    PROVE  RecordedInOrder'
<1> DEFINE event == [id |-> eventCount, kind |-> kind]
<1>1. /\ buffer \in Seq(Event)
      /\ event \in Event
      /\ eventCount \in Nat
      /\ buffer' = Append(buffer, event)
      /\ eventCount' = eventCount + 1
    BY DEF Inv, TypeOK, Event, Take
<1>2. Ids(buffer') = Ids(buffer) \cup {eventCount}
    BY <1>1, IdsOfAppend
<1>3. \A n \in Held : n \in Nat /\ n < eventCount
    BY <1>1 DEF RecordedInOrder
<1>4. \A n \in Ids(buffer) \cup Ids(job.events) : n < eventCount
    BY <1>3 DEF Held
<1>5. \A k \in DOMAIN chunks : \A n \in Ids(chunks[k].events) : n < eventCount
    BY <1>3, OnDisk DEF Held
<1>6. Increasing(buffer')
    BY <1>1, <1>4, IncreasingAppend DEF RecordedInOrder
<1>7. Before(job.events, buffer)'
    BY <1>2, <1>4 DEF RecordedInOrder, Before
<1>8. \A k \in DOMAIN chunks : Before(chunks[k].events, buffer')
    BY <1>2, <1>5 DEF RecordedInOrder, Before
<1>9. Held' = Held \cup {eventCount}
    BY <1>2, DiskIdsKept DEF Held
<1>10. (Held \cup lost)' = 0..(eventCount' - 1) /\ Held' \cap lost' = {}
    <2>1. Held \cup lost = 0..(eventCount - 1) /\ Held \cap lost = {}
        BY DEF RecordedInOrder
    <2> QED
        BY <1>1, <1>9, <2>1
<1> QED
    BY <1>6, <1>7, <1>8, <1>10 DEF RecordedInOrder, Before, Increasing, Ids

\* A seal takes the whole buffer.
LEMMA SealBeginInOrder ==
    ASSUME Inv, RecordedInOrder, SealBegin
    PROVE  RecordedInOrder'
<1>1. /\ job.events = << >>
      /\ job'.events = buffer
      /\ buffer' = << >>
      /\ UNCHANGED <<chunks, eventCount, lost>>
    BY DEF SealBegin, Idle, queueVars, historyVars
<1>2. Ids(job.events) = {} /\ Ids(buffer') = {} /\ Increasing(buffer')
    BY <1>1, NothingHeld
<1>3. Ids(job'.events) = Ids(buffer)
    BY <1>1
<1>4. Held' = Held
    BY <1>1, <1>2, <1>3, DiskIdsKept DEF Held
<1>5. \A k \in DOMAIN chunks : Before(chunks[k].events, job'.events)
    BY <1>1 DEF RecordedInOrder
<1>6. Increasing(job'.events)
    BY <1>1 DEF RecordedInOrder
<1>7. \A events : Before(events, buffer')
    BY <1>2 DEF Before
<1> QED
    BY <1>1, <1>2, <1>4, <1>5, <1>6, <1>7 DEF RecordedInOrder, Before, Increasing, Ids

\* The running seal's events become the last row.
LEMMA StoreInOrder ==
    ASSUME Inv, RecordedInOrder, Store
    PROVE  RecordedInOrder'
<1>1. PICK n \in Nat :
             /\ DOMAIN chunks = 0..(n-1)
             /\ chunks' = [k \in 0..n |-> IF k = n THEN Sealed ELSE chunks[k]]
    BY StoreAppends
<1>2. /\ job'.events = << >>
      /\ UNCHANGED <<buffer, eventCount, lost>>
    BY DEF Store, Idle, historyVars
<1>3. /\ DOMAIN chunks' = DOMAIN chunks \cup {n}
      /\ n \notin DOMAIN chunks
      /\ \A k \in DOMAIN chunks : k < n /\ chunks'[k] = chunks[k]
      /\ chunks'[n].events = job.events
    BY <1>1 DEF Sealed, SealChunk
<1>4. Ids(job'.events) = {} /\ Increasing(job'.events)
    BY <1>2, NothingHeld
<1>5. Held' = Held
    <2>1. DiskIds' = DiskIds \cup Ids(job.events)
        BY <1>3 DEF DiskIds
    <2> QED
        BY <1>2, <1>4, <2>1 DEF Held
<1>6. \A k \in DOMAIN chunks' : Increasing(chunks'[k].events)
    BY <1>3 DEF RecordedInOrder
<1>7. ASSUME NEW k \in DOMAIN chunks', NEW l \in DOMAIN chunks', k < l
      PROVE  Before(chunks'[k].events, chunks'[l].events)
    <2>1. k \in DOMAIN chunks
        BY <1>3, <1>7, <1>1
    <2>2. CASE l = n
        BY <1>3, <2>1, <2>2 DEF RecordedInOrder
    <2>3. CASE l # n
        BY <1>3, <1>7, <2>1, <2>3 DEF RecordedInOrder
    <2> QED
        BY <2>2, <2>3
<1>8. \A k \in DOMAIN chunks' : Before(chunks'[k].events, buffer')
    BY <1>2, <1>3 DEF RecordedInOrder
<1>9. /\ \A events : Before(events, job'.events)
      /\ \A events : Before(job'.events, events)
    BY <1>4 DEF Before
<1> QED
    BY <1>2, <1>4, <1>5, <1>6, <1>7, <1>8, <1>9 DEF RecordedInOrder

\* A closing page and a failed seal lose what they hold, and nothing else.
LEMMA ForgetInOrder ==
    ASSUME Inv, RecordedInOrder, SealFails \/ Close
    PROVE  RecordedInOrder'
<1>1. UNCHANGED <<chunks, eventCount>>
    BY DEF SealFails, Close, queueVars
<1>2. job'.events = << >>
    BY DEF SealFails, Close, Idle
<1>3. Ids(job'.events) = {} /\ Increasing(job'.events)
    BY <1>2, NothingHeld
<1>4. /\ \/ buffer' = buffer /\ lost' = lost \cup Ids(job.events)
         \/ buffer' = << >> /\ lost' = lost \cup Ids(job.events) \cup Ids(buffer)
    <2>1. CASE SealFails
        BY <2>1 DEF SealFails, Forget
    <2>2. CASE Close
        <3>1. Ids(job.events \o buffer) = Ids(job.events) \cup Ids(buffer)
            BY IdsOfConcat DEF Inv, TypeOK
        <3> QED
            BY <2>2, <3>1 DEF Close, Forget
    <2> QED
        BY <2>1, <2>2
<1>5. \/ Ids(buffer') = Ids(buffer) /\ lost' = lost \cup Ids(job.events)
      \/ Ids(buffer') = {} /\ lost' = lost \cup Ids(job.events) \cup Ids(buffer)
    BY <1>4, NothingHeld
<1>6. Increasing(buffer')
    BY <1>4, NothingHeld DEF RecordedInOrder
<1>7. \A k \in DOMAIN chunks : Before(chunks[k].events, buffer')
    BY <1>5 DEF RecordedInOrder, Before
<1>8. Held' \cup lost' = 0..(eventCount' - 1) /\ Held' \cap lost' = {}
    <2>1. Held = DiskIds \cup Ids(job.events) \cup Ids(buffer)
        BY DEF Held
    <2>2. Held' = DiskIds \cup Ids(buffer')
        BY <1>1, <1>3, DiskIdsKept DEF Held
    <2>3. Held \cup lost = 0..(eventCount - 1) /\ Held \cap lost = {}
        BY DEF RecordedInOrder
    <2>4. DiskIds \cap Ids(job.events) = {} /\ DiskIds \cap Ids(buffer) = {}
        <3> SUFFICES ASSUME NEW m \in DiskIds, m \in Ids(job.events) \cup Ids(buffer)
                     PROVE  FALSE
            OBVIOUS
        <3>1. PICK k \in DOMAIN chunks : m \in Ids(chunks[k].events)
            BY OnDisk
        <3>2. m < m
            BY <3>1 DEF RecordedInOrder, Before
        <3>3. m \in Int
            BY <2>1, <2>3
        <3> QED
            BY <3>2, <3>3
    <2>5. Ids(job.events) \cap Ids(buffer) = {}
        BY <2>3, <2>1 DEF RecordedInOrder, Before
    <2> QED
        BY <1>1, <1>5, <2>1, <2>2, <2>3, <2>4, <2>5
<1>9. \A events : Before(events, job'.events) /\ Before(job'.events, events)
    BY <1>3 DEF Before
<1> QED
    BY <1>1, <1>3, <1>6, <1>7, <1>8, <1>9 DEF RecordedInOrder, Increasing, Before, Ids

\* Of all the events ever recorded each is in one place, and the places hold
\* them in the order of recording (recorder.ts 71-75, 125-143).
THEOREM EventsStayInOrder == Spec => []RecordedInOrder
<1>1. Init => RecordedInOrder
    <2> SUFFICES ASSUME Init PROVE RecordedInOrder
        OBVIOUS
    <2>1. /\ DOMAIN chunks = {}
          /\ job.events = << >>
          /\ buffer = << >>
          /\ eventCount = 0
          /\ lost = {}
        BY DEF Init, QueueInit, Idle
    <2>2. Ids(job.events) = {} /\ Ids(buffer) = {} /\ Increasing(buffer) /\ Increasing(job.events)
        BY <2>1, NothingHeld
    <2>3. Held = {}
        BY <2>1, <2>2 DEF Held, DiskIds
    <2> QED
        BY <2>1, <2>2, <2>3 DEF RecordedInOrder, Before
<1>2. Inv /\ RecordedInOrder /\ [Next]_vars => RecordedInOrder'
    <2> SUFFICES ASSUME Inv, RecordedInOrder, [Next]_vars PROVE RecordedInOrder'
        OBVIOUS
    <2>1. CASE Start
        <3>1. (IF NextSeq = 0 THEN "start" ELSE "resume") \in Kinds
            BY DEF Kinds
        <3> QED
            BY <2>1, <3>1, TakeInOrder DEF Start, queueVars
    <2>2. CASE Record
        BY <2>2, TakeInOrder DEF Record, Kinds, queueVars
    <2>3. CASE SealBegin
        BY <2>3, SealBeginInOrder
    <2>4. CASE Store
        BY <2>4, StoreInOrder
    <2>5. CASE SealFails \/ Close
        BY <2>5, ForgetInOrder
    <2>6. CASE ReadSeq \/ ReadHash
        <3>1. /\ job'.events = job.events
              /\ UNCHANGED <<chunks, buffer, eventCount, lost>>
            BY <2>6 DEF ReadSeq, ReadHash, queueVars, historyVars, Inv, TypeOK
        <3> QED
            BY <3>1, DiskIdsKept DEF RecordedInOrder, Held, Before, Increasing, Ids
    <2>7. CASE UNCHANGED <<chunks, job, buffer, eventCount, lost>>
        BY <2>7, PlacesKept
    <2> QED
        BY <2>1, <2>2, <2>3, <2>4, <2>5, <2>6, <2>7
        DEF Next, SealStep, Open, SealNow, Stop, SealNothing, StartFails, Acknowledge,
            MarkDelivered, vars, queueVars, pageVars, historyVars
<1> QED
    BY <1>1, <1>2, Invariance, PTL DEF Spec

-----------------------------------------------------------------------------
(* One start.  Whichever page comes first to have its first chunk stored,   *)
(* every later one finds the queue non-empty and resumes.  The events are   *)
(* told apart by their ids.                                                 *)

\* The events of the page that are not on disk.
InMemory == ToSet(job.events) \cup ToSet(buffer)

\* A page decides once whether it starts or resumes, and starts only while
\* nothing but signals of its own is on disk.
StartInv ==
    /\ page = NoPage => ~starting /\ ~mounted /\ ~timers /\ InMemory = {}
    /\ \A e \in InMemory : starting => e.kind = "signal"
    /\ \A e, f \in InMemory : e.kind # "signal" /\ f.kind # "signal" => e = f
    /\ (\E e \in InMemory : e.kind = "start") => \A e \in StoredEvents : e.kind = "signal"
    /\ OneStart

-----------------------------------------------------------------------------
(* The steps.                                                               *)

LEMMA NoEvents == ASSUME NEW events, events = << >> PROVE ToSet(events) = {}
BY DEF ToSet

\* Recording puts one event into the buffer.
LEMMA TakeAdds ==
    ASSUME Inv, NEW kind \in Kinds, Take(kind), job' = job
    PROVE  InMemory' = InMemory \cup {[id |-> eventCount, kind |-> kind]}
<1> DEFINE event == [id |-> eventCount, kind |-> kind]
<1>1. buffer \in Seq(Event) /\ event \in Event /\ buffer' = Append(buffer, event)
    BY DEF Inv, TypeOK, Event, Take
<1> HIDE DEF event
<1>2. ToSet(Append(buffer, event)) = ToSet(buffer) \cup {event}
    <2>1. DOMAIN Append(buffer, event) = DOMAIN buffer \cup {Len(buffer) + 1}
        BY <1>1
    <2>2. \A i \in DOMAIN buffer : Append(buffer, event)[i] = buffer[i]
        BY <1>1
    <2>3. Append(buffer, event)[Len(buffer) + 1] = event
        BY <1>1
    <2> QED
        BY <2>1, <2>2, <2>3 DEF ToSet
<1> QED
    BY <1>1, <1>2 DEF InMemory, event

\* The first event of a page says whether anything is on disk.
LEMMA StartDecides ==
    ASSUME Inv, StartInv, Start
    PROVE  StartInv'
<1> DEFINE kind == IF NextSeq = 0 THEN "start" ELSE "resume"
<1> DEFINE event == [id |-> eventCount, kind |-> kind]
<1>1. /\ starting /\ starting' = FALSE /\ Take(kind)
      /\ UNCHANGED <<chunks, page, job>>
    BY DEF Start, queueVars
<1>2. kind \in Kinds /\ kind # "signal"
    BY DEF Kinds
<1>3. InMemory' = InMemory \cup {event}
    BY <1>1, <1>2, TakeAdds
<1>4. page # NoPage /\ \A e \in InMemory : e.kind = "signal"
    BY <1>1 DEF StartInv
<1>5. StoredEvents' = StoredEvents /\ OneStart'
    BY <1>1 DEF StartInv, OneStart, StoredEvents
<1>6. event.kind = "start" => StoredEvents = {}
    <2> SUFFICES ASSUME NextSeq = 0
                 PROVE  StoredEvents = {}
        OBVIOUS
    <2>1. PICK n \in Nat : DOMAIN chunks = 0..(n-1)
        BY DEF Inv, Gapless
    <2>2. n = 0
        BY <2>1, EndOfQueue
    <2>3. DOMAIN chunks = {}
        BY <2>1, <2>2
    <2> QED
        BY <2>3 DEF StoredEvents
<1> HIDE DEF event
<1>7. \A e, f \in InMemory' : e.kind # "signal" /\ f.kind # "signal" => e = f
    BY <1>3, <1>4
<1>8. (\E e \in InMemory' : e.kind = "start") => \A e \in StoredEvents' : e.kind = "signal"
    BY <1>3, <1>4, <1>5, <1>6
<1> QED
    BY <1>1, <1>4, <1>5, <1>7, <1>8 DEF StartInv

\* Signals neither start nor resume.
LEMMA RecordSignals ==
    ASSUME Inv, StartInv, Record
    PROVE  StartInv'
<1> DEFINE event == [id |-> eventCount, kind |-> "signal"]
<1>1. Take("signal") /\ UNCHANGED <<chunks, page, starting, job>> /\ (mounted \/ timers)
    BY DEF Record, queueVars
<1>2. InMemory' = InMemory \cup {event}
    BY <1>1, TakeAdds DEF Kinds
<1>3. event.kind = "signal"
    OBVIOUS
<1>4. StoredEvents' = StoredEvents /\ OneStart'
    BY <1>1 DEF StartInv, OneStart, StoredEvents
<1>5. page # NoPage
    BY <1>1 DEF StartInv
<1> HIDE DEF event
<1> QED
    BY <1>1, <1>2, <1>3, <1>4, <1>5 DEF StartInv

\* Steps that add no event to the page and none to the disk.
LEMMA NothingAdded ==
    ASSUME StartInv, InMemory' \subseteq InMemory, chunks' = chunks,
           page' # NoPage => page = page',
           page' = NoPage => ~starting' /\ ~mounted' /\ ~timers' /\ InMemory' = {},
           starting' => starting
    PROVE  StartInv'
<1>1. StoredEvents' = StoredEvents /\ OneStart'
    BY DEF StartInv, OneStart, StoredEvents
<1> QED
    BY <1>1 DEF StartInv

\* A new page has recorded nothing.
LEMMA OpenIsFresh ==
    ASSUME Inv, StartInv, NEW s \in Sessions, Open(s)
    PROVE  StartInv'
<1>1. page = NoPage /\ page' = s /\ UNCHANGED <<chunks, buffer, job>>
    BY DEF Open, queueVars
<1>2. InMemory' = {} /\ page' # NoPage
    BY <1>1, SessionsAssumption DEF StartInv, InMemory
<1>3. OneStart'
    BY <1>1 DEF StartInv, OneStart, StoredEvents
<1> QED
    BY <1>2, <1>3 DEF StartInv

\* A row holds the events of the seal that stores it.
LEMMA StoreKeepsOneStart ==
    ASSUME Inv, RecordedInOrder, StartInv, Store
    PROVE  StartInv'
<1>1. PICK n \in Nat :
             /\ DOMAIN chunks = 0..(n-1)
             /\ chunks' = [k \in 0..n |-> IF k = n THEN Sealed ELSE chunks[k]]
    BY StoreAppends
<1>2. /\ job'.events = << >> /\ ~starting
      /\ UNCHANGED <<buffer, page, starting, mounted, timers>>
    BY DEF Store, Idle
<1>3. /\ DOMAIN chunks' = DOMAIN chunks \cup {n}
      /\ n \notin DOMAIN chunks
      /\ \A k \in DOMAIN chunks : chunks'[k] = chunks[k]
      /\ chunks'[n].events = job.events
    BY <1>1 DEF Sealed, SealChunk
<1>4. StoredEvents' = StoredEvents \cup ToSet(job.events)
    BY <1>3 DEF StoredEvents
<1>5. InMemory' = ToSet(buffer) /\ InMemory = ToSet(job.events) \cup ToSet(buffer)
    BY <1>2, NoEvents DEF InMemory
<1>6. ASSUME NEW e \in StoredEvents, NEW f \in ToSet(job.events)
      PROVE  e.id < f.id
    <2>1. PICK k \in DOMAIN chunks : e \in ToSet(chunks[k].events)
        BY DEF StoredEvents
    <2>2. e.id \in Ids(chunks[k].events) /\ f.id \in Ids(job.events)
        BY <2>1 DEF Ids
    <2> QED
        BY <2>2 DEF RecordedInOrder, Before
<1>7. \A e \in ToSet(job.events), f \in ToSet(buffer) : e # f
    <2> SUFFICES ASSUME NEW e \in ToSet(job.events), e \in ToSet(buffer)
                 PROVE  FALSE
        OBVIOUS
    <2>1. e.id \in Ids(job.events) /\ e.id \in Ids(buffer)
        BY DEF Ids
    <2>2. e.id < e.id
        BY <2>1 DEF RecordedInOrder, Before
    <2>3. e.id \in Nat
        <3>1. job.events \in Seq(Event)
            BY DEF Inv, TypeOK
        <3>2. PICK i \in DOMAIN job.events : job.events[i] = e
            BY DEF ToSet
        <3>3. e \in Event
            BY <3>1, <3>2
        <3> QED
            BY <3>3 DEF Event
    <2> QED
        BY <2>2, <2>3
<1>8. OneStart'
    <2> SUFFICES ASSUME NEW e \in StoredEvents', NEW f \in StoredEvents', e.kind = "start"
                 PROVE  /\ f.kind = "start" => e = f
                        /\ f.kind = "resume" => e.id < f.id
        BY DEF OneStart
    <2>1. CASE e \in StoredEvents /\ f \in StoredEvents
        BY <2>1 DEF StartInv, OneStart
    <2>2. CASE e \in ToSet(job.events) /\ f \in StoredEvents
        <3>1. f.kind = "signal"
            BY <1>5, <2>2 DEF StartInv
        <3> QED
            BY <3>1
    <2>3. CASE e \in ToSet(job.events) /\ f \in ToSet(job.events)
        BY <1>5, <2>3 DEF StartInv
    <2>4. CASE e \in StoredEvents /\ f \in ToSet(job.events)
        <3>1. f.kind # "start"
            BY <1>5, <2>4 DEF StartInv
        <3> QED
            BY <1>6, <2>4, <3>1
    <2> QED
        BY <1>4, <2>1, <2>2, <2>3, <2>4
<1>9. (\E e \in InMemory' : e.kind = "start") => \A e \in StoredEvents' : e.kind = "signal"
    <2> SUFFICES ASSUME NEW f \in ToSet(buffer), f.kind = "start", NEW e \in StoredEvents'
                 PROVE  e.kind = "signal"
        BY <1>5
    <2>1. CASE e \in StoredEvents
        BY <1>5, <2>1 DEF StartInv
    <2>2. CASE e \in ToSet(job.events)
        BY <1>5, <1>7, <2>2 DEF StartInv
    <2> QED
        BY <1>4, <2>1, <2>2
<1>10. page' = NoPage => ~starting' /\ ~mounted' /\ ~timers' /\ InMemory' = {}
    BY <1>2, <1>5 DEF StartInv
<1> QED
    BY <1>2, <1>5, <1>8, <1>9, <1>10 DEF StartInv

\* The other steps of a seal, and the losses, add nothing.
LEMMA ElseKeepsOneStart ==
    ASSUME Inv, StartInv,
           \/ SealNow \/ Stop \/ SealNothing \/ SealBegin \/ ReadSeq \/ ReadHash
           \/ SealFails \/ StartFails \/ Close \/ Acknowledge \/ UNCHANGED vars
    PROVE  StartInv'
<1>1. CASE SealBegin
    <2>1. /\ job.events = << >> /\ job'.events = buffer /\ buffer' = << >>
          /\ UNCHANGED <<chunks, page, starting, mounted, timers>>
        BY <1>1 DEF SealBegin, Idle, queueVars
    <2>2. InMemory' = InMemory
        BY <2>1, NoEvents DEF InMemory
    <2> QED
        BY <2>1, <2>2, NothingAdded DEF StartInv
<1>2. CASE ReadSeq \/ ReadHash
    <2>1. /\ job'.events = job.events
          /\ UNCHANGED <<chunks, page, starting, mounted, timers, buffer>>
        BY <1>2 DEF ReadSeq, ReadHash, queueVars, Inv, TypeOK
    <2>2. InMemory' = InMemory
        BY <2>1 DEF InMemory
    <2> QED
        BY <2>1, <2>2, NothingAdded DEF StartInv
<1>3. CASE SealNow \/ Stop \/ SealNothing \/ StartFails \/ Acknowledge \/ UNCHANGED vars
    <2>1. UNCHANGED <<chunks, page, job, buffer>>
        BY <1>3 DEF SealNow, Stop, SealNothing, StartFails, Acknowledge, vars, queueVars,
                    pageVars, MarkDelivered
    <2>2. /\ starting' => starting
          /\ mounted' => mounted
          /\ timers' => timers
        BY <1>3 DEF SealNow, Stop, SealNothing, StartFails, Acknowledge, vars, pageVars
    <2>3. InMemory' = InMemory
        BY <2>1 DEF InMemory
    <2> QED
        BY <2>1, <2>2, <2>3, NothingAdded DEF StartInv
<1>4. CASE SealFails \/ Close
    <2>1. job'.events = << >> /\ chunks' = chunks /\ buffer' \in {buffer, << >>}
        BY <1>4 DEF SealFails, Close, Idle, queueVars
    <2>2. InMemory' \subseteq InMemory /\ (buffer' = << >> => InMemory' = {})
        BY <2>1, NoEvents DEF InMemory
    <2>3. CASE SealFails
        <3>1. UNCHANGED <<page, starting, mounted, timers>>
            BY <2>3 DEF SealFails
        <3> QED
            BY <2>1, <2>2, <3>1, NothingAdded DEF StartInv
    <2>4. CASE Close
        <3>1. page' = NoPage /\ ~starting' /\ ~mounted' /\ ~timers' /\ buffer' = << >>
            BY <2>4 DEF Close
        <3> QED
            BY <2>1, <2>2, <3>1, NothingAdded
    <2> QED
        BY <1>4, <2>3, <2>4
<1> QED
    BY <1>1, <1>2, <1>3, <1>4

-----------------------------------------------------------------------------
\* The stored record has one `start` at most and no `resume` before it: a reload
\* is seen as one session, not two (useInvigilation.ts 110-112).
THEOREM OneSession == Spec => []OneStart
<1>1. Init => StartInv
    <2> SUFFICES ASSUME Init PROVE StartInv
        OBVIOUS
    <2>1. /\ DOMAIN chunks = {} /\ job.events = << >> /\ buffer = << >>
          /\ ~starting /\ ~mounted /\ ~timers
        BY DEF Init, QueueInit, Idle
    <2>2. InMemory = {} /\ StoredEvents = {}
        BY <2>1, NoEvents DEF InMemory, StoredEvents
    <2> QED
        BY <2>1, <2>2 DEF StartInv, OneStart
<1>2. Inv /\ RecordedInOrder /\ StartInv /\ [Next]_vars => StartInv'
    <2> SUFFICES ASSUME Inv, RecordedInOrder, StartInv, [Next]_vars
                 PROVE  StartInv'
        OBVIOUS
    <2>1. CASE \E s \in Sessions : Open(s)
        BY <2>1, OpenIsFresh
    <2>2. CASE Start
        BY <2>2, StartDecides
    <2>3. CASE Record
        BY <2>3, RecordSignals
    <2>4. CASE Store
        BY <2>4, StoreKeepsOneStart
    <2> QED
        BY <2>1, <2>2, <2>3, <2>4, ElseKeepsOneStart DEF Next, SealStep
<1>3. StartInv => OneStart
    BY DEF StartInv
<1> QED
    BY <1>1, <1>2, <1>3, Invariance, EventsStayInOrder, PTL DEF Spec

=============================================================================
