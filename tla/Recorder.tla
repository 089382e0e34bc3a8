------------------------------ MODULE Recorder ------------------------------
(***************************************************************************)
(* One page recording a supervised round, over the durable queue:          *)
(* packages/integrity/src/recorder.ts as useInvigilation.ts mounts it.     *)
(*                                                                         *)
(* A page is opened, records events in memory, seals them in the background*)
(* one seal at a time, and at any moment goes away, taking what is not yet *)
(* on disk with it; the next page continues from the queue.  A seal awaits *)
(* three IndexedDB transactions, and everything else may run in between.   *)
(***************************************************************************)
EXTENDS ChunkQueue, SequencesExt

CONSTANTS
    Sessions,          \* the (session, participant) pairs pages are opened for
    NoPage,            \* no page is open
    ChunkMaxEvents,    \* chunkMaxEvents: seal early at this many buffered
    StorageFaults,     \* how many IndexedDB operations may reject
    MaxEvents,         \* bound: events recorded in a behaviour
    MaxSeals,          \* bound: seals queued behind the current one by timers
    MaxPages           \* bound: pages opened in a behaviour

ASSUME SessionsAssumption == NoPage \notin Sessions
ASSUME BoundsAssumption ==
    /\ ChunkMaxEvents \in Nat \ {0}
    /\ StorageFaults \in Nat
    /\ MaxEvents \in Nat
    /\ MaxSeals \in Nat \ {0}
    /\ MaxPages \in Nat

VARIABLES
    page,        \* the session of the open page, or NoPage
    mounted,     \* the effect is mounted: its listeners are attached
    starting,    \* the mount's nextSeq() has not resolved yet
    timers,      \* the seal interval and the heartbeat are armed
    buffer,      \* events recorded and not yet taken by a seal
    seals,       \* calls of seal() waiting for the one before them
    job,         \* the seal that runs: its stage, its events, what it has read
    broken,      \* `sealing` has rejected: no later seal ever runs
    eventCount,  \* how many events were ever recorded; their ids are 0, 1, ...
    lost,        \* history: ids of the events a page or a failed seal took with it
    pageCount,   \* how many pages were ever opened
    faults       \* how many storage operations have rejected

pageVars == <<page, mounted, starting, timers, buffer, seals, job, broken>>
historyVars == <<eventCount, lost, pageCount, faults>>
vars == <<queueVars, pageVars, historyVars>>

-----------------------------------------------------------------------------
Kinds == {"start", "resume", "signal"}
Event == [id : Nat, kind : Kinds]

Ids(events) == {event.id : event \in ToSet(events)}

\* No seal is running.
Idle == [stage |-> "idle", events |-> << >>, seq |-> 0, prevHash |-> NoHash]

Init ==
    /\ QueueInit
    /\ page = NoPage
    /\ mounted = FALSE
    /\ starting = FALSE
    /\ timers = FALSE
    /\ buffer = << >>
    /\ seals = 0
    /\ job = Idle
    /\ broken = FALSE
    /\ eventCount = 0
    /\ lost = {}
    /\ pageCount = 0
    /\ faults = 0

-----------------------------------------------------------------------------
(* The page's own steps.                                                    *)

\* The effect of useInvigilation mounts: recorder, queue and transport are
\* new, and the number of the next chunk is asked for before recording starts.
Open(s) ==
    /\ page = NoPage
    /\ pageCount < MaxPages
    /\ page' = s
    /\ mounted' = TRUE
    /\ starting' = TRUE
    /\ pageCount' = pageCount + 1
    /\ UNCHANGED <<queueVars, timers, buffer, seals, job, broken, eventCount, lost, faults>>

\* (mutation) A seal asked for while one runs is taken to be that one.
RequestSealUnlessRunning == seals' = IF broken \/ job # Idle THEN seals ELSE seals + 1

\* seal() chains a job behind the ones before it; behind a rejected one it
\* never runs.
RequestSeal == seals' = IF broken THEN seals ELSE seals + 1

\* record(): buffered, and sealed at once when the buffer is full.
Take(kind) ==
    LET event == [id |-> eventCount, kind |-> kind]
    IN  /\ buffer' = Append(buffer, event)
        /\ eventCount' = eventCount + 1
        /\ IF Len(buffer') >= ChunkMaxEvents THEN RequestSeal ELSE UNCHANGED seals

\* (mutation) A queue whose rows are all delivered counts as empty.
StartWhenAllDelivered ==
    /\ starting
    /\ starting' = FALSE
    /\ timers' = TRUE
    /\ Take(IF PendingCount = 0 THEN "start" ELSE "resume")
    /\ UNCHANGED <<queueVars, page, mounted, job, broken, lost, pageCount, faults>>

\* (mutation) The interval is not armed.
StartWithoutTimer ==
    /\ starting
    /\ starting' = FALSE
    /\ Take(IF NextSeq = 0 THEN "start" ELSE "resume")
    /\ UNCHANGED <<queueVars, page, mounted, timers, job, broken, lost, pageCount, faults>>

\* nextSeq() resolves: recording starts, as a resumption when the queue holds
\* anything, and the timers are armed.
Start ==
    /\ starting
    /\ starting' = FALSE
    /\ timers' = TRUE
    /\ Take(IF NextSeq = 0 THEN "start" ELSE "resume")
    /\ UNCHANGED <<queueVars, page, mounted, job, broken, lost, pageCount, faults>>

\* An edit, a window signal, a run or a heartbeat is recorded.
Record ==
    /\ mounted \/ timers
    /\ eventCount < MaxEvents
    /\ Take("signal")
    /\ UNCHANGED <<queueVars, page, mounted, starting, timers, job, broken, lost, pageCount, faults>>

\* The seal interval fires, or the page is hidden.
SealNow ==
    /\ timers \/ mounted
    /\ seals < MaxSeals
    /\ RequestSeal
    /\ UNCHANGED <<queueVars, page, mounted, starting, timers, buffer, job, broken, historyVars>>

\* The effect unmounts: stop() clears the timers and seals once more.  A start
\* still pending is not cancelled and will arm the timers again.
Stop ==
    /\ mounted
    /\ mounted' = FALSE
    /\ timers' = FALSE
    /\ RequestSeal
    /\ UNCHANGED <<queueVars, page, starting, buffer, job, broken, historyVars>>

-----------------------------------------------------------------------------
(* The running seal.  One job runs at a time.                               *)

\* These events are gone: they were never on disk, and no longer in memory.
Forget(events) == lost' = lost \cup Ids(events)

\* Nothing is buffered: the job returns.
SealNothing ==
    /\ seals > 0
    /\ job = Idle
    /\ buffer = << >>
    /\ seals' = seals - 1
    /\ UNCHANGED <<queueVars, page, mounted, starting, timers, buffer, job, broken, historyVars>>

\* The job takes the whole buffer and asks for the next number.
SealBegin ==
    /\ seals > 0
    /\ job = Idle
    /\ buffer # << >>
    /\ seals' = seals - 1
    /\ job' = [Idle EXCEPT !.stage = "seq", !.events = buffer]
    /\ buffer' = << >>
    /\ UNCHANGED <<queueVars, page, mounted, starting, timers, broken, historyVars>>

\* await queue.nextSeq()
ReadSeq ==
    /\ job.stage = "seq"
    /\ job' = [job EXCEPT !.stage = "hash", !.seq = NextSeq]
    /\ UNCHANGED <<queueVars, page, mounted, starting, timers, buffer, seals, broken, historyVars>>

\* await queue.lastHash()
ReadHash ==
    /\ job.stage = "hash"
    /\ job' = [job EXCEPT !.stage = "put", !.prevHash = LastHash]
    /\ UNCHANGED <<queueVars, page, mounted, starting, timers, buffer, seals, broken, historyVars>>

\* The chunk the running seal has prepared.
Sealed == SealChunk([session |-> page, seq |-> job.seq, prevHash |-> job.prevHash,
                     events |-> job.events])

\* (mutation) The buffer is emptied once its events are stored, not as they are
\* taken: what was recorded meanwhile goes with them.
StoreThenClear ==
    /\ job.stage = "put"
    /\ ~starting
    /\ AppendChunk(Sealed)
    /\ job' = Idle
    /\ buffer' = << >>
    /\ UNCHANGED <<page, mounted, starting, timers, seals, broken, historyVars>>

\* await sealChunk(...), await queue.append(chunk).  The write transaction
\* waits for the mount's earlier read, so the start is decided by then.
Store ==
    /\ job.stage = "put"
    /\ ~starting
    /\ AppendChunk(Sealed)
    /\ job' = Idle
    /\ UNCHANGED <<page, mounted, starting, timers, buffer, seals, broken, historyVars>>

\* One of the three transactions rejects.  The job's events were already out
\* of the buffer, and every later seal is chained behind a rejected promise.
SealFails ==
    /\ job.stage # "idle"
    /\ faults < StorageFaults
    /\ faults' = faults + 1
    /\ broken' = TRUE
    /\ job' = Idle
    /\ seals' = 0
    /\ Forget(job.events)
    /\ UNCHANGED <<queueVars, page, mounted, starting, timers, buffer, eventCount, pageCount>>

\* The mount's nextSeq() rejects: recording never starts.
StartFails ==
    /\ starting
    /\ faults < StorageFaults
    /\ faults' = faults + 1
    /\ starting' = FALSE
    /\ UNCHANGED <<queueVars, page, mounted, timers, buffer, seals, job, broken,
                   eventCount, lost, pageCount>>

-----------------------------------------------------------------------------
(* The environment.                                                         *)

\* The page goes away: reloaded, closed, crashed.  Its memory is gone.
Close ==
    /\ page # NoPage
    /\ page' = NoPage
    /\ mounted' = FALSE
    /\ starting' = FALSE
    /\ timers' = FALSE
    /\ buffer' = << >>
    /\ seals' = 0
    /\ job' = Idle
    /\ broken' = FALSE
    /\ Forget(job.events \o buffer)
    /\ UNCHANGED <<queueVars, eventCount, pageCount, faults>>

\* The delivery loop of the page marks some pending rows delivered.
Acknowledge ==
    /\ page # NoPage
    /\ \E seqs \in SUBSET PendingSeqs : seqs # {} /\ MarkDelivered(seqs)
    /\ UNCHANGED <<pageVars, historyVars>>

-----------------------------------------------------------------------------
SealStep == SealNothing \/ SealBegin \/ ReadSeq \/ ReadHash \/ Store

Next ==
    \/ \E s \in Sessions : Open(s)
    \/ Start
    \/ Record
    \/ SealNow
    \/ Stop
    \/ SealStep
    \/ SealFails
    \/ StartFails
    \/ Close
    \/ Acknowledge

\* Promises settle and intervals fire while the page lives; nothing obliges a
\* contestant to type, to open a page or to close one.
Fairness ==
    /\ WF_vars(Start)
    /\ WF_vars(timers /\ SealNow)
    /\ WF_vars(SealStep)

Spec == Init /\ [][Next]_vars
FairSpec == Spec /\ Fairness

-----------------------------------------------------------------------------
(* Properties.                                                              *)

\* The number a running seal has read is no row's yet.
NumberIsFree == job.stage \in {"hash", "put"} => job.seq \notin DOMAIN chunks

\* The type of every variable, as the code keeps it, and a number to write that is free.
TypeOK ==
    /\ DOMAIN chunks \subseteq Nat
    /\ \A k \in DOMAIN chunks : chunks[k].events \in Seq(Event)
    /\ delivered \subseteq DOMAIN chunks
    /\ page \in Sessions \cup {NoPage}
    /\ mounted \in BOOLEAN
    /\ starting \in BOOLEAN
    /\ timers \in BOOLEAN
    /\ buffer \in Seq(Event)
    /\ seals \in Nat
    /\ job \in [stage : {"idle", "seq", "hash", "put"}, events : Seq(Event),
                seq : Nat, prevHash : {job.prevHash}]
    /\ NumberIsFree
    /\ broken \in BOOLEAN
    /\ eventCount \in Nat
    /\ lost \subseteq Nat
    /\ pageCount \in Nat
    /\ faults \in Nat

\* The queue's own audit never fails: whatever the interleaving of seals,
\* reloads, acknowledgements and storage failures, what one browser has on disk
\* starts at 0, has no gap, and every chunk follows from the one before it
\* (recorder.ts 120-123: racing seals would make a chain that cannot be verified).
QueueVerifies == VerifyChain(All).ok

\* What a reviewer of one round is shown: the chunks of a session are numbered
\* from 0, and the first follows nothing (chain.ts 15-18).
RoundVerifies == \A s \in Sessions : VerifyChain(SelectSeq(All, LAMBDA c : c.session = s)).ok

\* Every event ever recorded is in exactly one place - on disk, in the running
\* seal, in the buffer, or lost with a page or a failed seal - and the places
\* hold them in the order of recording: sealing neither drops, duplicates nor
\* reorders an event, whatever is recorded while a seal awaits.
Increasing(events) ==
    \A i, j \in DOMAIN events : i < j => events[i].id < events[j].id

Before(early, late) == \A m \in Ids(early), n \in Ids(late) : m < n

DiskIds == UNION {Ids(chunks[k].events) : k \in DOMAIN chunks}

Held == DiskIds \cup Ids(job.events) \cup Ids(buffer)

RecordedInOrder ==
    /\ \A k \in DOMAIN chunks :
          /\ Increasing(chunks[k].events)
          /\ \A l \in DOMAIN chunks : k < l => Before(chunks[k].events, chunks[l].events)
          /\ Before(chunks[k].events, job.events)
          /\ Before(chunks[k].events, buffer)
    /\ Increasing(job.events)
    /\ Before(job.events, buffer)
    /\ Increasing(buffer)
    /\ Held \cup lost = 0..(eventCount - 1)
    /\ Held \cap lost = {}

\* A chunk is sealed early when it is full (recorder.ts 74): a full buffer always
\* has a seal behind it that will take it, also when it filled up while another
\* seal was running; only a rejected seal leaves it without one.
FullIsSealed == Len(buffer) >= ChunkMaxEvents => seals > 0 \/ broken

\* A reload "should be visible as one session, not two" (useInvigilation.ts
\* 110-111): the record holds one `start` at most, and no `resume` before it.
StoredEvents == UNION {ToSet(chunks[k].events) : k \in DOMAIN chunks}

OneStart ==
    \A e, f \in StoredEvents :
        e.kind = "start" => /\ f.kind = "start" => e = f
                            /\ f.kind = "resume" => e.id < f.id

\* To the delivery side the page is a log that grows by one linked chunk at a
\* time (queue.ts 15-18: written here before any attempt to send it).
Log == INSTANCE DurableLog
LogPromise == Log!LogSpec

\* While storage works and the page stays, an event in memory reaches the disk
\* without anyone's help: the timers and the chained seals see to it
\* (useInvigilation.ts 96: a closed laptop loses a few seconds of events at most).
BufferedGetsSealed ==
    \A n \in 0..(MaxEvents + MaxPages) :
        (n \in Ids(job.events \o buffer)) ~>
            ((\E e \in StoredEvents : e.id = n) \/ page = NoPage \/ faults > 0)

=============================================================================
