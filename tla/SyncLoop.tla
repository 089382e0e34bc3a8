------------------------------ MODULE SyncLoop ------------------------------
(***************************************************************************)
(* The delivery loop of packages/integrity/src/sync.ts over the durable    *)
(* queue, as useInvigilation mounts it: sealed rows are sent in batches,   *)
(* marked delivered on acknowledgement, and retried with a growing delay.  *)
(*                                                                         *)
(* One flush awaits four things in turn - the queue, the transport, the    *)
(* queue twice more - and any of them may reject.  Timers carry the delay  *)
(* they were set with, in units of the caller's choosing.                  *)
(***************************************************************************)
EXTENDS ChunkQueue

CONSTANTS
    Owner,          \* the session whose rows are sealed
    Interval,       \* intervalMs
    BaseDelay,      \* baseDelayMs
    MaxDelay,       \* maxDelayMs
    BatchLimit,     \* the limit of queue.pending(): 32 in the code
    MaxRows,        \* bound: rows sealed in a behaviour
    NetworkFaults,  \* bound: sends that fail
    StorageFaults,  \* bound: queue operations that reject
    MaxPages        \* bound: pages opened in a behaviour

ASSUME DelaysAssumption ==
    /\ Interval \in Nat
    /\ BaseDelay \in Nat
    /\ MaxDelay \in Nat
ASSUME LoopBoundsAssumption ==
    /\ BatchLimit \in Nat \ {0}
    /\ {MaxRows, NetworkFaults, StorageFaults, MaxPages} \subseteq Nat

VARIABLES
    alive,       \* the page that owns the loop is open
    running,     \* between start() and stop()
    timer,       \* the delay of the armed timer, or Off
    stage,       \* what the flush in flight awaits, or "idle"
    batch,       \* the seqs that flush offered
    accepted,    \* the seqs the transport said were taken
    failures,    \* consecutive failed attempts
    stalled,     \* history: the last flush ended without scheduling another
    netFaults, diskFaults, pageCount    \* how often the bounded events happened

loopVars == <<alive, running, timer, stage, batch, accepted, failures, stalled>>
countVars == <<netFaults, diskFaults, pageCount>>
vars == <<queueVars, loopVars, countVars>>

Off == -1

Stages == {"idle", "pending", "nothing", "send", "mark", "report", "count", "failed"}

Init ==
    /\ QueueInit
    /\ alive = FALSE
    /\ running = FALSE
    /\ timer = Off
    /\ stage = "idle"
    /\ batch = {}
    /\ accepted = {}
    /\ failures = 0
    /\ stalled = FALSE
    /\ netFaults = 0
    /\ diskFaults = 0
    /\ pageCount = 0

-----------------------------------------------------------------------------
(* The operations of the loop.                                              *)

\* (mutation) The timer is armed whether the loop runs or was stopped meanwhile.
ScheduleAnyway(delay) == timer' = delay

\* schedule(): only while running, and replacing whatever timer was armed.
Schedule(delay) == timer' = IF running THEN delay ELSE timer

\* (mutation) The exponent is the number of failures, not one less.
BackoffFromTwo(n) == Min({BaseDelay * 2^n, MaxDelay})

\* min(maxDelay, baseDelay * 2 ** (failures - 1))
Backoff(n) == Min({BaseDelay * 2^(n-1), MaxDelay})

\* flush() while another is in flight does nothing.
Flush ==
    /\ stage' = IF stage = "idle" THEN "pending" ELSE stage
    /\ stalled' = FALSE

\* A new page mounts a new loop and starts it.
Start ==
    /\ ~alive
    /\ pageCount < MaxPages
    /\ alive' = TRUE
    /\ running' = TRUE
    /\ timer' = 0
    /\ pageCount' = pageCount + 1
    /\ UNCHANGED <<queueVars, stage, batch, accepted, failures, stalled, netFaults, diskFaults>>

\* stop(): the timer is cleared; a flush in flight goes on.
Stop ==
    /\ running
    /\ running' = FALSE
    /\ timer' = Off
    /\ UNCHANGED <<queueVars, alive, stage, batch, accepted, failures, stalled, countVars>>

\* The armed timer fires.
Fire ==
    /\ timer # Off
    /\ timer' = Off
    /\ Flush
    /\ UNCHANGED <<queueVars, alive, running, batch, accepted, failures, countVars>>

\* await queue.pending(): there is something to send, the oldest first.
ReadPending ==
    /\ stage = "pending"
    /\ PendingSeqs # {}
    /\ LET rows == Pending(BatchLimit)
       IN  batch' = {rows[i].seq : i \in DOMAIN rows}
    /\ stage' = "send"
    /\ UNCHANGED <<queueVars, alive, running, timer, accepted, failures, stalled, countVars>>

\* await queue.pending(): nothing to send.
ReadNothing ==
    /\ stage = "pending"
    /\ PendingSeqs = {}
    /\ failures' = 0
    /\ stage' = "nothing"
    /\ UNCHANGED <<queueVars, alive, running, timer, batch, accepted, stalled, countVars>>

\* ... the state is reported and the loop idles for an interval.
IdleAgain ==
    /\ stage = "nothing"
    /\ Schedule(Interval)
    /\ stage' = "idle"
    /\ UNCHANGED <<queueVars, alive, running, batch, accepted, failures, stalled, countVars>>

\* await transport.send() resolves with the seqs that were taken.
Answered(seqs) ==
    /\ stage = "send"
    /\ accepted' = seqs
    /\ stage' = "mark"
    /\ UNCHANGED <<queueVars, alive, running, timer, batch, failures, stalled, countVars>>

\* await queue.markDelivered(accepted)
Mark ==
    /\ stage = "mark"
    /\ MarkDelivered(accepted)
    /\ failures' = 0
    /\ stage' = "report"
    /\ batch' = {}
    /\ accepted' = {}
    /\ UNCHANGED <<alive, running, timer, stalled, countVars>>

\* await this.report()
Report ==
    /\ stage = "report"
    /\ stage' = "count"
    /\ UNCHANGED <<queueVars, alive, running, timer, batch, accepted, failures, stalled, countVars>>

\* await queue.pendingCount(): straight back when there is more.
CountAgain ==
    /\ stage = "count"
    /\ Schedule(IF PendingCount > 0 THEN 0 ELSE Interval)
    /\ stage' = "idle"
    /\ UNCHANGED <<queueVars, alive, running, batch, accepted, failures, stalled, countVars>>

\* Anything in the try block rejects.
Fails ==
    /\ failures' = failures + 1
    /\ stage' = "failed"
    /\ batch' = {}
    /\ accepted' = {}
    /\ UNCHANGED <<queueVars, alive, running, timer, stalled, pageCount>>

SendFails ==
    /\ stage = "send"
    /\ netFaults < NetworkFaults
    /\ netFaults' = netFaults + 1
    /\ Fails
    /\ UNCHANGED diskFaults

QueueFails ==
    /\ stage \in {"pending", "nothing", "mark", "report", "count"}
    /\ diskFaults < StorageFaults
    /\ diskFaults' = diskFaults + 1
    /\ Fails
    /\ UNCHANGED netFaults

\* (mutation) A second failure in a row is the last attempt.
RetryOnce ==
    /\ stage = "failed"
    /\ IF failures < 2 THEN Schedule(Backoff(failures)) ELSE UNCHANGED timer
    /\ stage' = "idle"
    /\ UNCHANGED <<queueVars, alive, running, batch, accepted, failures, stalled, countVars>>

\* The failure is reported and the next attempt is scheduled after a delay.
Retry ==
    /\ stage = "failed"
    /\ Schedule(Backoff(failures))
    /\ stage' = "idle"
    /\ UNCHANGED <<queueVars, alive, running, batch, accepted, failures, stalled, countVars>>

\* The report of the failure rejects too (it counts the queue): the catch block
\* is left before it schedules anything.
RetryFails ==
    /\ stage = "failed"
    /\ diskFaults < StorageFaults
    /\ diskFaults' = diskFaults + 1
    /\ stage' = "idle"
    /\ stalled' = TRUE
    /\ UNCHANGED <<queueVars, alive, running, timer, batch, accepted, failures,
                   netFaults, pageCount>>

-----------------------------------------------------------------------------
(* The environment.                                                         *)

\* The recorder seals a row, and onChunkSealed flushes.
Seal ==
    /\ alive
    /\ NextSeq < MaxRows
    /\ AppendChunk(SealChunk([session |-> Owner, seq |-> NextSeq,
                              prevHash |-> LastHash, events |-> << >>]))
    /\ Flush
    /\ UNCHANGED <<alive, running, timer, batch, accepted, failures, countVars>>

\* The page goes away with the loop, whatever it awaits.
Close ==
    /\ alive
    /\ alive' = FALSE
    /\ running' = FALSE
    /\ timer' = Off
    /\ stage' = "idle"
    /\ batch' = {}
    /\ accepted' = {}
    /\ failures' = 0
    /\ stalled' = FALSE
    /\ UNCHANGED <<queueVars, countVars>>

\* A server takes the whole of a batch, or some of it.
Answer == \E seqs \in SUBSET batch : seqs # {} /\ Answered(seqs)

-----------------------------------------------------------------------------
QueueStep ==
    \/ ReadPending
    \/ ReadNothing
    \/ IdleAgain
    \/ Mark
    \/ Report
    \/ CountAgain
    \/ Retry

Next ==
    \/ Start
    \/ Stop
    \/ Fire
    \/ QueueStep
    \/ Answer
    \/ SendFails
    \/ QueueFails
    \/ RetryFails
    \/ Seal
    \/ Close

\* Timers fire and IndexedDB settles every transaction.
LocalFairness == WF_vars(Fire) /\ WF_vars(QueueStep)

\* Every send is answered or fails, and only finitely many fail.
NetworkFairness == WF_vars(Answer)

Spec == Init /\ [][Next]_vars
FairSpec == Spec /\ LocalFairness /\ NetworkFairness

-----------------------------------------------------------------------------
(* Properties.                                                              *)

\* The type of every variable.  A loop that was stopped has no timer left, also when
\* it was stopped while a flush was awaiting (sync.ts 76-86).
TypeOK ==
    /\ DOMAIN chunks \subseteq Nat
    /\ delivered \subseteq DOMAIN chunks
    /\ alive \in BOOLEAN
    /\ running \in BOOLEAN
    /\ timer \in Nat \cup {Off}
    /\ ~running => timer = Off
    /\ stage \in Stages
    /\ batch \subseteq DOMAIN chunks
    /\ accepted \subseteq batch
    /\ failures \in Nat
    /\ stalled \in BOOLEAN
    /\ {netFaults, diskFaults, pageCount} \subseteq Nat

\* "Keeps going when it cannot" (sync.ts 49): a running loop that is not in
\* flight has its next attempt scheduled, no further off than the interval when
\* the last attempt worked and than the capped doubling delay when it did not.
\* The one way out is a storage failure while a failure is being reported, and
\* then the next sealed chunk sets the loop going again.
LoopComesBack ==
    running /\ stage = "idle" /\ ~stalled =>
        timer \in 0..(IF failures = 0 THEN Interval
                      ELSE Min({BaseDelay * 2^(failures-1), MaxDelay}))

\* The server is offered the session in order (queue.ts 41): what a flush is
\* sending is older than every other pending row, to the moment it is answered.
OldestFirst ==
    \A k \in batch \ delivered, j \in PendingSeqs \ batch : stage = "send" => k < j

\* "No recorded event is ever lost because of the network" (sync.ts 51): a row
\* of a page that stays reaches the server after every finite outage, as long as
\* sends are answered or fail and the loop is not stalled by storage.
EventuallyDelivered ==
    \A k \in 0..(MaxRows - 1) :
        (k \in DOMAIN chunks /\ running) ~>
            (k \in delivered \/ ~running \/ stalled)

=============================================================================
