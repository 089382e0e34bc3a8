------------------------------ MODULE TwoTabs ------------------------------
(***************************************************************************)
(* The round's link open in two tabs of one browser: two recorders, each   *)
(* with its own memory and its own chain of seals, over the one IndexedDB  *)
(* queue of the origin (queue.ts 9: one database name for every page).     *)
(* useInvigilation.ts 157-166 counts such tabs; nothing keeps them apart.  *)
(***************************************************************************)
EXTENDS ChunkQueue

CONSTANTS Sessions, NoPage, ChunkMaxEvents, StorageFaults, MaxEvents, MaxSeals, MaxPages

VARIABLES
    eventCount, lost, pageCount, faults,    \* shared with the queue by both tabs
    page1, mounted1, starting1, timers1, buffer1, seals1, job1, broken1,
    page2, mounted2, starting2, timers2, buffer2, seals2, job2, broken2

tab1 == <<page1, mounted1, starting1, timers1, buffer1, seals1, job1, broken1>>
tab2 == <<page2, mounted2, starting2, timers2, buffer2, seals2, job2, broken2>>
vars == <<queueVars, eventCount, lost, pageCount, faults, tab1, tab2>>

Tab1 == INSTANCE Recorder WITH
    page <- page1, mounted <- mounted1, starting <- starting1, timers <- timers1,
    buffer <- buffer1, seals <- seals1, job <- job1, broken <- broken1

Tab2 == INSTANCE Recorder WITH
    page <- page2, mounted <- mounted2, starting <- starting2, timers <- timers2,
    buffer <- buffer2, seals <- seals2, job <- job2, broken <- broken2

Init == Tab1!Init /\ Tab2!Init

Next == \/ Tab1!Next /\ UNCHANGED tab2
        \/ Tab2!Next /\ UNCHANGED tab1

Spec == Init /\ [][Next]_vars

-----------------------------------------------------------------------------
\* What is on disk stays there as it was written: "the chunks are on disk and
\* will be sent whenever delivery next becomes possible" (queue.ts 15-18).
StoredForever ==
    [][\A k \in DOMAIN chunks : k \in DOMAIN chunks' /\ chunks'[k] = chunks[k]]_vars

=============================================================================
