---------------------------- MODULE Invigilation ----------------------------
(***************************************************************************)
(* A supervised round end to end: the contestant's queue and delivery loop *)
(* (SyncLoop), HTTP as http-transport.ts uses it, and the ingest server    *)
(* (SessionStore).  Seals are one step here, as Recorder promises them.    *)
(*                                                                         *)
(* Requests wait in the network and arrive in any order; one whose sender  *)
(* has failed, or whose page has closed, may still arrive.                 *)
(***************************************************************************)
EXTENDS SyncLoop, SequencesExt

CONSTANTS
    Cuts, WriteFaults, Crashes, MaxRequests,    \* as in SessionStore
    MaxBeacons                                  \* bound: beacons sent

ASSUME RoundAssumption ==
    /\ Cuts \subseteq {"line", "torn", "bare"}
    /\ {WriteFaults, Crashes, MaxRequests, MaxBeacons} \subseteq Nat

VARIABLES
    up, disk, bare, work, fresh, acked, refused, requests, crashes, writeFaults,
    net,         \* requests on their way to the server
    ticket,      \* which request the loop's fetch is waiting for
    origins,     \* the ticket of each request the server has received, by its id
    replies,     \* responses on their way back to that fetch
    rejected,    \* history: the rows whose batch was answered 4xx
    beacons      \* how many beacons were sent

Server == INSTANCE SessionStore WITH Files <- {Owner}, Seqs <- 0..(MaxRows - 1)

serverVars == <<up, disk, bare, work, fresh, acked, refused, requests, crashes, writeFaults>>
wireVars == <<net, ticket, origins, replies, rejected, beacons>>
allVars == <<vars, serverVars, wireVars>>

NoTicket == 0

RoundInit ==
    /\ Init
    /\ Server!Init
    /\ net = {}
    /\ ticket = NoTicket
    /\ origins = << >>
    /\ replies = {}
    /\ rejected = {}
    /\ beacons = 0

-----------------------------------------------------------------------------
(* The contestant's page.                                                   *)

\* The steps of the page in which nothing is sent or received.
Quiet ==
    /\ \/ Start \/ Stop \/ Fire \/ Seal \/ Close
       \/ ReadNothing \/ IdleAgain \/ Mark \/ Report \/ CountAgain \/ Retry
       \/ QueueFails \/ RetryFails
    /\ UNCHANGED <<serverVars, wireVars>>

\* send(): the batch is posted, and the response of this request is awaited.
Post ==
    /\ ReadPending
    /\ ticket' = ticket + 1
    /\ net' = net \cup {[ticket |-> ticket + 1, seqs |-> batch']}
    /\ replies' = {}
    /\ UNCHANGED <<serverVars, origins, rejected, beacons>>

\* beacon(): a last attempt as the page is hidden, with no response to await.
\* Reading the rows and sending them are one step: what is marked in between
\* would only be sent once more than it need be.
Beacon ==
    /\ alive
    /\ beacons < MaxBeacons
    /\ PendingSeqs # {}
    /\ LET rows == Pending(BatchLimit)
       IN  net' = net \cup {[ticket |-> NoTicket, seqs |-> {rows[i].seq : i \in DOMAIN rows}]}
    /\ beacons' = beacons + 1
    /\ UNCHANGED <<vars, serverVars, ticket, origins, replies, rejected>>

\* What send() resolves with: the server's list, or after a 4xx the whole batch.
Accepted(r) == IF r.status = 200 THEN r.seqs ELSE batch

\* The response of the awaited request arrives.
GetReply ==
    \E r \in replies :
        /\ r.status # 0
        /\ Answered(Accepted(r))
        /\ rejected' = IF r.status = 400 THEN rejected \cup batch ELSE rejected
        /\ replies' = replies \ {r}
        /\ UNCHANGED <<serverVars, net, ticket, origins, beacons>>

\* (mutation) A reset connection is taken for an answer.
ResetIsAnswer ==
    \E r \in replies :
        /\ r.status = 0
        /\ Answered(batch)
        /\ replies' = replies \ {r}
        /\ UNCHANGED <<serverVars, net, ticket, origins, rejected, beacons>>

\* The server died with the request: the connection is reset.
GetReset ==
    \E r \in replies :
        /\ r.status = 0
        /\ stage = "send"
        /\ Fails
        /\ replies' = replies \ {r}
        /\ UNCHANGED <<netFaults, diskFaults, serverVars, net, ticket, origins, rejected, beacons>>

-----------------------------------------------------------------------------
(* The network.                                                             *)

\* The fetch fails: its request never arrives, or is still to, or its response
\* is lost on the way back.
Break ==
    /\ SendFails
    /\ net' \in {net, {m \in net : m.ticket # ticket}}
    /\ replies' = {}
    /\ UNCHANGED <<serverVars, ticket, origins, rejected, beacons>>

\* A beacon, or a request nobody waits for any more, is lost unnoticed.
LoseStray ==
    /\ \E m \in net : (m.ticket # ticket \/ stage # "send") /\ net' = net \ {m}
    /\ UNCHANGED <<vars, serverVars, ticket, origins, replies, rejected, beacons>>

Arrive ==
    /\ \E m \in net : /\ Server!Receive(Owner, m.seqs)
                      /\ net' = net \ {m}
                      /\ origins' = Append(origins, m.ticket)
    /\ UNCHANGED <<vars, ticket, replies, rejected, beacons>>

-----------------------------------------------------------------------------
(* The server.                                                              *)

\* The response to a request, if the loop still waits for it.
Reply(id, status, seqs) ==
    IF stage = "send" /\ origins[id + 1] = ticket
    THEN replies \cup {[status |-> status, seqs |-> seqs]}
    ELSE replies

\* A step of the append at the head of the chain; when it ends, it is answered:
\* 200 with everything offered, or 400 whatever the error.
Serve ==
    /\ Server!WorkStep(Owner) \/ Server!AppendFails(Owner)
    /\ LET request == Head(work[Owner])
       IN  replies' = IF work' = work THEN replies
                      ELSE IF request.id \in refused' THEN Reply(request.id, 400, {})
                      ELSE Reply(request.id, 200, request.seqs)
    /\ UNCHANGED <<vars, net, ticket, origins, rejected, beacons>>

\* The server dies: a fetch it was working for is reset.
Die ==
    /\ Server!Crash \/ Server!CrashInWrite(Owner)
    /\ replies' = IF /\ stage = "send"
                     /\ \E request \in ToSet(work[Owner]) : origins[request.id + 1] = ticket
                  THEN replies \cup {[status |-> 0, seqs |-> {}]}
                  ELSE replies
    /\ UNCHANGED <<vars, net, ticket, origins, rejected, beacons>>

Recover ==
    /\ Server!Restart
    /\ UNCHANGED <<vars, wireVars>>

-----------------------------------------------------------------------------
RoundNext ==
    \/ Quiet
    \/ Post
    \/ Beacon
    \/ GetReply
    \/ GetReset
    \/ Break
    \/ LoseStray
    \/ Arrive
    \/ Serve
    \/ Die
    \/ Recover

\* Timers fire, transactions settle, requests that are not lost arrive, chains
\* run on, responses come back, and a server that died is restarted.
RoundFairness ==
    /\ WF_allVars(Fire /\ Quiet)
    /\ WF_allVars((QueueStep /\ Quiet) \/ Post)
    /\ WF_allVars(Arrive)
    /\ WF_allVars(Server!WorkStep(Owner) /\ Serve)
    /\ WF_allVars(GetReply \/ GetReset)
    /\ WF_allVars(Recover)

RoundSpec == RoundInit /\ [][RoundNext]_allVars
FairRoundSpec == RoundSpec /\ RoundFairness

-----------------------------------------------------------------------------
(* Properties.                                                              *)

\* The rows the server has in full.
ServerHeld == Server!WholeSeqs(Owner)

\* The rows it took and has no longer.
Spoiled == acked[Owner] \ ServerHeld

\* End to end, delivery does what it promises: no row is settled before the server
\* has it in its file or has refused it, through lost, late and repeated requests,
\* closed pages, crashes and failed writes.  What the server has it keeps, except
\* that a line glued to one left without its newline leaves the file illegible and
\* takes two rows at most with it (http-transport.ts 12-46, store.ts 40-57).
Promise == INSTANCE AtLeastOnce WITH
    sealed <- DOMAIN chunks, held <- ServerHeld, legible <- Server!Readable(Owner),
    spoiled <- Spoiled, refused <- rejected, settled <- delivered

DeliversAtLeastOnce == Promise!Spec

\* What the queue marks delivered is on the server's disk: "only marked delivered
\* once the server has acknowledged" (queue.ts 15-16), and a 4xx is answered only
\* to what the server "will never take" (http-transport.ts 27-28).
DeliveredIsHeld == delivered \subseteq ServerHeld

\* The review of an honest session tells the truth about it: it verifies exactly
\* when the server holds its first rows without a gap, and names the first row
\* it lacks when it does not; it never cries alteration (chain.ts 55-57).
Verdict == VerifyChain([i \in DOMAIN disk[Owner] |-> chunks[disk[Owner][i].seq]])

ReviewTellsTheTruth ==
    Server!Readable(Owner) =>
        LET gaps == {k \in 0..MaxRows : k \notin ServerHeld}
            first == Min(gaps)
        IN  IF \A k \in ServerHeld : k < first
            THEN Verdict = [ok |-> TRUE, chunks |-> Cardinality(ServerHeld)]
            ELSE Verdict = [ok |-> FALSE, reason |-> "missing", atSeq |-> first]

\* Every sealed row comes to be taken by the server, or refused by it, while its
\* page stays and storage does not stall the loop: "no recorded event is ever lost
\* because of the network" (sync.ts 51).
EventuallyHeld ==
    \A k \in 0..(MaxRows - 1) :
        (k \in DOMAIN chunks /\ running) ~>
            (k \in ServerHeld \cup Spoiled \cup rejected \/ ~running \/ stalled)

=============================================================================
