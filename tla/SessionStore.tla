---------------------------- MODULE SessionStore ----------------------------
(***************************************************************************)
(* The ingest server: server/src/store.ts as server/src/app.ts calls it.   *)
(* One JSON-lines file per participant; appends to a file run one behind   *)
(* the other, each reading the file, writing what is not yet in it, and    *)
(* acknowledging all it was offered.  The process may crash and restart    *)
(* between and within those steps, and a write may fail or be cut short.   *)
(***************************************************************************)
EXTENDS Ranks, Sequences, SequencesExt

CONSTANTS
    Files,         \* one per (session, participant)
    Seqs,          \* the chunk numbers clients offer
    Cuts,          \* where a write may be cut short; see CutShort
    WriteFaults,   \* bound: appends that fail
    Crashes,       \* bound: crashes of the process
    MaxRequests    \* bound: requests received

ASSUME StoreAssumption ==
    /\ Seqs \subseteq Nat
    /\ IsFiniteSet(Seqs)
    /\ Cuts \subseteq {"line", "torn", "bare"}
    /\ {WriteFaults, Crashes, MaxRequests} \subseteq Nat

VARIABLES
    up,         \* the process runs
    disk,       \* the lines of each file: the seq, and whether JSON.parse takes it
    bare,       \* the file's last line lacks its newline
    work,       \* requests chained on each file, the first of them running
    fresh,      \* what the running append is to write, or NotRead
    acked,      \* history: the seqs each participant had acknowledged with 200
    refused,    \* history: requests answered 400
    requests, crashes, writeFaults    \* how often the bounded events happened

storeVars == <<up, disk, bare, work, fresh, acked, refused>>
storeCounts == <<requests, crashes, writeFaults>>
vars == <<storeVars, storeCounts>>

NotRead == << -1 >>

Line == [seq : Seqs, whole : BOOLEAN]
Request == [id : Nat, seqs : SUBSET Seqs]

Init ==
    /\ up = TRUE
    /\ disk = [f \in Files |-> << >>]
    /\ bare = [f \in Files |-> FALSE]
    /\ work = [f \in Files |-> << >>]
    /\ fresh = [f \in Files |-> NotRead]
    /\ acked = [f \in Files |-> {}]
    /\ refused = {}
    /\ requests = 0
    /\ crashes = 0
    /\ writeFaults = 0

-----------------------------------------------------------------------------
(* The file.                                                                *)

Held(f) == {line.seq : line \in ToSet(disk[f])}

\* read() parses every line and throws on the first that is not JSON.
Readable(f) == \A line \in ToSet(disk[f]) : line.whole

Lines(seqs) == [i \in DOMAIN seqs |-> [seq |-> seqs[i], whole |-> TRUE]]

\* What appendFile leaves: after a line without its newline, the first new line
\* is glued to it and neither parses.
Appended(f, lines) ==
    IF ~bare[f] \/ lines = << >> THEN disk[f] \o lines
    ELSE Front(disk[f]) \o <<[Last(disk[f]) EXCEPT !.whole = FALSE]>> \o Tail(lines)

\* Where a write of `lines` may be cut short, as what reaches the file and
\* whether it ends without a newline: at the end of a line, within a line, or
\* between a line and its newline.
CutShort(lines) ==
    {[lines |-> SubSeq(lines, 1, n), bare |-> FALSE] :
        n \in {k \in 0..(Len(lines) - 1) : "line" \in Cuts}}
    \cup
    {[lines |-> SubSeq(lines, 1, n) \o <<[lines[n+1] EXCEPT !.whole = FALSE]>>, bare |-> TRUE] :
        n \in {k \in 0..(Len(lines) - 1) : "torn" \in Cuts}}
    \cup
    {[lines |-> SubSeq(lines, 1, n), bare |-> TRUE] :
        n \in {k \in 1..Len(lines) : "bare" \in Cuts}}

Write(f, lines, endsBare) ==
    /\ disk' = [disk EXCEPT ![f] = Appended(f, lines)]
    /\ bare' = [bare EXCEPT ![f] = IF lines = << >> THEN @ ELSE endsBare]

-----------------------------------------------------------------------------
(* The server's steps.                                                      *)

\* A request was read in full and append() chained its work on the file.
Receive(f, seqs) ==
    /\ up
    /\ requests < MaxRequests
    /\ work' = [work EXCEPT ![f] = Append(@, [id |-> requests, seqs |-> seqs])]
    /\ requests' = requests + 1
    /\ UNCHANGED <<up, disk, bare, fresh, acked, refused, crashes, writeFaults>>

Running(f) == up /\ work[f] # << >>

\* The running append is done: the next in the chain may start.
Finish(f) ==
    /\ work' = [work EXCEPT ![f] = Tail(@)]
    /\ fresh' = [fresh EXCEPT ![f] = NotRead]

Acknowledge(f) ==
    /\ acked' = [acked EXCEPT ![f] = @ \cup Head(work[f]).seqs]
    /\ Finish(f)
    /\ UNCHANGED refused

\* (mutation) The chain is left rejected: what waits behind is refused too.
RefuseChain(f) ==
    /\ refused' = refused \cup {request.id : request \in ToSet(work[f])}
    /\ work' = [work EXCEPT ![f] = << >>]
    /\ fresh' = [fresh EXCEPT ![f] = NotRead]
    /\ UNCHANGED acked

\* Every error of append() is answered 400, and the chain goes on behind it.
Refuse(f) ==
    /\ refused' = refused \cup {Head(work[f]).id}
    /\ Finish(f)
    /\ UNCHANGED acked

\* await this.read(): a line that does not parse rejects the append.
ReadThrows(f) ==
    /\ Running(f)
    /\ fresh[f] = NotRead
    /\ ~Readable(f)
    /\ Refuse(f)
    /\ UNCHANGED <<up, disk, bare, storeCounts>>

\* (mutation) Nothing is answered when there is nothing to write.
ReadAllHeldUnanswered(f) ==
    /\ Running(f)
    /\ fresh[f] = NotRead
    /\ Readable(f)
    /\ Head(work[f]).seqs \subseteq Held(f)
    /\ UNCHANGED vars

\* ... everything offered is already held.
ReadAllHeld(f) ==
    /\ Running(f)
    /\ fresh[f] = NotRead
    /\ Readable(f)
    /\ Head(work[f]).seqs \subseteq Held(f)
    /\ Acknowledge(f)
    /\ UNCHANGED <<up, disk, bare, storeCounts>>

\* (mutation) What is already held is written again with the rest.
ReadUnfiltered(f) ==
    /\ Running(f)
    /\ fresh[f] = NotRead
    /\ Readable(f)
    /\ ~(Head(work[f]).seqs \subseteq Held(f))
    /\ fresh' = [fresh EXCEPT ![f] = Ascending(Head(work[f]).seqs)]
    /\ UNCHANGED <<up, disk, bare, work, acked, refused, storeCounts>>

\* (mutation) A write of nothing is started when everything is held.
ReadAnyway(f) ==
    /\ Running(f)
    /\ fresh[f] = NotRead
    /\ Readable(f)
    /\ fresh' = [fresh EXCEPT ![f] = Ascending(Head(work[f]).seqs \ Held(f))]
    /\ UNCHANGED <<up, disk, bare, work, acked, refused, storeCounts>>

\* ... some of it is not: that is what will be written, in order.
ReadFresh(f) ==
    /\ Running(f)
    /\ fresh[f] = NotRead
    /\ Readable(f)
    /\ ~(Head(work[f]).seqs \subseteq Held(f))
    /\ fresh' = [fresh EXCEPT ![f] = Ascending(Head(work[f]).seqs \ Held(f))]
    /\ UNCHANGED <<up, disk, bare, work, acked, refused, storeCounts>>

\* await appendFile(): the whole text is in the file.
AppendFile(f) ==
    /\ Running(f)
    /\ fresh[f] # NotRead
    /\ Write(f, Lines(fresh[f]), FALSE)
    /\ Acknowledge(f)
    /\ UNCHANGED <<up, storeCounts>>

\* (mutation) The error of a write is swallowed and the request acknowledged.
AppendFailsUnnoticed(f) ==
    /\ Running(f)
    /\ fresh[f] # NotRead
    /\ writeFaults < WriteFaults
    /\ writeFaults' = writeFaults + 1
    /\ \E cut \in CutShort(Lines(fresh[f])) : Write(f, cut.lines, cut.bare)
    /\ Acknowledge(f)
    /\ UNCHANGED <<up, requests, crashes>>

\* The write fails part of the way: a full or failing disk.
AppendFails(f) ==
    /\ Running(f)
    /\ fresh[f] # NotRead
    /\ writeFaults < WriteFaults
    /\ writeFaults' = writeFaults + 1
    /\ \E cut \in CutShort(Lines(fresh[f])) : Write(f, cut.lines, cut.bare)
    /\ Refuse(f)
    /\ UNCHANGED <<up, requests, crashes>>

-----------------------------------------------------------------------------
(* The process.                                                             *)

\* What a crash leaves in memory: nothing.
Forget ==
    /\ up' = FALSE
    /\ work' = [f \in Files |-> << >>]
    /\ fresh' = [f \in Files |-> NotRead]

\* The process or its machine dies, before or after a write.
Crash ==
    /\ up
    /\ crashes < Crashes
    /\ crashes' = crashes + 1
    /\ Forget
    /\ UNCHANGED <<disk, bare, acked, refused, requests, writeFaults>>

\* It dies in the middle of a write.
CrashInWrite(f) ==
    /\ Running(f)
    /\ fresh[f] # NotRead
    /\ crashes < Crashes
    /\ crashes' = crashes + 1
    /\ \E cut \in CutShort(Lines(fresh[f])) : Write(f, cut.lines, cut.bare)
    /\ Forget
    /\ UNCHANGED <<acked, refused, requests, writeFaults>>

Restart ==
    /\ ~up
    /\ up' = TRUE
    /\ UNCHANGED <<disk, bare, work, fresh, acked, refused, storeCounts>>

-----------------------------------------------------------------------------
WorkStep(f) == ReadThrows(f) \/ ReadAllHeld(f) \/ ReadFresh(f) \/ AppendFile(f)

Next ==
    \/ \E f \in Files : \/ \E seqs \in SUBSET Seqs : seqs # {} /\ Receive(f, seqs)
                        \/ WorkStep(f)
                        \/ AppendFails(f)
                        \/ CrashInWrite(f)
    \/ Crash
    \/ Restart

\* The event loop runs every chain; whoever hosts the server restarts it.
Fairness == WF_vars(Restart) /\ \A f \in Files : WF_vars(WorkStep(f))

Spec == Init /\ [][Next]_vars
FairSpec == Spec /\ Fairness

-----------------------------------------------------------------------------
(* Properties.                                                              *)

TypeOK ==
    /\ up \in BOOLEAN
    /\ disk \in [Files -> Seq(Line)]
    /\ bare \in [Files -> BOOLEAN]
    /\ work \in [Files -> Seq(Request)]
    /\ \A f \in Files : fresh[f] = NotRead \/ (fresh[f] # << >> /\ ToSet(fresh[f]) \subseteq Seqs)
    /\ acked \in [Files -> SUBSET Seqs]
    /\ refused \subseteq 0..(requests - 1)
    /\ {requests, crashes, writeFaults} \subseteq Nat

\* "Idempotent by sequence number" (store.ts 29-31): whatever is sent again, by
\* however many requests at once and after whatever crash, no chunk is in a
\* file twice.
NoDuplicates ==
    \A f \in Files : \A i, j \in DOMAIN disk[f] :
        i # j => disk[f][i].seq # disk[f][j].seq

\* The chunks a file has a line of that parses.
WholeSeqs(f) == {line.seq : line \in {l \in ToSet(disk[f]) : l.whole}}

\* What was acknowledged stays in the file as it was written, through every later
\* resend, failed or torn append and crash (store.ts 10-11, 40-53).  The one thing that
\* can take it back is a line glued to one left without its newline: then the file no
\* longer reads, which a reviewer is told, and two chunks at most are gone.
AckedIsKept ==
    \A f \in Files :
        LET missing == acked[f] \ WholeSeqs(f)
        IN  missing # {} => /\ ~Readable(f)
                             /\ \E old, new \in Seqs : missing \subseteq {old, new}

\* What was acknowledged can also be reviewed, whatever happened since: "an
\* append survives a crash mid-write without corrupting what came before"
\* (store.ts 10-11).
AckedIsReadable == \A f \in Files : acked[f] # {} => Readable(f)

\* While the files can be read, a failed append refuses its own request and no
\* other: the chain of a file is not poisoned by a rejected link (store.ts 54-57).
RefusedForCause ==
    (\A f \in Files : Readable(f)) => Cardinality(refused) <= writeFaults

\* Every request received is answered, unless the process dies first.
EveryRequestAnswered ==
    \A n \in 0..(MaxRequests - 1) : \A f \in Files :
        (\E i \in DOMAIN work[f] : work[f][i].id = n) ~>
            (~up \/ \A i \in DOMAIN work[f] : work[f][i].id # n)

=============================================================================
