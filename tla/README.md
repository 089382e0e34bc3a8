# sioditor: specifications

TLA+ models of sioditor, an offline editor for programming contests that compiles and runs
C++ and Python in the browser and can record a supervised round, shipping the record to a
self-hosted server. This directory holds the models, the TLC configurations that check them
on small instances, and proofs for every value of the constants where TLAPS can give them.
Paths below are relative to the repository.

Two promises of the program are hard to keep, and most of the work here is about them: *no
recorded event may be lost to the network* (`docs/invigilation.md` 171), and *losing a
solution to a closed tab is the worst thing this tool could do* (`useWorkspace.ts` 57-59).

## The system

| Part | Where | State | Operations | Correct when |
|---|---|---|---|---|
| hash chain | `packages/integrity/src/chain.ts` | none | `sealChunk`, `verifyChain` | a complete honest record verifies; otherwise the first defect is named, a gap never called an alteration |
| chunk queue | `.../queue.ts` | IndexedDB store of one origin: chunks by seq, each pending or delivered | `append`, `pending`, `markDelivered`, `all`, `pendingCount`, `nextSeq`, `lastHash` | it is a log: grows by one linked chunk, rows only go from pending to delivered |
| recorder | `.../recorder.ts` | buffer, timers, the chain of seals, the documents' texts | `start`, `stop`, `record`, `recordEdit`, `noteDocument`, `seal` | no event dropped, duplicated, reordered by sealing; what is buffered reaches the disk; a novel paste is novel |
| delivery loop | `.../sync.ts` | running, timer, in flight, failures | `start`, `stop`, `flush` | never stops trying, oldest first |
| HTTP transport | `.../http-transport.ts` | none | `send`, `beacon` | an answer settles exactly the batch it is the answer to |
| ingest store | `server/src/store.ts` | one JSON-lines file per participant, a promise chain per file | `append`, `read`, `participants`, `sessions` | idempotent by seq, acknowledged rows stay, one failure fails one request |
| endpoints | `server/src/app.ts`, `main.ts` | none | ingest, review, health | 200 only for what is stored, 400 only for what never will be |
| supervised round | `apps/web/src/useInvigilation.ts` | wires recorder, queue, loop and transport to a page | mount, unmount, hide, signals | a reload is one session, everything sealed reaches the server |
| workspace | `packages/storage/src/workspace.ts`, `useWorkspace.ts` | problems and revisions in IndexedDB, one autosave timer | `save`, `remove`, `recordRevision`, update, rename, import | the last edit of every problem reaches the disk; removed stays removed; revisions reach back past a bad paste |
| runs | `useRun.ts`, `packages/runner/src` | abort controller, worker, results | run, stop, time limit, stdin | a run always ends, stop is final, results belong to their run |
| stdin channel | `runner/src/stdin-channel.ts` | shared header and bytes | provide, close, blocking read | no line lost or torn, an end of input is seen |
| Python runtime | `packages/runtime-python/src` | worker, boot promise, interrupt buffer | `ready`, `run`, `restart` | every run settles once; a stopped run leaves a usable runtime |
| C++ toolchain | `packages/toolchain-cpp/src` | compiler worker, boot promise | `ready`, `build`, `dispose` | every build settles; a build uses the header the run asked for |
| asset packs | `storage/src/*-store.ts`, `usePack.ts`, `useStorage.ts` | Cache Storage, cached readiness | download, remove, isReady | ready means all files are there; busy ends |
| tests, archive | `storage/src/tests.ts`, `archive.ts` | none | compare, parse, export, import | import undoes export |
| order-statistic tree | `packages/gnu-compat/.../ost.hpp`, `assoc_container.hpp` | treap | split, merge, insert, erase, order, iterate | answers as a sorted set would, sizes and parents right |
| sysroot image | `toolchain/ci/*.mjs`, `toolchain-cpp/src/sysroot.ts` | an image and its manifest | pack, parse, unpack | what went in comes out, twice and the same |
| build diagnostics | `toolchain-cpp/src` | none | parse compiler output | not modelled: wording |
| editor, presentation, build scripts | `packages/editor`, `apps/web`, `toolchain`, `scripts` | – | – | modelled where a callback reaches another part |

How they interact. In a supervised round the page mounts recorder, queue, transport and loop
together. The recorder calls the queue (three transactions per seal) and then the loop
(`onChunkSealed`); the loop calls the queue and the transport; the transport talks to the
server over HTTP; the server appends to the participant's file and answers. The loop and
the recorder share nothing but the queue. The page may vanish at any await, and the queue
outlives it. Two pages of one origin share the queue.

Outside a round, `App` holds the workspace hook, the run hook and the pack hooks. Edits go to
the workspace and, in a round, to the recorder. A run talks to one compiler worker, one
Python worker or one worker per C++ execution, by messages, and to a blocked program through
shared memory. Selecting a problem clears the run. The pack bar and the storage panel look
into the same cache without telling each other, except through `onChange`.

What is hard here: every step of a seal or a flush is an await with everything else of the
page running in between; a page can die between any two of them; responses are lost, late
or for a request somebody has given up on; the server can die within a write; a promise
chain can be poisoned by one rejection; a timer not re-armed stops delivery for good; one
timer serves several problems; a stop may come in a build, a boot, a case or between two; a
worker is terminated with messages under way; a program blocks on memory that the page
writes in three separate stores; a paste is applied only after an awaited digest.

## Modules

| Module | Models | Used by |
|---|---|---|
| `Chain`, `Ranks`, `ChunkQueue` | hash chain, key order, chunk queue | recorder and delivery |
| `DurableLog` | what the queue promises to be (abstract) | refined by `Recorder` |
| `Recorder`, `TwoTabs` | recorder on one page at a time; two tabs of one origin | |
| `SyncLoop` | delivery loop | extended by `Invigilation` |
| `SessionStore` | ingest server | instantiated by `Invigilation` |
| `AtLeastOnce` | what delivery promises (abstract) | refined by `Invigilation` |
| `Invigilation` | loop, queue, network and server composed | |
| `Workspace` | problems, autosave, revisions | |
| `StdinChannel` | shared-memory input | extended by `Runs` |
| `Runs` | run orchestration with the Python, compiler and execution workers | |
| `OrderTree`, `Packs`, `SysrootImage`, `Archive`, `Provenance` | five parts that touch no other | put on one bench by `MCBench` |
| `DataProofs` | lemmas on numbers, sets, sequences and recursion, about no part of the program | cited for the queue, the server and the bench |
| `ChunkQueueProofs` | lemmas on chains and the queue | cited by recorder and delivery |
| `RecorderProofs`, `DeliveryProofs`, `SessionStoreProofs`, `WorkspaceProofs`, `RunsProofs`, `BenchProofs` | what TLAPS proves of each part | |
| `MC*` | instances for TLC | |

`Chain` has the data and the pure functions of `chain.ts`; SHA-256 is the CONSTANT operator
`Hash`, of which nothing is assumed (TLC uses an injective one). A chunk's `session` stands
for the pair (sessionId, participantId).

`ChunkQueue` is the IndexedDB store: `chunks` maps seq to chunk, `delivered` is the set of
seqs whose row has `delivered: 1`. Reads are operators, the two writes are actions. `Ranks`
lists a set of seqs lowest first by counting, without recursion, so that proofs can use it.

`Recorder` is one page at a time over the queue. `Open` mounts the effect, `Start` is the
resolution of `nextSeq()`, `Record`, `SealNow` and `Stop` are the page's calls; a seal is
`SealBegin`, `ReadSeq`, `ReadHash`, `Store` (one per await, `sealing` makes them follow one
another, `seals` counts the calls waiting), or `SealNothing`; `SealFails` and `StartFails`
are rejections of a transaction. `Close` is the page going away at any moment.
`Acknowledge` stands for the delivery loop, which here may mark any pending rows.
`lost` is a history variable: the ids of events that died in memory. `TwoTabs` instantiates
`Recorder` twice over one queue.

`SyncLoop` is `flush()` with its four awaits (`stage`), each of which may reject, and its
timer, which carries its delay. `Seal` is the recorder's finished seal, as `DurableLog`
describes it. `RetryFails` is `report()` rejecting inside the catch block; it is the one
exit of `flush()` that schedules nothing, and `stalled` records it.

`SessionStore` is the ingest server: per file, `work` is the promise chain, `fresh` what
the running append read to be missing, `disk` the lines, `bare` that the last lacks its
newline. An append is `ReadFresh` and `AppendFile`, or `ReadAllHeld`, or `ReadThrows`, or
`AppendFails` with part of the text written; `Crash` and `CrashInWrite` lose memory only. A write
may be cut at the end of a line, within one, or between the last line and its newline; what is
written behind a line left without its newline is glued to it, and neither of the two parses.

`Invigilation` composes `SyncLoop`, the network and `SessionStore` for one participant:
requests wait in `net` and arrive in any order, also after their sender gave up or closed;
each carries the ticket of the fetch that waits for it, and a response reaches only the fetch
waiting, as fetch itself has it. `AtLeastOnce` is the promise: rows are sealed, held, refused,
settled; and once, a write may leave the file illegible and spoil two rows at most (`Spoil`).

`Workspace` has the page's list (`problems`, `current`, `loaded`), its one `timer`, and
IndexedDB: a `queue` of transactions asked for and not yet committed, and what is on `disk`
and among `revisions`. Transactions wait for each other only where they share an object store
(`Scope`, `MayCommit`): a save and its revision, one store each, commit in either order, and a
removal, over both stores, waits for all in front of it. `cut` is a history variable: the
problems of which a save was under way when a page closed, until their removal. Every edit makes a new text, so a text is its number. `Type`,
`ChangeTestsOrLimits` and `SwitchLanguage` are `update()` and `persist()`; `Create`,
`Import`, `Rename`, `Remove`, `RemoveLast` and `Select` the other callbacks; `Autosave` is
the timer going off; `Commit` runs any transaction that may, `recordRevision` with its coalescing and
cap included; `Close` loses the page and what is uncommitted, `Load` and `LoadFirst` mount
it again.

`StdinChannel` makes each `Atomics.store` of the page and each step of the blocked worker an
action. `Runs` puts it under a run: `call` is the running `run()` with its signal, case
and what it awaits, `python`, `cpp` and `builder` are the workers, `prog` the executing
program and `inbox` what it has posted. An action of the page is a handler with every
continuation that runs before the next event. Programs are nondeterministic: they write,
read, loop, block and fail. `Clear` is another problem opened, or the language switched, under a
run that goes on; `away` (history) says that another problem than the run's is open, and each
result carries what `away` was when it was recorded.

`OrderTree` is the treap as a heap of nodes with pointers; `heap` and `root` are the program's,
`keys` the set it should be. Its functions that call themselves are recursive functions over
its pointers. `Packs` has one cache, two downloaders (the bar and the panel), looks
that read one instant and land later, and page reloads. The cache may throw wherever it is asked
something (`Throw`, and a failing `PutFile`): `AskFails` is `isReady()` in a download, `LoopDies` the
one of `downloadAll`, outside its catch. `SysrootImage` picks, packs,
parses and unpacks an image of a small SDK. `Archive` lays problems out in a zip and reads
it back, with and without the manifest. `Provenance` follows the recorder's copy of each
problem's text beside the editor's. `MCBench` runs the five one at a time (`subject`); they
share no variable, so checking them together adds no behaviour and hides none.

Bounds are CONSTANTS in guards (`MaxEvents`, `MaxSeals`, `MaxPages`, `MaxRows`,
`NetworkFaults`, `StorageFaults`, `WriteFaults`, `Crashes`, `MaxRequests`, `MaxBeacons`,
`MaxIds`, `MaxEdits`, `MaxClock`, `MaxQueue`, `MaxRuns`, `MaxTyped`, `MaxWrites`, `MaxInbox`,
`MaxKey`, `MaxJobs`, `MaxClicks`, `MaxProblems`, `MaxText`, `MaxInserted`, `MaxDigests`).
Definitions commented *(mutation)* are variants with a plausible bug, which the properties
are known to catch; no specification uses them.

## What the runs check

| Run | Question | States | Result |
|---|---|---|---|
| `recorder` (`MCRecorder.cfg`) | does one browser keep a verifiable, complete, ordered record through reloads and storage failures? | 32 k | holds |
| `sync_loop` (`MCSyncLoop.cfg`) | does delivery always come back? | 13 k | holds |
| `session_store` (`MCSessionStore.cfg`) | is ingest idempotent and safe under crashes and failed writes? | 255 k | holds |
| `invigilation` (`MCInvigilation.cfg`) | does the whole deliver at least once and review truthfully? | 539 k | holds |
| `workspace` (`MCWorkspace.cfg`) | do texts and revisions survive autosave, renames, removals and reloads? | 887 k | holds |
| `runs` (`MCRuns.cfg`) | does every run end, with its own input and its own results? | 456 k | holds |
| `bench` (`MCBench.cfg`) | do the treap, the packs, the image, the archive and the paste judgement do what they say? | 976 k | holds |
| `two_tabs` (`MCTwoTabs.cfg`) | does a stored chunk stay? | – | violated |
| `two_rounds` (`MCTwoRounds.cfg`) | does each round's record verify by itself? | – | violated |
| `torn_append` (`MCTornAppend.cfg`) | can what was acknowledged be read after a crash mid-write? | – | violated |
| `disk_error` (`MCDiskError.cfg`) | is a settled row on the server? | – | violated |
| `autosave` (`MCAutosave.cfg`) | is everything written back on a short debounce? | – | violated |

**Recorder.** `QueueVerifies`: what is on disk passes `verifyChain` always. `RecordedInOrder`:
every event is in exactly one of disk, running seal, buffer and lost, in the order of
recording. `FullIsSealed`: a full buffer has a seal behind it that will take it, also one that
filled up while another seal ran. `TypeOK` includes that the number a seal has read is no row's
yet. `OneStart`: the stored record has one `start` and no `resume` before it.
`LogPromise`: refinement of `DurableLog`. `BufferedGetsSealed`: while storage works and the
page stays, a buffered event is sealed. Bounds: two pages, three recorded signals besides
the `start` and `resume` events, chunks of two, two seals queued, one storage failure: enough
for a seal to overlap a recording, a second seal request, a reload at each await, and a
continuation from a partly delivered queue.

**Delivery loop.** `LoopComesBack`: outside a flush a running loop has a timer no later than
the interval or the capped doubling delay, unless `stalled`; `TypeOK` includes that a stopped one
has none. `OldestFirst`, `EventuallyDelivered`. Three rows in batches of two, two failed sends and two storage
failures: two consecutive failures distinguish the doubling from its neighbours, and the
second failure inside the first one's report is the stall.

**Server.** `NoDuplicates`, `AckedIsKept`, `RefusedForCause` (a failed link fails its own
request only), `EveryRequestAnswered`. Three requests over two files with one failure and one
crash, each cut at any of the three places. `AckedIsKept` says that what was acknowledged stays in
its file as it was written, with one exception the code makes: after a write cut between the
last line and its newline, the next append glues its first line to that one. Then two chunks
at most are gone, and the file does not read any more, so that nobody is shown a shorter record as
a whole one. That it does not read is disagreement 3 below.

**End to end.** `DeliversAtLeastOnce`: refinement of `AtLeastOnce`: a row is settled only when
the server took it or refused it, and what it took stays, but for the two rows a glued
line may spoil as it leaves the file illegible. Writes are cut anywhere here too.
`ReviewTellsTheTruth`: the review of an honest record verifies exactly when there is no gap, and
otherwise names the first missing row. `EventuallyHeld`. Two rows, one page, one lost
request or response, one crash, one failed write, one beacon. `MaxRequests` is larger than the
number of requests these can cause, so it never blocks. Delays are irrelevant here, timers being
untimed.

**Workspace.** `SourceNeverGoesBack`: no transaction replaces a text on disk by an older one,
though the autosave writes the problem as it was when it was armed. `RevisionsSpread`: any two
kept revisions of a problem are a coalescing interval apart, so coalescing never eats the net from
the old end, and ordered as their texts, unless a page closed while a save of the problem was
under way (the next page may go on from an older text than the revision has). `RevisionsBelong`:
a revision is without its problem only while the problem's save is under way, or when a page
closed then; above all, a removal leaves none behind. `OpenProblemExists`. `AutosaveLands`: a
pending autosave reaches the disk, *unless another problem takes the timer or the problem is
removed*; the first exception is disagreement 5. `TypeOK` includes the cap on revisions. Two
problems, three edits, an interval of one tick, two revisions kept, clock up to two, two
transactions under way: the smallest instance in which a third revision exceeds the cap, a save
falls inside and outside the interval, a second problem meets the first one's timer, and a
revision overtakes its save. The run `autosave` needs one transaction at a time only.

**Runs.** `InputConserved`: outside a read, what the program got and has yet to read are the
test's input and then every line sent to it, none lost, repeated or cut. `PromptIsCurrent`: a
prompt is shown only while the case it belongs to is blocked on it. `ResultsOfThisRun`:
results are of the latest run, one per finished case, and of what was recorded before another
problem was opened nothing is shown any more, there or back at its own. `FinishedIsComplete`: with all output.
`StopIsFinal`: after a stop no further case begins. `RunEnds`: whatever the program, the boot
or the build does, the run is over some time. `TypeOK` includes that a build uses the header
its run asked for. Two runs of two cases, in either language, a test input of one line, two
typed lines of which the second exceeds the buffer of two, one write per program: a message of
the first case can be under way in the second, and a stop can fall between any two steps.

**Bench.** `AnswersLikeASet`: after any inserts, erases, copies and clears over keys 1..5 and
priorities 1..3 (ties included), each query and each iterator step is that of the sorted set;
`TypeOK` has the sizes, parents and heap order. `ReadyIsTrue`: at rest a pack is called ready
exactly when all its files are cached. Packs in `raced` are excepted: those on which
a download, a removal or a look overlapped with one another, and those the bar or the panel was
wrong about when a check of the cache threw. The first exception is needed: if *Remove*
is clicked again before the panel has looked, and the bar downloads the pack before that second
removal is done, the panel shows "not there" before and after, and the bar is not told that
the pack has gone (four clicks; found when the invariant of the proof below failed). So is
the second: when `downloadAll` dies of its own check, nobody is told of what it had downloaded.
`BusyEnds`: the panel becomes free again whatever fails, unless `downloadAll` died like that
(`stuck`), for then it stays busy. Packs of one and two files, two jobs, two clicks. `SysrootRoundTrip`: an image of an SDK of thirteen files
(one per rule of the packer: excluded suffixes, architecture headers, wanted libraries, a name
that would collide) is refused exactly on a collision and otherwise gives back every kept
file, to the compiler and to the header build alike. `ArchiveRoundTrip`: three problems,
two of one name, with and without manifest; numbers are written in base 2 here, so that two
digits run out within reach. `NovelMeansNew`: a paste is called novel exactly when no problem
opened in the round contained it, *up to the first `drifted`*: a paste overtaken by an edit, a
command that edits several places, or a problem or language the recorder was not told of. Two
problems, texts up to three letters, two digests under way, two edits.

## Disagreements the runs show

1. *Two tabs overwrite each other* (`queue.ts` 29, 38; run `two_tabs`). The store is keyed by
   seq alone and shared by all tabs of the origin; seals are serialised per `Recorder` only.
2. *A second round in one browser never verifies* (`recorder.ts` 135; run `two_rounds`). The
   queue is never emptied, so the next session's chunks continue the old numbers and hashes.
3. *A torn line makes a file unreadable* (`store.ts` 67; run `torn_append`), though `store.ts`
   10-11 promises that an append survives a crash mid-write.
4. *A momentary disk error settles the rows* (`app.ts` 106, `http-transport.ts` 26-31; run
   `disk_error`): any store error is a 400, and a 4xx counts as accepted.
5. *Editing a second problem drops the first one's save* (`useWorkspace.ts` 92; run
   `autosave`): `persist()` clears the page's one timer whichever problem armed it.

The passing runs are stated so that they do not hide these: one page and one session at a
time (1, 2), a `Readable` premise or a statement about lines that parse (3), "taken or refused" (4),
the exception of `AutosaveLands` (5).

Met while modelling and kept in the models as the code has them. No run shows these as a
violation; the properties around them except them by name, so **they are not caught**:

- *Results can turn up under another problem* (`App.tsx` 53-57, `workspace.ts` 76-82). Opening
  another problem clears what is shown and leaves the run going; its later cases are recorded
  by the case's id. All problems from before the test panel have one case of the id `legacy`, so such
  a result is shown under whichever of them is open, although "results belong to the problem that
  produced them". `late` in `ResultsOfThisRun`.
- *The storage panel stays busy* (`useStorage.ts` 102). A check of the cache that rejects within
  `downloadAll` is outside the catch of 103-105: `setBusy(false)` and `refresh()` are never reached,
  nor does the pack bar hear of what was downloaded. `stuck` in `BusyEnds`, `raced` in `ReadyIsTrue`.
- *A look that was overtaken stays wrong* (`App.tsx` 44, `usePack.ts` 45): `raced` in `ReadyIsTrue`.
- *Delivery stands still until the next chunk* (`sync.ts` 127): `report()` rejecting within the catch
  block leaves no timer. `stalled` in `LoopComesBack` and `EventuallyDelivered`.
- *A rejected seal silences the page's recorder* (`recorder.ts` 126), and the events it had
  taken are gone: `lost` in `RecordedInOrder`, `faults > 0` in `BufferedGetsSealed`. What is checked is
  that the disk still verifies and that the next page goes on in order.
- *The recorder's texts drift* (`recorder.ts` 102, `events.ts` 39, `App.tsx` 64 and 72), as described
  under `NovelMeansNew`: `drifted`.
- *An autosave in flight writes an old name back or a removed problem* (`useWorkspace.ts` 94). The
  properties look at the text and at revisions only.
- *A stop during a Python boot is lost* (`client.ts` 132): the case under way still executes,
  none after it; and *a boot that failed stays cached* (45): the runs after it end at once.
- *An end of input given while the program is not reading is forgotten* (`stdin-channel.ts` 75).
- *An import orders tests by the text of their numbers* (`archive.ts` 54): more than 99 of them
  change places. The archive does not carry a problem's `interactive` flag either.

## Fairness

`Recorder`: `Start`, the seal interval and the steps of a seal are weakly fair: promises
settle and intervals fire while the page lives. `SyncLoop`: the timer and the queue steps
are weakly fair, and every send is answered or fails (`NetworkFairness`). The last is an
assumption about the network, not about the code: `fetch` has no timeout here, and a request
that is never answered keeps `inFlight` set, so that page delivers nothing more. `Invigilation`
splits it into arriving, serving, responding, and restarting a server that died; somebody
must restart it. `Workspace`: the timer goes off and transactions commit. `Runs`: the page
handles a message or an expired time limit that is due (`SF`: clicking cannot starve it, as
the event loop is a queue), its stores to the shared memory go on, and a boot, a compilation
and a link answer or fail. `Packs`: a fetch is answered or fails and the cache answers or throws.

Nothing is asked of programs, which may loop or block for ever, nor of typing, opening,
closing, clicking or any failure; failures are finite by their bounds.

## Proofs

Every theorem holds for all values of the constants that satisfy the modules' named
assumptions (types, positivity and the shape of the inputs only), for any hash function. No invariant below is
inductive as stated; each proof names the strengthening.

**Recorder** (`RecorderProofs`).
- `Typing`: `Spec => []TypeOK`; that a seal's number is free comes from `Inv` below.
- `QueueAlwaysVerifies`: `Spec => []QueueVerifies`. `verifyChain` sorts and looks at links, so
  it is not inductive. The invariant `Inv` adds: the queue's domain is `0..n-1`, every row's
  `seq` is its key, its hash is the hash of its contents and its `prevHash` is its
  predecessor's; and what the running seal has read is still true when it writes (its `seq`
  is `NextSeq`, its `prevHash` is `LastHash`). The last is what serialising the seals buys:
  nothing else writes chunks while a seal is in progress. Lemmas then show that `Ordered` and
  `All` of such a queue are the queue itself.
- `RecorderKeepsTheLog`: `Spec => LogPromise`: `Store` is `Grow`, `Acknowledge` is `Deliver`,
  every other step leaves the queue alone.
- `EventsStayInOrder`: `Spec => []RecordedInOrder`, with the types as the only strengthening;
  `Open`, `Record`, `SealBegin`, `Store`, `Close` and `SealFails` are the steps that move events.
- `FullBufferIsSealed`: `Spec => []FullIsSealed`. Every seal asked for is still to come when the
  buffer fills, since a running one has been counted off as it took its events.
- `OneSession`: `Spec => []OneStart`. The strengthening (`StartInv`) adds what is in memory: a
  page still deciding has recorded signals only, at most one event there is a `start` or a
  `resume`, and while it is a `start`, the disk holds nothing but signals.

**Ranks and the queue** (`DataProofs`, `ChunkQueueProofs`). That the row of rank *i* exists and
is unique, and that ranks are ascending, by counting: the number of lower members of a finite
set grows with the member. Of a gapless linked queue: appending the next chunk keeps it so, its
first rows verify (`FirstRowsVerify`), and any other selection of rows is named as missing
its first absent one (`GapIsNamed`).

**Delivery loop** (`DeliveryProofs`, whose next part is the supervised round). `OffersOldestFirst`:
a batch is the lowest pending rows when it is read, and rows sealed later are higher than all of
them. `LoopTypes` and `NextAttemptScheduled`: `LoopInv` adds that no failure
is counted after a success, one is in the catch block, and nothing is accepted outside the
marking step. That the doubling delay is a number, however often a send fails, needs
no induction: 2^n is how many subsets a set of n members has.

**Server** (`SessionStoreProofs`). `StoreInv` says that the types hold, request ids are given
once, what the running append found missing is still missing when it writes, a bare last line
exists only where there is a line, no file has a chunk twice, and each refusal has its failure.
From it `StoreTypes`, `Idempotent` and `OneRefusalPerFailure`. `AckedIsKeptAlways`, wherever writes
are cut: a file is only written to when it reads, so before the write every line is whole and
nothing is missing; what the write spoils is then at most the line it is glued to and its own
first (`WriteSpoils`), and a file left illegible is never written to again.

**Supervised round** (`DeliveryProofs`). The composition's server is an instance of
`SessionStore`, so the store's lemmas are used on it, not proved again. `RoundInv` joins the
page (`PageInv`), what is on its way (`WireInv`: every request and response with the ticket
waited for carries the batch in hand) and `StoreInv`. `AtLeastOnceDelivery`: the composition
implements `AtLeastOnce`, wherever writes are cut; `HeldInv` adds `AckedIsKept`, that what is marked
or about to be marked was acknowledged or refused, and that a 200 under way to the waiting fetch
finds its batch acknowledged. `ReviewIsTrue`: `RoundSpec => []ReviewTellsTheTruth`. `ReviewInv` says that
the queue is gapless and linked and that the server holds rows of it only; a file that can be
read then is a selection of rows, whatever its order, and the queue's lemmas give the
verdict.

**Workspace** (`WorkspaceProofs`). One invariant, `IInv`: types; the texts ascend from the disk
through the saves under way to the timer and the page; each revision asked for is backed by a text
that is on disk or saved in front of it, with no removal between (`Backed`); times ascend;
revisions are behind the disk or a save under way (`RevisionsBehind`) unless a page closed on one,
spread and capped. Nothing in it relies on the order of two transactions that share no store;
taking any member out of the queue, not the first only, is `Omitted` of `DataProofs`. From it
`TypeCorrect`, `AlwaysOpen`, `UndoNetReachesBack`, `RemovalTakesAll` and `TextsOnlyAdvance`.

**Runs** (`RunsProofs`). One invariant, `RunInv`, for all six theorems (`RunTypes`,
`InputIsConserved`, `PromptBelongsToItsReader`, `ShownOfThisRun`, `FinishedShowsAll`,
`StopEndsTheRun`): `Typed`; `PhaseInv`, what the workers and the messages may be at each point of
`run()`; `ReaderInv`, a program is blocked exactly when the worker is inside a read;
`MessagesInv`, what was written is seen or on its way and the end comes last; `TalkInv`, at
each pair of a store of the page and a load of the worker, what the program has and the buffer
and the page still hold make up the input typed so far; `ShownInv`. Beside it `AwayInv`, for the
problem the results were recorded under, and `SizeInv`: the noted
length never exceeds the bytes stored. It is needed after a stop only, when a late question
may have been answered twice and `TalkInv` says nothing, and it rests on the model's lines, none of
which is shorter than the one before. `FlattenSeq` is a recursive function; what it makes of
one more line (`FlattenAppend`) is proved for a least counterexample instead of by
induction.

**Provenance** (`BenchProofs`). `PastesAreJudgedRight`: `ProvenanceSpec => []NovelMeansNew`.
`ProvenanceInv` adds why the texts come together again: of a problem in step at most one paste
waits for its digest (a second one is an edit that overtakes the first), its range lies in
the text the recorder has, and applying it there makes the text the editor shows. So it is
applied unclamped, and in whatever order the digests of different problems settle.

**Packs** (`BenchProofs`). `RunButtonIsRight`: `PacksSpec => []ReadyIsTrue`, for any packs, sizes,
jobs and clicks. `PacksInv` says of every pack outside `raced`: a download past its question is
alone, is of a pack that is not there and has put all it fetched; no look under way is out of
date; what the panel shows is there or it is about to look; what is to be removed and still
there is shown; and the bar is right, about to look, or about to be told, because the panel
shows the opposite of the truth and is about to look. A check that throws takes a look away only
from packs it leaves in `raced`, or about which nobody is wrong. `PacksStayTyped`: `PacksSpec =>
[]PacksTypeOK`; every download, and what it goes on to, is of a pack (`JobsOfPacks`).

**Sysroot image** (`BenchProofs`). `ImageComesBack`: `SysrootSpec /\ NoFileIsADirectory =>
[]SysrootRoundTrip`, for any SDK, libraries and names (the two sentinels must not be functions).
`SysrootInv` says that the image is what the packer's loop makes of the collected files: each
path once, with the bytes that lie at its offset, and beside them every directory above one. The
loops of the packer, of the page and of `unpack-sysroot.mjs` are folds in an order nobody fixes
(`CHOOSE`); each fold is shown to exist, and to be the function of the set it is meant to be, at
a smallest counterexample, so the order does not matter. `NoFileIsADirectory` (no kept file has
a path through another one) is needed: with a source `gnu/bits` beside `include/bits/types.h`
the tree does depend on the order, and TLC finds the run. A directory of an SDK cannot hold
both, but the packer merges several.

**Archive** (`BenchProofs`). `ArchiveComesBack`: `ArchiveSpec => []ArchiveRoundTrip`, for any
problems, slugs, tests and base. `ArchiveInv`: the zip holds what the loop over the problems laid
out, with the manifest or without. It rests on four facts. A directory is always free, since
fewer names are in use than numbers are tried (pigeonhole). Two numbers are never written
alike (`DigitsOneToOne`), so no test overwrites another. With two digits the order of the names
is that of the numbers (`StemsInOrder`), and the order of texts is a total order
(`TextsOrdered`, `TextsFollow`), so sorting is a list of the set (`SortedLists`). `Digits` and the
loop are recursive functions; that they exist is proved at a least counterexample.

**Order tree** (`BenchProofs`). `TreeStaysSound`: `TreeSpec => []TreeTypeOK` and `TreeIsASet`:
`TreeSpec => []AnswersLikeASet`, for any number of keys and any priorities, equal ones included.
`TreeAt(h, n, U)` says that in the heap `h` exactly the nodes `U` hang on `n`, in the order of
their keys, with right sizes, parents and priorities. It is not recursive: some assignment of
sets to nodes exists that every node bears out. `TreeInv`: what is allocated is the keys, all of
them hang on the root, and the root has no parent. Split, merge, erase and the copy each leave
such trees (`SplitTree`, `MergeTree`, `EraseTree`, `CloneIsTree`), by a least counterexample in the
size of the tree (`TreeInduction`). That the recursive functions of the module exist at all is
shown first (`FixedPoint` of `DataProofs`), since a child has a
smaller size than its parent. For the iterator, the keys under a node are those between the ends of its two ways up (`NodesBounded`), so what
`++` and `--` climb to is the next key. TLC cannot evaluate `TreeAt`, which quantifies over all
assignments; the run checks `AnswersLikeASet` and, within `TypeOK`, `TreeTypeOK`.

**Bench** (`BenchProofs`). `BenchIsItsParts`: a behaviour of `MCBench` is one of each of its five
parts, so running them one at a time is running each of them. From it, and the types
of the treap and of the packs, `BenchStaysTyped`: `FairSpec => []TypeOK`.

**Only model-checked.** All liveness (the prover has no ENABLED here), `RunEnds` and `BusyEnds`
included. Every invariant that a passing run checks is also the subject of a theorem.

## Not modelled, and why

- *Text matching*: compiler diagnostics and portability notes, the comparison of outputs and
  the parsing of pasted tests (`tests.ts`). No state and no interleaving; unit tests fit better.
- *Parts without behaviour of their own*: rendering, CodeMirror set-up, flags, `quota.ts`, the
  OPFS store (no pack uses it), the service worker's precache, build and vendoring scripts.
- *Server*: routing, CORS, the review token, malformed bodies and the check of ids (`safe()`).
  A link with an unusable id is refused for good; it is a listed hazard without a property.
- *Sizes*: chunks have none here, so the 8 MB limit of `app.ts`, which destroys the request
  instead of answering it, is a hazard without a property.
- *A request that is never answered* is assumed away (see Fairness).
- *Rows of an earlier round sent under the current ids* (`http-transport.ts` 57): the
  composition has one session; the cause is that of disagreement 2.
- *Failing workspace transactions*: the hook has no code for them.
- *A second run while one is going, and disposing of the compiler during a build*. The run button
  is disabled meanwhile. Ctrl+Enter is wired to the same `onRun`, which does not check for a run
  (`App.tsx` 78-91, 154, `setup.ts` 71-84); it has no effect only because CodeMirror's
  `defaultKeymap` (line 62) binds Mod-Enter in front of it. With another order of the keymaps a second
  run would be reachable, and `Runs` would have to be extended before its results could be trusted.

Left for later, in this order: two sessions in `Invigilation`; sizes of batches.
