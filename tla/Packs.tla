------------------------------- MODULE Packs --------------------------------
(***************************************************************************)
(* The asset packs: files fetched once into Cache Storage, downloaded by   *)
(* the bar over the editor (usePack) and by the storage panel (useStorage),*)
(* each with an idea of its own of what is ready.                          *)
(*                                                                         *)
(* A look into the cache reads one instant; its answer lands later.  The   *)
(* looks of one reader land in the order they are taken, and several that  *)
(* are not yet taken count as one.                                         *)
(***************************************************************************)
EXTENDS Naturals, Sequences, FiniteSets

CONSTANTS
    None,           \* no answer yet
    Listed,         \* PACKS, in order
    Optional,       \* the optional ones
    Files,          \* Files[p]: how many files pack p has
    MaxJobs,        \* bound: downloads under way at a time
    MaxClicks       \* bound: things the user does

Packs == {Listed[i] : i \in DOMAIN Listed}

ASSUME PacksAssumption ==
    /\ Listed \in Seq(Packs)
    /\ Optional \subseteq Packs
    /\ Files \in [Packs -> Nat \ {0}]
    /\ None \notin BOOLEAN
    /\ {MaxJobs, MaxClicks} \subseteq Nat

VARIABLES
    cached,     \* per pack: its files in the cache
    jobs,       \* downloads under way, by who asked
    ready,      \* usePack: per pack, what the run button goes by
    probing,    \* usePack: per pack, looks not landed: None before they are taken
    view,       \* useStorage: per pack, or None before the first answer
    surveys,    \* useStorage: looks of refresh() not landed
    busy, autoDownload, autoStarted,
    removing,   \* packs whose deletion is asked for
    raced,      \* (history) packs whose downloads, removals and looks overlapped, or
                \* that a bar or the panel was wrong about when the cache threw
    stuck,      \* (history) downloadAll ended by its own check, and busy since
    clicks

packVars == <<cached, jobs, ready, probing, view, surveys, busy, autoDownload, autoStarted,
              removing, raced, stuck, clicks>>

\* Who asked for a download: downloadAll, the panel's button of a pack, a pack's bar.
All == <<"panel", "all">>
One == <<"panel", "one">>
Bar(p) == <<"bar", p>>
Who == {All, One} \cup {Bar(p) : p \in Packs}

Ready(p) == cached[p] = 1..Files[p]
Looked == [p \in Packs |-> Ready(p)]

\* Mounted: every hook has asked for a look.
PacksInit ==
    /\ ready = [p \in Packs |-> None]
    /\ probing = [p \in Packs |-> {None}]
    /\ view = None
    /\ surveys = {None}
    /\ jobs = << >>
    /\ busy = FALSE
    /\ autoStarted = FALSE
    /\ removing = {}
    /\ cached = [p \in Packs |-> {}]
    /\ autoDownload \in BOOLEAN
    /\ raced = {}
    /\ stuck = FALSE
    /\ clicks = 0

-----------------------------------------------------------------------------
(* Downloads.  A job is at "ask" before isReady() is awaited, then fetches  *)
(* and puts one file after another into the cache it opened; `gone` when    *)
(* that cache has been deleted meanwhile.  `rest` is what downloadAll has   *)
(* still to do.                                                             *)

Without(w) == [v \in DOMAIN jobs \ {w} |-> jobs[v]]
With(w, job) == [v \in DOMAIN jobs \cup {w} |-> IF v = w THEN job ELSE jobs[v]]
Job(p, rest) == [at |-> "ask", pack |-> p, file |-> 1, gone |-> FALSE, rest |-> rest]

CanStart(w) == w \notin DOMAIN jobs /\ Cardinality(DOMAIN jobs) < MaxJobs

\* Those of some packs that are listed, in order.
ListedOf(some) ==
    LET kept[i \in 0..Len(Listed)] ==
            IF i = 0 THEN << >>
            ELSE IF Listed[i] \in some THEN Append(kept[i - 1], Listed[i]) ELSE kept[i - 1]
    IN  kept[Len(Listed)]

\* downloadAll(): the required packs first.
Order == ListedOf(Packs \ Optional) \o ListedOf(Optional)

StartAll == busy' = TRUE /\ jobs' = With(All, Job(Head(Order), Tail(Order)))

\* refresh(): a look at every pack.
LookAgain == surveys' = surveys \cup {None}

\* (mutation) A download that failed leaves `busy` behind.
OverUnlessFailed(w, ok) ==
    IF w = All /\ jobs[w].rest # << >>
    THEN jobs' = With(w, Job(Head(jobs[w].rest), Tail(jobs[w].rest))) /\ UNCHANGED <<busy, surveys, ready>>
    ELSE /\ jobs' = Without(w)
         /\ busy' = (busy /\ ~ok)
         /\ surveys' = IF w \in {All, One} THEN surveys \cup {None} ELSE surveys
         /\ ready' = IF w \in {All, One} THEN ready ELSE [ready EXCEPT ![jobs[w].pack] = ok]

\* The promise of a download settles: downloadAll goes on whatever became of it, the
\* panel is no longer busy and looks again, the bar takes it for the truth.
Over(w, ok) ==
    IF w = All /\ jobs[w].rest # << >>
    THEN jobs' = With(w, Job(Head(jobs[w].rest), Tail(jobs[w].rest))) /\ UNCHANGED <<busy, surveys, ready>>
    ELSE /\ jobs' = Without(w)
         /\ IF w \in {All, One}
            THEN busy' = FALSE /\ LookAgain /\ UNCHANGED ready
            ELSE ready' = [ready EXCEPT ![jobs[w].pack] = ok] /\ UNCHANGED <<busy, surveys>>

idle == <<probing, view, autoDownload, autoStarted, removing>>

\* isReady(): nothing to do for a pack that is there.
AskReady(w) ==
    /\ jobs[w].at = "ask"
    /\ IF Ready(jobs[w].pack) THEN Over(w, TRUE)
       ELSE jobs' = [jobs EXCEPT ![w].at = "fetch"] /\ UNCHANGED <<busy, surveys, ready>>
    /\ UNCHANGED <<cached, idle>>

\* isReady() throws.  In download() that is one more failure (cache-store.ts 51) ...
AskFails(w) ==
    /\ jobs[w].at = "ask"
    /\ Over(w, FALSE)
    /\ UNCHANGED <<cached, idle>>

\* ... but downloadAll's own check is outside its catch: the loop is over there, busy and
\* without a look (useStorage.ts 102).
LoopDies ==
    /\ All \in DOMAIN jobs /\ jobs[All].at = "ask"
    /\ jobs' = Without(All)
    /\ UNCHANGED <<busy, surveys, ready, cached, idle>>

\* The response is the asset, or it is refused: an error, the app shell, cut short.
FetchFile(w) ==
    /\ jobs[w].at = "fetch"
    /\ \/ jobs' = [jobs EXCEPT ![w].at = "put"] /\ UNCHANGED <<busy, surveys, ready>>
       \/ Over(w, FALSE)
    /\ UNCHANGED <<cached, idle>>

\* cache.put(), perhaps into a cache that has been deleted, and on to the next file; or
\* there is no room.
PutFile(w) ==
    LET p == jobs[w].pack
    IN  /\ jobs[w].at = "put"
        /\ \/ /\ cached' = IF jobs[w].gone THEN cached ELSE [cached EXCEPT ![p] = @ \cup {jobs[w].file}]
              /\ IF jobs[w].file = Files[p] THEN Over(w, TRUE)
                 ELSE /\ jobs' = [jobs EXCEPT ![w].at = "fetch", ![w].file = @ + 1]
                      /\ UNCHANGED <<busy, surveys, ready>>
           \/ Over(w, FALSE) /\ UNCHANGED cached
        /\ UNCHANGED idle

-----------------------------------------------------------------------------
(* What the user asks for.                                                  *)

\* The bar's button, once the first look has landed and said no.
BarDownload(p) ==
    /\ ready[p] = FALSE /\ CanStart(Bar(p))
    /\ jobs' = With(Bar(p), Job(p, << >>))
    /\ UNCHANGED <<cached, ready, surveys, busy, idle>>

\* `ready.get(id) ?? false`
Shown(p) == IF view = None THEN FALSE ELSE view[p]

\* The panel's button of one pack ...
PanelDownload(p) ==
    /\ ~Shown(p) /\ ~busy /\ CanStart(One)
    /\ busy' = TRUE
    /\ jobs' = With(One, Job(p, << >>))
    /\ UNCHANGED <<cached, ready, surveys, idle>>

\* ... and of all of them.
DownloadAll ==
    /\ \E p \in Packs : ~Shown(p)
    /\ ~busy /\ CanStart(All)
    /\ StartAll
    /\ UNCHANGED <<cached, ready, surveys, idle>>

PanelRemove(p) ==
    /\ Shown(p) /\ p \notin removing
    /\ removing' = removing \cup {p}
    /\ UNCHANGED <<cached, jobs, ready, probing, view, surveys, busy, autoDownload, autoStarted>>

\* The cache is gone, for the downloads that have it open as well; refresh().
Deleted(p) ==
    /\ p \in removing
    /\ removing' = removing \ {p}
    /\ cached' = [cached EXCEPT ![p] = {}]
    /\ jobs' = [w \in DOMAIN jobs |->
                   IF jobs[w].pack = p /\ jobs[w].at # "ask" THEN [jobs[w] EXCEPT !.gone = TRUE]
                   ELSE jobs[w]]
    /\ LookAgain
    /\ UNCHANGED <<ready, probing, view, busy, autoDownload, autoStarted>>

\* The deletion throws: refresh() all the same.
RemoveFails(p) ==
    /\ p \in removing
    /\ removing' = removing \ {p}
    /\ LookAgain
    /\ UNCHANGED <<cached, jobs, ready, probing, view, busy, autoDownload, autoStarted>>

\* The checkbox; the effect downloads what is missing, once per page.
AutoStarts(on, seen) == on /\ ~autoStarted /\ seen # None /\ \E p \in Packs : ~seen[p]

StartAutomatically(on, seen) ==
    IF AutoStarts(on, seen) /\ CanStart(All)
    THEN autoStarted' = TRUE /\ StartAll
    ELSE UNCHANGED <<autoStarted, jobs, busy>>

SetAutoDownload ==
    /\ autoDownload' = ~autoDownload
    /\ StartAutomatically(autoDownload', view)
    /\ UNCHANGED <<cached, ready, probing, view, surveys, removing>>

\* The panel is closed: every bar looks again.
ClosePanel ==
    /\ probing' = [p \in Packs |-> probing[p] \cup {None}]
    /\ UNCHANGED <<cached, jobs, ready, view, surveys, busy, autoDownload, autoStarted, removing>>

\* The page goes away under its downloads; what is in the cache stays.
Reload ==
    /\ ready' = [p \in Packs |-> None]
    /\ probing' = [p \in Packs |-> {None}]
    /\ view' = None
    /\ surveys' = {None}
    /\ jobs' = << >>
    /\ busy' = FALSE
    /\ autoStarted' = FALSE
    /\ removing' = {}
    /\ \E gone \in SUBSET removing : cached' = [p \in Packs |-> IF p \in gone THEN {} ELSE cached[p]]
    /\ UNCHANGED autoDownload

-----------------------------------------------------------------------------
(* Looks.                                                                   *)

LookBar(p) ==
    /\ probing[p] = {None}
    /\ probing' = [probing EXCEPT ![p] = {Ready(p)}]
    /\ UNCHANGED <<cached, jobs, ready, view, surveys, busy, autoDownload, autoStarted, removing>>

LandBar(p) ==
    /\ \E a \in probing[p] \ {None} :
          /\ ready' = [ready EXCEPT ![p] = a]
          /\ probing' = [probing EXCEPT ![p] = @ \ {a}]
    /\ UNCHANGED <<cached, jobs, view, surveys, busy, autoDownload, autoStarted, removing>>

\* The look throws: the bar is checked, and keeps what it had.
LookBarFails(p) ==
    /\ probing[p] = {None}
    /\ probing' = [probing EXCEPT ![p] = {}]
    /\ ready' = [ready EXCEPT ![p] = IF @ = None THEN FALSE ELSE @]
    /\ UNCHANGED <<cached, jobs, view, surveys, busy, autoDownload, autoStarted, removing>>

\* states() throws: nothing is shown, and nobody is told.
LookPanelFails ==
    /\ surveys = {None}
    /\ surveys' = {}
    /\ UNCHANGED <<cached, jobs, ready, probing, view, busy, autoDownload, autoStarted, removing>>

LookPanel ==
    /\ surveys = {None}
    /\ surveys' = {Looked}
    /\ UNCHANGED <<cached, jobs, ready, probing, view, busy, autoDownload, autoStarted, removing>>

\* (mutation) The bars are not told that something has changed.
LandPanelUntold ==
    /\ \E seen \in surveys \ {None} :
          /\ view' = seen
          /\ surveys' = surveys \ {seen}
          /\ StartAutomatically(autoDownload, seen)
    /\ UNCHANGED <<cached, ready, probing, autoDownload, removing>>

\* The panel's view lands; if it differs the bars look again (App), and the first
\* one may start the automatic download.
LandPanel ==
    /\ \E seen \in surveys \ {None} :
          /\ view' = seen
          /\ surveys' = surveys \ {seen}
          /\ probing' = IF \A p \in Packs : Shown(p) = seen[p] THEN probing
                        ELSE [p \in Packs |-> probing[p] \cup {None}]
          /\ StartAutomatically(autoDownload, seen)
    /\ UNCHANGED <<cached, ready, autoDownload, removing>>

-----------------------------------------------------------------------------

Download(w) == w \in DOMAIN jobs /\ (AskReady(w) \/ FetchFile(w) \/ PutFile(w))

User ==
    \/ \E p \in Packs : BarDownload(p) \/ PanelDownload(p) \/ PanelRemove(p)
    \/ DownloadAll \/ SetAutoDownload \/ ClosePanel \/ Reload

Work ==
    \/ \E w \in Who : Download(w)
    \/ \E p \in Packs : Deleted(p) \/ LookBar(p) \/ LandBar(p)
    \/ LookPanel \/ LandPanel

\* A look that says of pack p what is no longer so.
OldLook(p) ==
    (~Ready(p)) \in probing[p] \/ \E seen \in surveys \ {None} : seen[p] = ~Ready(p)

JobsOn(p) == {w \in DOMAIN jobs : jobs[w].pack = p}

\* A download of a pack with a removal or another download of it under way.
Crowded(p) ==
    /\ JobsOn(p) # {}
    /\ p \in removing \/ \E v, w \in JobsOn(p) : v # w

Contended(p) ==
    \/ Ready(p)' # Ready(p) /\ (OldLook(p)' \/ surveys # {})
    \/ Crowded(p)'

\* The bar or the panel is wrong about a pack.
Mistaken(p) == ready[p] \notin {Ready(p), None} \/ Shown(p) # Ready(p)

\* `missed`: the packs that a step has failed to look at.
Watched(missed) ==
    raced' = raced \cup {p \in Packs : Contended(p)} \cup {p \in missed : Mistaken(p)'}

StillStuck == stuck' = (stuck /\ busy')

\* Cache Storage throws where it is asked something.
Throw ==
    \/ \E w \in DOMAIN jobs : AskFails(w) /\ Watched({jobs[w].pack}) /\ StillStuck
    \/ LoopDies /\ Watched(Packs) /\ stuck' = TRUE
    \/ \E p \in Packs : LookBarFails(p) /\ Watched({p}) /\ StillStuck
    \/ LookPanelFails /\ Watched(Packs) /\ StillStuck
    \/ \E p \in Packs : RemoveFails(p) /\ Watched({}) /\ StillStuck

PacksNext ==
    \/ User /\ clicks < MaxClicks /\ clicks' = clicks + 1 /\ Watched({}) /\ StillStuck
    \/ Work /\ UNCHANGED clicks /\ Watched({}) /\ StillStuck
    \/ Throw /\ UNCHANGED clicks

PacksSpec == PacksInit /\ [][PacksNext]_packVars

\* A fetch is answered or fails, and the cache answers or throws.
PacksFairness ==
    \A w \in Who : WF_packVars(Download(w) /\ UNCHANGED clicks /\ Watched({}) /\ StillStuck)

-----------------------------------------------------------------------------
(* Properties.                                                              *)

PacksTypeOK ==
    /\ \A p \in Packs : cached[p] \subseteq 1..Files[p]
    /\ \A w \in DOMAIN jobs : jobs[w].file \in 1..Files[jobs[w].pack]
    /\ \A p \in Packs : probing[p] \subseteq BOOLEAN \cup {None}

\* With nothing under way the run button is right: a pack is called ready exactly when
\* every file of it is in the cache, whoever downloaded or removed it and however pages
\* came and went (App.tsx 40-51).  Two things are excepted, for the code goes wrong in
\* both: downloads, removals and looks at that pack that overlapped, and a check of the
\* cache that threw while the bar or the panel was wrong about that pack.
AtRest == jobs = << >> /\ removing = {} /\ surveys = {} /\ \A p \in Packs : probing[p] = {}

ReadyIsTrue == AtRest => \A p \in Packs \ raced : ready[p] = Ready(p)

\* A panel that is busy becomes free again, whatever becomes of the fetches, the puts and
\* the checks of each download, unless it is the check of downloadAll itself that throws
\* (useStorage.ts 69-110).
BusyEnds == busy ~> (~busy \/ stuck)

=============================================================================
