-------------------------------- MODULE Runs --------------------------------
(***************************************************************************)
(* "Run all": useRun and the three kinds of worker it talks to.  A run     *)
(* builds (C++) or boots (Python) first, then executes its test cases one  *)
(* after another, each with a channel of its own for typed input.          *)
(*                                                                         *)
(* The page works one event at a time: an action of the page is a handler  *)
(* with every continuation that runs before the next event.  Workers run   *)
(* at the same time; what they post waits in `inbox`.  Text is a sequence  *)
(* of numbers with 0 for the end of a line; line n is made of n's.         *)
(***************************************************************************)
EXTENDS StdinChannel, SequencesExt

CONSTANTS
    Cases,          \* test cases of a problem
    Input,          \* the input every one of them starts from
    MaxRuns,        \* bound: runs asked for
    MaxTyped,       \* bound: lines typed in one case
    MaxWrites,      \* bound: lines a program writes
    MaxInbox        \* bound: messages the page has still to handle when a read blocks

ASSUME RunsAssumption ==
    /\ Cases \in Nat \ {0}
    /\ Input \in Seq(Nat)
    /\ {MaxRuns, MaxTyped, MaxWrites, MaxInbox} \subseteq Nat

VARIABLES
    call,       \* the run() under way, or the last one
    results,    \* case -> what is shown for it
    prompt,     \* awaitingInput: a case, or 0
    python,     \* PythonRuntime: its worker and readyPromise
    cpp,        \* CppToolchain: its worker, readyPromise and precompiled header
    builder,    \* where the compiler worker stands
    prog,       \* the program that is executing
    inbox,      \* messages of the worker not yet handled by the page
    away,       \* (history) another problem is open than the one of the latest run
    typed       \* (history) the lines typed for this case, as far as they fit

pageVars == <<call, results, prompt, away>>
workerVars == <<python, cpp, builder, prog, inbox>>
vars == <<channelVars, pageVars, workerVars, typed>>

Languages == {"python", "cpp"}
NoProgram == [at |-> "none", wrote |-> 0, seen |-> 0, buf |-> << >>, got |-> << >>]

Init ==
    /\ ChannelInit
    /\ call = [no |-> 0, at |-> "idle", lang |-> "cpp", pch |-> FALSE,
               live |-> FALSE, k |-> 0, aborted |-> FALSE]
    /\ results = << >>
    /\ prompt = 0
    /\ away = FALSE
    /\ python = "none"
    /\ cpp = [at |-> "none", pch |-> FALSE]
    /\ builder = "none"
    /\ prog = NoProgram
    /\ inbox = << >>
    /\ typed = << >>

Running == call.at # "idle"

\* A task of the page that is making its stores is not yet over.
PageFree == writer = << >>

Post(message) == inbox' = Append(inbox, message)

-----------------------------------------------------------------------------
(* The loop over the cases.  `c` is the call, `py` the runtime it finds.    *)

\* What the program gets to read first.  worker.ts of Python splits at the line
\* ends and gives every piece one: a closing line end becomes an empty line.
Preload(lang) == IF lang = "python" /\ Input # << >> THEN Append(Input, 0) ELSE Input

Program(c) == [NoProgram EXCEPT !.at = "start", !.buf = Preload(c.lang)]

\* `finally` of run()
Finish(c, py) ==
    /\ call' = [c EXCEPT !.at = "idle"]
    /\ python' = py
    /\ prog' = NoProgram
    /\ UNCHANGED <<chan, typed>>

\* The next case: a fresh channel, and for Python a boot if there is no interpreter.
Begin(c, py) ==
    LET ready == c.lang = "cpp" \/ py = "ready"
    IN  /\ call' = [c EXCEPT !.k = @ + 1, !.at = IF ready THEN "case" ELSE "boot"]
        /\ python' = IF ready THEN py ELSE "booting"
        /\ prog' = IF ready THEN Program(c) ELSE NoProgram
        /\ chan' = Fresh
        /\ typed' = << >>

\* (mutation) The signal is not looked at between two cases.
NextCaseUnasked(c, py) ==
    IF c.k = Cases THEN Finish(c, py)
    ELSE IF c.lang = "python" /\ py = "failed" THEN Finish(c, py)
    ELSE Begin(c, py)

\* The head of the loop; a runtime whose boot failed throws out of it.
NextCase(c, py) ==
    IF c.aborted \/ c.k = Cases THEN Finish(c, py)
    ELSE IF c.lang = "python" /\ py = "failed" THEN Finish(c, py)
    ELSE Begin(c, py)

\* (mutation) The prompt of a case that is over stays.
SettleKeepsPrompt(kind, c, py) ==
    /\ results' = [i \in DOMAIN results \cup {c.k} |->
                      IF i # c.k THEN results[i]
                      ELSE [no |-> c.no, failed |-> kind # "finished",
                            unseen |-> prog.wrote - prog.seen, late |-> away]]
    /\ NextCase(c, py)
    /\ inbox' = << >>
    /\ reader' = "no"
    /\ UNCHANGED <<away, prompt, writer, cpp, builder>>

\* The awaited execution is over: record() it and go round, whichever problem is open
\* by now: the map is keyed by the id of the case alone.  A C++ worker, and a
\* Python one that is restarted, is terminated with all it has posted.
Settle(kind, c, py) ==
    /\ prompt' = 0
    /\ results' = [i \in DOMAIN results \cup {c.k} |->
                      IF i # c.k THEN results[i]
                      ELSE [no |-> c.no, failed |-> kind # "finished",
                            unseen |-> prog.wrote - prog.seen, late |-> away]]
    /\ NextCase(c, py)
    /\ inbox' = << >>
    /\ reader' = "no"
    /\ UNCHANGED <<away, writer, cpp, builder>>

\* restart() after a time limit or a stop; a C++ worker is one per execution.
Discarded == IF call.lang = "python" THEN "none" ELSE python

-----------------------------------------------------------------------------
(* The page: what the user does.                                            *)

\* (mutation) The toolchain is kept whichever header it was made with.
RunCppAnyHeader(c) ==
    LET kept == cpp.at # "none"
    IN  /\ cpp' = IF kept THEN cpp ELSE [at |-> "booting", pch |-> c.pch]
        /\ call' = [c EXCEPT !.at = IF ~kept THEN "boot"
                                    ELSE IF cpp.at = "ready" THEN "build" ELSE "idle"]
        /\ builder' = IF kept /\ cpp.at = "ready" THEN "asked" ELSE "none"
        /\ UNCHANGED <<python, prog, chan, typed>>

\* A C++ run throws away a toolchain with the other header, then builds; one whose
\* boot failed is kept, and its rejection ends every run at once.
RunCpp(c) ==
    LET kept == cpp.at # "none" /\ cpp.pch = c.pch
    IN  /\ cpp' = IF kept THEN cpp ELSE [at |-> "booting", pch |-> c.pch]
        /\ call' = [c EXCEPT !.at = IF ~kept THEN "boot"
                                    ELSE IF cpp.at = "ready" THEN "build" ELSE "idle"]
        /\ builder' = IF kept /\ cpp.at = "ready" THEN "asked" ELSE "none"
        /\ UNCHANGED <<python, prog, chan, typed>>

\* run(): the button is there while nothing is running.
Run(lang, live, pch) ==
    LET c == [no |-> call.no + 1, at |-> "idle", lang |-> lang, pch |-> pch,
              live |-> live, k |-> 0, aborted |-> FALSE]
    IN  /\ PageFree /\ ~Running /\ call.no < MaxRuns
        /\ prompt' = 0
        /\ results' = << >>
        /\ away' = FALSE
        /\ IF lang = "cpp" THEN RunCpp(c) ELSE NextCase(c, python) /\ UNCHANGED <<cpp, builder>>
        /\ UNCHANGED <<writer, reader, inbox>>

\* stop() while an execution listens to the signal: it is over at once.
StopCase ==
    /\ PageFree
    /\ call.at = "case" /\ ~call.aborted
    /\ Settle("stopped", [call EXCEPT !.aborted = TRUE], Discarded)

\* stop() when nothing listens, or the signal was aborted before: the case's channel
\* is closed (one left by an earlier case has no reader any more) and the loop will
\* find the signal.
StopOnly ==
    /\ PageFree /\ Running
    /\ call.at # "case" \/ call.aborted
    /\ call' = [call EXCEPT !.aborted = TRUE]
    /\ prompt' = 0
    /\ IF call.k > 0 /\ call.live THEN CloseStdin ELSE UNCHANGED channelVars
    /\ UNCHANGED <<results, away, workerVars, typed>>

Line(n) == Append([i \in 1..n |-> n], 0)

\* sendInput(): possible while the prompt is there.
SendInput ==
    LET n == Len(typed) + 1
    IN  /\ PageFree /\ prompt # 0
        /\ n <= MaxTyped
        /\ ProvideStdin(Line(n))
        /\ typed' = Append(typed, Fitting(Line(n)))
        /\ prompt' = 0
        /\ UNCHANGED <<call, results, away, workerVars>>

EndInput ==
    /\ PageFree /\ prompt # 0
    /\ CloseStdin
    /\ prompt' = 0
    /\ UNCHANGED <<call, results, away, workerVars, typed>>

\* (mutation) What is shown is left when another problem is opened.
ClearKeepsResults ==
    /\ PageFree
    /\ prompt' = 0
    /\ away' \in BOOLEAN
    /\ UNCHANGED <<channelVars, call, results, workerVars, typed>>

\* Another problem is opened, or the language switched: clear(), run or no run.  The
\* run goes on.
Clear ==
    /\ PageFree
    /\ results' = << >>
    /\ prompt' = 0
    /\ away' \in BOOLEAN
    /\ UNCHANGED <<channelVars, call, workerVars, typed>>

\* (mutation) The time limit stands still while the program waits for input.
TimeOutUnlessWaiting ==
    /\ PageFree /\ call.at = "case" /\ reader = "no"
    /\ Settle(IF call.lang = "cpp" THEN "timed-out" ELSE "timeout", call, Discarded)

\* The time limit, which the page enforces without asking the program.
TimeOut ==
    /\ PageFree /\ call.at = "case"
    /\ Settle(IF call.lang = "cpp" THEN "timed-out" ELSE "timeout", call, Discarded)

\* The worker of a C++ execution reports an error of its own.
WorkerError ==
    /\ PageFree /\ call.at = "case" /\ call.lang = "cpp"
    /\ Settle("internal-error", call, python)

-----------------------------------------------------------------------------
(* The page: the messages of the workers.                                   *)

Message(kind) == PageFree /\ inbox # << >> /\ Head(inbox).kind = kind

\* Python has booted: the program starts, whatever the signal says by now.
PythonReady ==
    /\ Message("ready") /\ call.lang = "python"
    /\ python' = "ready"
    /\ call' = [call EXCEPT !.at = "case"]
    /\ prog' = Program(call)
    /\ inbox' = << >>
    /\ UNCHANGED <<channelVars, results, prompt, away, cpp, builder, typed>>

\* The toolchain has booted: build() posts its request.
CppReady ==
    /\ Message("ready") /\ call.lang = "cpp"
    /\ cpp' = [cpp EXCEPT !.at = "ready"]
    /\ call' = [call EXCEPT !.at = "build"]
    /\ builder' = "asked"
    /\ inbox' = << >>
    /\ UNCHANGED <<channelVars, results, prompt, away, python, prog, typed>>

\* A boot that failed stays in readyPromise; run() shows the error and is over.
BootFailed ==
    /\ Message("failed") /\ call.at = "boot"
    /\ python' = IF call.lang = "python" THEN "failed" ELSE python
    /\ cpp' = IF call.lang = "cpp" THEN [cpp EXCEPT !.at = "failed"] ELSE cpp
    /\ call' = [call EXCEPT !.at = "idle"]
    /\ inbox' = << >>
    /\ UNCHANGED <<channelVars, results, prompt, away, builder, prog, typed>>

\* `built` without a module, or `failed`: nothing is executed.
NotBuilt ==
    /\ PageFree /\ inbox # << >> /\ call.at = "build"
    /\ Head(inbox).kind \in {"failed", "not-built"}
    /\ call' = [call EXCEPT !.at = "idle"]
    /\ builder' = "none"
    /\ inbox' = << >>
    /\ UNCHANGED <<channelVars, results, prompt, away, python, cpp, prog, typed>>

Built ==
    /\ Message("built")
    /\ NextCase(call, python)
    /\ builder' = "none"
    /\ inbox' = << >>
    /\ UNCHANGED <<writer, reader, results, prompt, away, cpp>>

\* onOutput of a Python run, which is told line by line.
Output ==
    /\ Message("output")
    /\ prog' = [prog EXCEPT !.seen = @ + 1]
    /\ inbox' = Tail(inbox)
    /\ UNCHANGED <<channelVars, pageVars, python, cpp, builder, typed>>

NeedsInput ==
    /\ Message("needs-input")
    /\ prompt' = call.k
    /\ inbox' = Tail(inbox)
    /\ UNCHANGED <<channelVars, call, results, away, python, cpp, builder, prog, typed>>

\* `done`, `failed` or `result`: the execution is over by itself.
Ended ==
    /\ PageFree /\ call.at = "case" /\ inbox # << >>
    /\ Head(inbox).kind \notin {"output", "needs-input"}
    /\ Settle(Head(inbox).kind, call, python)

-----------------------------------------------------------------------------
(* The workers.                                                             *)

\* init() of the interpreter or of the compiler: it posts `ready` or `failed`.
Boot ==
    /\ call.at = "boot" /\ inbox = << >>
    /\ \E kind \in {"ready", "failed"} : Post([kind |-> kind])
    /\ UNCHANGED <<channelVars, pageVars, python, cpp, builder, prog, typed>>

\* build() runs clang, and lld if there is an object file ...
Compile ==
    /\ builder = "asked"
    /\ \/ builder' = "compiled" /\ UNCHANGED inbox
       \/ builder' = "none" /\ \E kind \in {"not-built", "failed"} : Post([kind |-> kind])
    /\ UNCHANGED <<channelVars, pageVars, python, cpp, prog, typed>>

\* ... and posts the module it links, if it does.
Link ==
    /\ builder = "compiled"
    /\ builder' = "none"
    /\ \E kind \in {"built", "not-built", "failed"} : Post([kind |-> kind])
    /\ UNCHANGED <<channelVars, pageVars, python, cpp, prog, typed>>

\* classifyTrap(): a message may speak of the stack and of memory; the stack counts.
ClassifyTrap(about) ==
    IF "stack" \in about THEN "stack-overflow"
    ELSE IF "memory" \in about THEN "out-of-memory"
    ELSE "crashed"

Traps == {ClassifyTrap(about) : about \in SUBSET {"stack", "memory"}}

\* Packages are loaded, or the module instantiated, and the program starts or not.
Load ==
    /\ prog.at = "start"
    /\ \/ prog' = [prog EXCEPT !.at = "run"] /\ UNCHANGED inbox
       \/ /\ prog' = [prog EXCEPT !.at = "over"]
          /\ \E kind \in IF call.lang = "cpp" THEN Traps ELSE {"error"} : Post([kind |-> kind])
    /\ UNCHANGED <<channelVars, pageVars, python, cpp, builder, typed>>

\* Python posts a line as it is written; C++ keeps it for the result.
Write ==
    /\ prog.at = "run" /\ prog.wrote < MaxWrites
    /\ IF call.lang = "python"
       THEN Post([kind |-> "output"]) /\ prog' = [prog EXCEPT !.wrote = @ + 1]
       ELSE UNCHANGED inbox /\ prog' = [prog EXCEPT !.wrote = @ + 1, !.seen = @ + 1]
    /\ UNCHANGED <<channelVars, pageVars, python, cpp, builder, typed>>

\* The first n units of a text, and the rest.
Given(n) == [prog EXCEPT !.at = "run", !.got = @ \o SubSeq(prog.buf, 1, n),
                         !.buf = SubSeq(prog.buf, n + 1, Len(prog.buf))]

\* A read from what is there: up to `size` bytes in C++, one line in Python.
Read ==
    /\ prog.at = "run" /\ prog.buf # << >>
    /\ \E n \in 1..Len(prog.buf) :
          /\ call.lang = "python" =>
                prog.buf[n] = 0 /\ \A i \in 1..(n - 1) : prog.buf[i] # 0
          /\ prog' = Given(n)
    /\ UNCHANGED <<channelVars, pageVars, python, cpp, builder, inbox, typed>>

\* ... and when nothing is left a live one asks.  (Without a channel, end of input.)
ReadMore ==
    /\ prog.at = "run" /\ prog.buf = << >> /\ call.live
    /\ Len(inbox) < MaxInbox
    /\ Ask
    /\ prog' = [prog EXCEPT !.at = "read"]
    /\ UNCHANGED <<pageVars, python, cpp, builder, inbox, typed>>

OnWait ==
    /\ Told
    /\ Post([kind |-> "needs-input"])
    /\ UNCHANGED <<pageVars, python, cpp, builder, prog, typed>>

WakeUp == Wake /\ UNCHANGED <<pageVars, workerVars, typed>>

ReadNothing ==
    /\ EndOfInput
    /\ prog' = [prog EXCEPT !.at = "run"]
    /\ UNCHANGED <<pageVars, python, cpp, builder, inbox, typed>>

\* The bytes join what is unread; the read that blocked is then served from there.
ReadLine ==
    /\ Take
    /\ prog' = [prog EXCEPT !.at = "run", !.buf = @ \o Copied]
    /\ UNCHANGED <<pageVars, python, cpp, builder, inbox, typed>>

\* (mutation) The last line is flushed after `done` is posted.
EndThenFlush ==
    /\ prog.at = "run"
    /\ \E kind \in IF call.lang = "cpp" THEN {"finished"} \cup Traps
                   ELSE {"finished", "error", "stopped"} : Post([kind |-> kind])
    /\ prog' = [prog EXCEPT !.at = "over", !.wrote = @ + 1]
    /\ UNCHANGED <<channelVars, pageVars, python, cpp, builder, typed>>

\* The program is over: by itself, by an error, or by a KeyboardInterrupt it raised.
End ==
    /\ prog.at = "run"
    /\ \E kind \in IF call.lang = "cpp" THEN {"finished"} \cup Traps
                   ELSE {"finished", "error", "stopped"} : Post([kind |-> kind])
    /\ prog' = [prog EXCEPT !.at = "over"]
    /\ UNCHANGED <<channelVars, pageVars, python, cpp, builder, typed>>

-----------------------------------------------------------------------------

StoreNext == Store /\ UNCHANGED <<pageVars, workerVars, typed>>

User ==
    \/ \E lang \in Languages, live, pch \in BOOLEAN : Run(lang, live, pch)
    \/ StopCase
    \/ StopOnly
    \/ SendInput
    \/ EndInput
    \/ Clear

Page ==
    \/ PythonReady \/ CppReady \/ BootFailed \/ NotBuilt \/ Built
    \/ Output \/ NeedsInput \/ Ended

Workers ==
    \/ WorkerError \/ Boot \/ Compile \/ Link \/ Load \/ Write \/ Read \/ ReadMore
    \/ OnWait \/ WakeUp \/ ReadNothing \/ ReadLine \/ End

Next == User \/ Page \/ Workers \/ TimeOut \/ StoreNext

Spec == Init /\ [][Next]_vars

\* The page's event loop is fair: a message or a timer that is due is handled even
\* if the user never stops clicking.  A boot and a build answer.  Nothing is asked
\* of programs: they may loop or block for ever.
FairSpec ==
    /\ Spec
    /\ SF_vars(Page) /\ WF_vars(StoreNext) /\ SF_vars(TimeOut)
    /\ WF_vars(Boot) /\ WF_vars(Compile) /\ WF_vars(Link)

-----------------------------------------------------------------------------
(* Properties.                                                              *)

\* The shape of the state, and what goes together: a build is made with the header
\* the run asked for, an executing Python has booted, and a blocked reader is a
\* live program (useRun.ts 98-106, 166, 176).
TypeOK ==
    /\ chan.state \in States /\ chan.length \in 0..Capacity
    /\ reader \in {"no", "ask", "wait", "woken"}
    /\ call.at \in {"idle", "boot", "build", "case"} /\ call.k \in 0..Cases
    /\ prompt \in 0..Cases /\ away \in BOOLEAN
    /\ call.at = "build" => cpp = [at |-> "ready", pch |-> call.pch]
    /\ call.at = "case" /\ call.lang = "python" => python = "ready"
    /\ reader # "no" => prog.at = "read" /\ call.live

\* Nothing typed is lost, repeated or torn between page and program: whenever the
\* program is not in a read, what it got and what it has left to read are the
\* test's input and then every line sent to it (stdin-channel.ts 51-90).
InputConserved ==
    prog.at = "run" /\ ~call.aborted => prog.got \o prog.buf = Preload(call.lang) \o FlattenSeq(typed)

\* A prompt is there only while the case it is for is blocked and nobody has
\* answered: what the user types reaches the program that asked (useRun.ts 82-90).
\* (Not after a stop that did not end the case: the question may be on its way.)
PromptIsCurrent ==
    prompt # 0 /\ ~call.aborted =>
        /\ call.at = "case" /\ prompt = call.k
        /\ reader = "wait" /\ chan.state = "waiting" /\ PageFree

\* What is shown is of the latest run, one result per case that is over, through stops,
\* time limits and late answers; and "results belong to the problem that produced them"
\* (App.tsx 53): of what a run had shown when another problem was opened nothing is
\* left, there or back at its own.  (A case that ends after the switch is still
\* recorded, under an id that the other problem may have as well.)
ResultsOfThisRun ==
    \A i \in DOMAIN results :
        /\ results[i].no = call.no
        /\ i <= call.k
        /\ i = call.k => call.at = "idle"
        /\ away = results[i].late

\* A case reported as finished shows everything the program wrote: no output is
\* overtaken by the message that ends the run (client.ts 105-116 of Python).
FinishedIsComplete ==
    \A i \in DOMAIN results : ~results[i].failed => results[i].unseen = 0

\* After a stop no case begins, whether it came in a build, in a boot or in a case.
\* (A Python case whose interpreter was still booting has begun: it does execute.)
StopIsFinal == [][call.aborted /\ call'.no = call.no => call'.k = call.k]_vars

\* Every run is over some time, whatever the program does: endless loops, reads
\* nobody answers, stops, failed boots and builds (client.ts 23-26).
RunEnds == Running ~> ~Running

=============================================================================
