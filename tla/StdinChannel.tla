---------------------------- MODULE StdinChannel ----------------------------
(***************************************************************************)
(* packages/runner/src/stdin-channel.ts: shared memory through which a     *)
(* program that reads blocks until the page has written.  Each store of    *)
(* the page is a step of its own, since the worker runs at the same time;  *)
(* `writer` holds the stores the page has still to make.                   *)
(***************************************************************************)
EXTENDS Naturals, Sequences

CONSTANT Capacity       \* bytes of the buffer

ASSUME ChannelAssumption == Capacity \in Nat \ {0}

VARIABLES
    chan,       \* the header's state and length, and the bytes
    writer,     \* stores of the page still to come: its task is under way
    reader      \* where the worker stands in readStdinBlocking

channelVars == <<chan, writer, reader>>

States == {"idle", "waiting", "ready", "eof"}

\* createStdinChannel(): fresh memory is all zeroes.
Fresh == [state |-> "idle", length |-> 0, bytes |-> << >>]

ChannelInit == chan = Fresh /\ writer = << >> /\ reader = "no"

\* What of a text fits.
Fitting(text) == SubSeq(text, 1, IF Len(text) < Capacity THEN Len(text) ELSE Capacity)

\* (mutation) The state says READY before the length is there.
StoresReadyFirst(text) ==
    << [field |-> "bytes", value |-> Fitting(text)],
       [field |-> "state", value |-> "ready"],
       [field |-> "length", value |-> Len(Fitting(text))] >>

\* provideStdin(): bytes, then length, then the state the worker waits on.
Stores(text) ==
    << [field |-> "bytes", value |-> Fitting(text)],
       [field |-> "length", value |-> Len(Fitting(text))],
       [field |-> "state", value |-> "ready"] >>

ProvideStdin(text) == writer' = Stores(text) /\ UNCHANGED <<chan, reader>>

\* closeStdin()
CloseStdin ==
    /\ writer' = << [field |-> "length", value |-> 0], [field |-> "state", value |-> "eof"] >>
    /\ UNCHANGED <<chan, reader>>

\* The page makes its next store.
Store ==
    /\ writer # << >>
    /\ chan' = [chan EXCEPT ![Head(writer).field] = Head(writer).value]
    /\ writer' = Tail(writer)
    /\ UNCHANGED reader

\* readStdinBlocking(): WAITING over whatever was there ...
Ask == chan' = [chan EXCEPT !.state = "waiting"] /\ reader' = "ask" /\ UNCHANGED writer

\* ... then onWait() tells the page, and the worker sleeps ...
Told == reader = "ask" /\ reader' = "wait" /\ UNCHANGED <<chan, writer>>

\* ... until the state is no longer WAITING.
Wake ==
    /\ reader = "wait"
    /\ chan.state # "waiting"
    /\ reader' = "woken"
    /\ UNCHANGED <<chan, writer>>

EndOfInput ==
    /\ reader = "woken"
    /\ chan.state = "eof"
    /\ reader' = "no"
    /\ UNCHANGED <<chan, writer>>

\* What the worker copies out before it says IDLE.
Copied == SubSeq(chan.bytes, 1, chan.length)

Take ==
    /\ reader = "woken"
    /\ chan.state # "eof"
    /\ chan' = [chan EXCEPT !.state = "idle"]
    /\ reader' = "no"
    /\ UNCHANGED writer

=============================================================================
