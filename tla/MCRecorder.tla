----------------------------- MODULE MCRecorder -----------------------------
(* One page at a time over the durable queue, for TLC. *)
EXTENDS Recorder

\* An injective hash: its argument, tagged.
MCHash(c) == <<"sha256", c>>
MCNoHash == << >>

=============================================================================
