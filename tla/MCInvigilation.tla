--------------------------- MODULE MCInvigilation ---------------------------
(* A round of one contestant end to end, for TLC. *)
EXTENDS Invigilation

MCHash(c) == <<"sha256", c>>
MCNoHash == << >>

=============================================================================
