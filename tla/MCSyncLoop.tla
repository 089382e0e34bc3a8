----------------------------- MODULE MCSyncLoop -----------------------------
(* The delivery loop against a server that answers some and fails some. *)
EXTENDS SyncLoop

MCHash(c) == <<"sha256", c>>
MCNoHash == << >>

=============================================================================
