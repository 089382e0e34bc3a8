----------------------------- MODULE MCTwoTabs -----------------------------
(* Two tabs of one browser, for TLC. *)
EXTENDS TwoTabs

MCHash(c) == <<"sha256", c>>
MCNoHash == << >>

=============================================================================
