---------------------------- MODULE AtLeastOnce ----------------------------
(***************************************************************************)
(* What delivery promises, without queues, retries, pages or a network:    *)
(* rows are sealed; the server comes to hold sealed rows and gives none    *)
(* back; a row is settled only once the server holds it, or has refused it.*)
(* One thing may still go wrong on the server: a single write may leave    *)
(* its file illegible and, as it does, spoil two rows at most.             *)
(***************************************************************************)
VARIABLES
    sealed,     \* rows on the contestant's disk
    held,       \* rows in the server's file
    legible,    \* the server's file can be read
    spoiled,    \* rows taken, and lost by the write that left it illegible
    refused,    \* rows the server answered 4xx
    settled     \* rows the contestant will not send again

vars == <<sealed, held, legible, spoiled, refused, settled>>

Init ==
    /\ sealed = {} /\ held = {} /\ legible = TRUE
    /\ spoiled = {} /\ refused = {} /\ settled = {}

Seal ==
    /\ sealed \subseteq sealed'
    /\ UNCHANGED <<held, legible, spoiled, refused, settled>>

\* A write may be cut short and leave the file illegible; what was held stays held.
Hold ==
    /\ legible
    /\ held \subseteq held' /\ held' \subseteq sealed
    /\ UNCHANGED <<sealed, spoiled, refused, settled>>

Spoil ==
    /\ legible /\ ~legible'
    /\ held' \subseteq sealed
    /\ \E old, new \in sealed : spoiled' \cup (held \ held') \subseteq {old, new}
    /\ UNCHANGED <<sealed, refused, settled>>

Refuse ==
    /\ refused \subseteq refused' /\ refused' \subseteq sealed
    /\ UNCHANGED <<sealed, held, legible, spoiled, settled>>

Settle ==
    /\ settled \subseteq settled' /\ settled' \subseteq held \cup spoiled \cup refused
    /\ UNCHANGED <<sealed, held, legible, spoiled, refused>>

Spec == Init /\ [][Seal \/ Hold \/ Spoil \/ Refuse \/ Settle]_vars

=============================================================================
