--------------------------- MODULE PublicationGate ---------------------------
(* What the DEFAULT-pool publication gate promises: publishers of GPU textures *)
(* and the device reset exclude each other, a reset never begins while a       *)
(* publisher is inside and nobody enters while one is running.                 *)
CONSTANT Publishers

VARIABLES inside, resetting

vars == <<inside, resetting>>

Init ==
    /\ inside = {}
    /\ resetting = FALSE

Enter(t) ==
    /\ ~resetting
    /\ t \notin inside
    /\ inside' = inside \cup {t}
    /\ UNCHANGED resetting

Leave(t) ==
    /\ t \in inside
    /\ inside' = inside \ {t}
    /\ UNCHANGED resetting

BeginReset ==
    /\ inside = {}
    /\ resetting' = TRUE
    /\ UNCHANGED inside

EndReset ==
    /\ resetting
    /\ resetting' = FALSE
    /\ UNCHANGED inside

Next ==
    \/ \E t \in Publishers : Enter(t) \/ Leave(t)
    \/ BeginReset
    \/ EndReset

Spec == Init /\ [][Next]_vars
=============================================================================
