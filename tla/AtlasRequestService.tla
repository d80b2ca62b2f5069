------------------------ MODULE AtlasRequestService ------------------------
(***************************************************************************)
(* What the prewarm worker is promised when it hands a Direct3D atlas      *)
(* operation to the main thread: the operation runs at most once, the      *)
(* worker gets exactly one answer, a result only for the operation it      *)
(* asked for, and an operation whose caller has given up neither begins    *)
(* nor publishes.  How the slot, the tokens, the stop and the timeouts     *)
(* achieve it is the business of PrewarmCoordinator.                       *)
(***************************************************************************)
EXTENDS Naturals

VARIABLES
    issued,     \* number of requests issued; their tokens are 1..issued
    begun,      \* tokens whose operation the main thread has started
    published,  \* tokens whose result was made visible to the worker
    delivered,  \* tokens answered with that result
    refused     \* tokens answered without one

vars == <<issued, begun, published, delivered, refused>>

Answered == delivered \cup refused

Init ==
    /\ issued = 0
    /\ begun = {} /\ published = {} /\ delivered = {} /\ refused = {}

\* One request at a time: the previous caller has had its answer.
Issue ==
    /\ 1..issued \subseteq Answered
    /\ issued' = issued + 1
    /\ UNCHANGED <<begun, published, delivered, refused>>

Begin(t) ==
    /\ t \notin begun \cup Answered
    /\ begun' = begun \cup {t}
    /\ UNCHANGED <<issued, published, delivered, refused>>

Publish(t) ==
    /\ t \in begun
    /\ t \notin published \cup Answered
    /\ published' = published \cup {t}
    /\ UNCHANGED <<issued, begun, delivered, refused>>

Deliver(t) ==
    /\ t \in published
    /\ t \notin Answered
    /\ delivered' = delivered \cup {t}
    /\ UNCHANGED <<issued, begun, published, refused>>

\* Giving up is possible only while no result has been published.
Refuse(t) ==
    /\ t \notin published \cup Answered
    /\ refused' = refused \cup {t}
    /\ UNCHANGED <<issued, begun, published, delivered>>

Next ==
    \/ Issue
    \/ \E t \in 1..issued : Begin(t) \/ Publish(t) \/ Deliver(t) \/ Refuse(t)

Spec == Init /\ [][Next]_vars
=============================================================================
