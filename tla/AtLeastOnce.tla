----------------------------- MODULE AtLeastOnce -----------------------------
(***************************************************************************)
(* What a relay of stored events promises: an event is delivered only      *)
(* after it was stored, possibly several times, it is acknowledged only    *)
(* after a delivery, and neither storing nor delivering is ever undone.    *)
(***************************************************************************)
CONSTANT Events

VARIABLES stored, delivered, acknowledged

vars == <<stored, delivered, acknowledged>>

Init == stored = {} /\ delivered = {} /\ acknowledged = {}

Store(e) ==
    /\ stored' = stored \cup {e}
    /\ UNCHANGED <<delivered, acknowledged>>

Deliver(e) ==
    /\ e \in stored
    /\ delivered' = delivered \cup {e}
    /\ UNCHANGED <<stored, acknowledged>>

Acknowledge(e) ==
    /\ e \in delivered
    /\ acknowledged' = acknowledged \cup {e}
    /\ UNCHANGED <<stored, delivered>>

\* A delivered event may be taken up again: at least once is not at most once.
Reopen(e) ==
    /\ acknowledged' = acknowledged \ {e}
    /\ UNCHANGED <<stored, delivered>>

Next == \E e \in Events : Store(e) \/ Deliver(e) \/ Acknowledge(e) \/ Reopen(e)

Spec == Init /\ [][Next]_vars
==============================================================================
