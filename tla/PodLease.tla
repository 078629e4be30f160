------------------------------ MODULE PodLease ------------------------------
(***************************************************************************)
(* What the orchestrator promises about the paid Pods of one job, without   *)
(* any of its control: at most one exists at a time, and the one that  *)
(* receives the repository was accepted while it existed and is the last.   *)
(***************************************************************************)
CONSTANTS Pods, None

VARIABLES
    leased,    \* Pods that exist and are paid for
    released,  \* Pods that existed
    accepted,  \* the Pod whose assignment was accepted, or None
    closed     \* the job will not create a Pod any more

vars == <<leased, released, accepted, closed>>

Init ==
    /\ leased = {}
    /\ released = {}
    /\ accepted = None
    /\ closed = FALSE

\* The job may give up in the very step that touches a Pod.
MayClose == closed' \in {TRUE, closed}

Acquire(p) ==
    /\ ~closed
    /\ accepted = None
    /\ leased = {}
    /\ p \notin released
    /\ leased' = {p}
    /\ MayClose
    /\ UNCHANGED <<released, accepted>>

Accept(p) ==
    /\ ~closed
    /\ accepted = None
    /\ leased = {p}
    /\ accepted' = p
    /\ MayClose
    /\ UNCHANGED <<leased, released>>

Release(p) ==
    /\ p \in leased
    /\ leased' = leased \ {p}
    /\ released' = released \cup {p}
    /\ MayClose
    /\ UNCHANGED accepted

Close ==
    /\ closed' = TRUE
    /\ UNCHANGED <<leased, released, accepted>>

Next ==
    \/ \E p \in Pods : Acquire(p) \/ Accept(p) \/ Release(p)
    \/ Close

Spec == Init /\ [][Next]_vars
=============================================================================
