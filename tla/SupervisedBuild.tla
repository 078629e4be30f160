--------------------------- MODULE SupervisedBuild ---------------------------
(***************************************************************************)
(* What the supervised wheel build promises, without its machinery: a       *)
(* command runs with the processes it forks, and the script reaches one     *)
(* final verdict, never while one of them is at work.  A process that has    *)
(* been sent SIGKILL is not at work any more.                               *)
(***************************************************************************)
CONSTANT Processes

VARIABLES
    working,   \* the processes of the build that are at work
    result,    \* the command's exit: "none", "zero" or "nonzero"
    verdict    \* "pending", "accepted" or "failed"

buildVars == <<working, result, verdict>>

BuildInit == working = {} /\ result = "none" /\ verdict = "pending"

(* The build goes on; its command exits once. *)
Work ==
    /\ verdict = "pending" /\ UNCHANGED verdict
    /\ working' \in SUBSET Processes
    /\ result' \in IF result = "none" THEN {"none", "zero", "nonzero"} ELSE {result}

Accept ==
    /\ verdict = "pending" /\ verdict' = "accepted"
    /\ working = {} /\ result = "zero"
    /\ UNCHANGED <<working, result>>

Fail ==
    /\ verdict = "pending" /\ verdict' = "failed"
    /\ working = {}
    /\ UNCHANGED <<working, result>>

(* The exit of a killed command may be known only after the verdict. *)
Bury ==
    /\ verdict = "failed" /\ result = "none" /\ working = {}
    /\ result' \in {"zero", "nonzero"}
    /\ UNCHANGED <<working, verdict>>

BuildSpec == BuildInit /\ [][Work \/ Accept \/ Fail \/ Bury]_buildVars

=============================================================================
