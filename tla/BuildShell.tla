----------------------------- MODULE BuildShell -----------------------------
(***************************************************************************)
(* run_rss_supervised_command of scripts/build-wheel.sh, and what the       *)
(* script does with its status and its evidence: the shell that starts the  *)
(* supervisor in the background, relays HUP, INT and TERM to it, and lets   *)
(* the build go on only when the evidence proves it.                        *)
(*                                                                          *)
(* Bash runs a trap between two commands, or at once when it interrupts     *)
(* wait, whose status is then that of the signal.                           *)
(***************************************************************************)
EXTENDS RssSupervisor

CONSTANT MaxSignals    \* bound on the signals that reach the shell

ASSUME SignalsAssumption == MaxSignals \in Nat

VARIABLES
    shellPc,        \* the shell's next step
    supervisorPid,  \* supervisor_pid is set
    pendingSignal,  \* pending_signal
    commandStatus,  \* command_status
    arrived         \* how many signals have reached the shell

shellVars == <<shellPc, supervisorPid, pendingSignal, commandStatus, arrived>>
allVars == <<vars, shellVars>>

ShellPcs == {"spawn", "record", "relay", "wait", "interrupted", "waited",
             "evidence", "accepted", "failed"}
Trapping == {"spawn", "record", "relay", "wait", "interrupted", "waited"}

(* What a signal delivered to the supervisor leaves alone. *)
deliveredOnly == <<kernelVars, forwarded, timers, scan, stats, resultVars, flowVars, evidence>>

ShellInit ==
    /\ Init
    /\ shellPc = "spawn" /\ supervisorPid = FALSE
    /\ pendingSignal = "none" /\ commandStatus = "none" /\ arrived = 0

-----------------------------------------------------------------------------
(* Signals to the shell. *)

(* relay_supervisor_signal: the last signal stays pending, and a supervisor  *)
(* whose pid is known and which still runs receives it.                      *)
Trap(s) ==
    /\ shellPc \in Trapping /\ arrived < MaxSignals
    /\ arrived' = arrived + 1 /\ pendingSignal' = s
    /\ \/ supervisorPid /\ Deliver(s) /\ UNCHANGED deliveredOnly
       \/ ~supervisorPid /\ UNCHANGED vars
    /\ \/ /\ shellPc = "wait" /\ shellPc' = "interrupted" /\ commandStatus' = "nonzero"
       \/ shellPc # "wait" /\ UNCHANGED <<shellPc, commandStatus>>
    /\ UNCHANGED supervisorPid

(* Once the traps are reset, a signal ends the script. *)
ShellDies(s) ==
    /\ shellPc = "evidence" /\ shellPc' = "failed"
    /\ UNCHANGED <<vars, supervisorPid, pendingSignal, commandStatus, arrived>>

-----------------------------------------------------------------------------
(* The function. *)

Spawn ==
    /\ shellPc = "spawn" /\ shellPc' = "record"
    /\ Launch
    /\ UNCHANGED <<supervisorPid, pendingSignal, commandStatus, arrived>>

RecordPid ==
    /\ shellPc = "record" /\ shellPc' = "relay"
    /\ supervisorPid' = TRUE
    /\ UNCHANGED <<vars, pendingSignal, commandStatus, arrived>>

\* Mutant of RelayPending: a signal from before supervisor_pid was set is not relayed.
RelayNothing ==
    /\ shellPc = "relay" /\ shellPc' = "wait"
    /\ UNCHANGED <<vars, supervisorPid, pendingSignal, commandStatus, arrived>>

RelayPending ==
    /\ shellPc = "relay" /\ shellPc' = "wait"
    /\ \/ pendingSignal # "none" /\ Deliver(pendingSignal) /\ UNCHANGED deliveredOnly
       \/ pendingSignal = "none" /\ UNCHANGED vars
    /\ UNCHANGED <<supervisorPid, pendingSignal, commandStatus, arrived>>

(* wait reaps the supervisor, so that kill -0 ends the loop. *)
Wait ==
    /\ shellPc = "wait" /\ pc = "exited" /\ shellPc' = "waited"
    /\ commandStatus' = exitStatus
    /\ UNCHANGED <<vars, supervisorPid, pendingSignal, arrived>>

\* Mutant of CheckAlive: an interrupted wait is taken for the end of the supervisor.
CheckAliveOnce ==
    /\ shellPc = "interrupted" /\ shellPc' = "waited"
    /\ UNCHANGED <<vars, supervisorPid, pendingSignal, commandStatus, arrived>>

(* kill -0 after an interrupted wait: bash may or may not have reaped a      *)
(* supervisor that is gone.                                                  *)
CheckAlive ==
    /\ shellPc = "interrupted"
    /\ \/ shellPc' = "wait"
       \/ pc = "exited" /\ shellPc' = "waited"
    /\ UNCHANGED <<vars, supervisorPid, pendingSignal, commandStatus, arrived>>

\* Mutant of Finish: the status is not corrected for a signal the supervisor outran.
FinishUncorrected ==
    /\ shellPc = "waited"
    /\ shellPc' = IF commandStatus = "zero" THEN "evidence" ELSE "failed"
    /\ supervisorPid' = FALSE
    /\ UNCHANGED <<vars, pendingSignal, commandStatus, arrived>>

(* The traps are reset and the status corrected; "|| exit" ends the script.  *)
Finish ==
    /\ shellPc = "waited"
    /\ commandStatus' = IF pendingSignal # "none" /\ commandStatus = "zero" THEN "nonzero"
                                                                            ELSE commandStatus
    /\ shellPc' = IF commandStatus' = "zero" THEN "evidence" ELSE "failed"
    /\ supervisorPid' = FALSE
    /\ UNCHANGED <<vars, pendingSignal, arrived>>

\* Mutant of EvidenceAccepted: only completeness is demanded.
EvidenceComplete == evidence = "complete" /\ monitorError = "none" /\ childCode = "zero"

(* The fields that the script demands of the evidence. *)
EvidenceAccepted ==
    /\ evidence = "complete" /\ monitorError = "none" /\ childCode = "zero"
    /\ ~forcedKill /\ forwarded = "none"
    /\ stats.leader /\ stats.compiler /\ stats.samples >= MinSamples /\ stats.several

(* The wheel itself and the peak are checked there too. *)
CheckEvidence ==
    /\ shellPc = "evidence"
    /\ \/ EvidenceAccepted /\ shellPc' = "accepted"
       \/ shellPc' = "failed"
    /\ UNCHANGED <<vars, supervisorPid, pendingSignal, commandStatus, arrived>>

ShellStep == Spawn \/ RecordPid \/ RelayPending \/ Wait \/ CheckAlive \/ Finish \/ CheckEvidence

Done == shellPc \in {"accepted", "failed"} /\ UNCHANGED allVars

ShellNext ==
    \/ ShellStep
    \/ \E s \in Signals : Trap(s) \/ ShellDies(s)
    \/ \E s \in Signals : DirectSignal(s) /\ UNCHANGED shellVars
    \/ SupervisorStep /\ UNCHANGED shellVars
    \/ Environment /\ UNCHANGED shellVars
    \/ Done

Spec == ShellInit /\ [][ShellNext]_allVars

(* The build owes nothing.  The two processes are scheduled, time passes, a   *)
(* killed process dies, and PID 1 of the container (sshd) reaps orphans.     *)
FairSpec ==
    /\ Spec
    /\ WF_allVars(ShellStep)
    /\ WF_allVars(SupervisorStep /\ UNCHANGED shellVars)
    /\ \A t \in {"initial", "termination", "grace", "kill"} :
          WF_allVars(TimeoutExpires(t) /\ UNCHANGED shellVars)
    /\ \A p \in Members : WF_allVars(Death(p) /\ UNCHANGED shellVars)
    /\ \A d \in Descendants : WF_allVars(DescendantReaped(d) /\ UNCHANGED shellVars)

-----------------------------------------------------------------------------
(* Properties. *)

ShellTypeOK ==
    /\ TypeOK
    /\ shellPc \in ShellPcs /\ supervisorPid \in BOOLEAN
    /\ pendingSignal \in Signals \union {"none"}
    /\ commandStatus \in Codes /\ arrived \in 0 .. MaxSignals

(* The script goes on to publish the wheel only for a build whose command    *)
(* succeeded by itself, under samples of it and of a compiler, without a     *)
(* signal or a SIGKILL on the way, and of which no process is left.          *)
AcceptedBuildIsClean ==
    shellPc = "accepted" =>
        /\ leaderCode = "zero" /\ ~GroupExists /\ ~killed
        /\ forwarded = "none" /\ pendingSignal = "none"
        /\ stats.samples >= MinSamples /\ stats.leader /\ stats.compiler /\ stats.several

(* The function returns only after the supervisor has ended, so that a       *)
(* signal cannot leave the build running behind a script that has exited.    *)
ShellOutlivesBuild ==
    shellPc \in {"evidence", "accepted", "failed"} =>
        pc = "exited" /\ (killed \/ \A p \in Members : ~Running(p))

(* A signal caught at any point of the function makes its status nonzero.    *)
SignalMeansFailure ==
    pendingSignal # "none" /\ shellPc \notin Trapping => commandStatus = "nonzero"

(* A signal that has reached the supervisor ends the build and the function. *)
RelayedSignalEndsBuild ==
    requested # "none" \/ LeaderExited ~> shellPc \notin Trapping

(* docs/resource-reporting.md:150 says that HUP, INT and TERM received by    *)
(* either the build shell or supervisor are forwarded to the isolated group: *)
(* no signal that the shell has relayed misses the supervisor of a build     *)
(* that runs.                                                                *)
EverySignalIsForwarded ==
    shellPc = "wait" /\ pendingSignal # "none" /\ Running(Leader) => requested # "none"

(* What the code keeps of it: TERM and HUP, which nothing ignores while the  *)
(* supervisor starts, either reach it with its handlers installed or end it  *)
(* before it has started a build: what runs on is what withstood SIGKILL.    *)
TerminationIsForwarded ==
    shellPc = "wait" /\ pendingSignal = "TERM" /\ Running(Leader) =>
        requested # "none" \/ killed

(* The script with its supervisor implements SupervisedBuild. *)
AtWork == {p \in Members : Running(p) /\ ~killed}
FinalVerdict == IF shellPc \in {"accepted", "failed"} THEN shellPc ELSE "pending"

Build == INSTANCE SupervisedBuild WITH
    Processes <- Members, working <- AtWork, result <- leaderCode, verdict <- FinalVerdict

ImplementsSupervisedBuild == Build!BuildSpec

=============================================================================
