--------------------------- MODULE RssSupervisor ---------------------------
(***************************************************************************)
(* supervise_process_group_rss of tools/pod_resources.py: it runs the wheel *)
(* build in a session of its own, samples that process group in /proc,      *)
(* forwards the first HUP, INT or TERM to it and leaves no member behind.   *)
(*                                                                          *)
(* The supervisor shares the process group with the kernel and the build,   *)
(* whose processes fork and exit between any two of its system calls.       *)
(* poll() immediately followed by killpg(pgid, 0) is one step: a leader     *)
(* that has exited and a group that is gone stay so, hence what the two     *)
(* calls conclude is what one look at the time of either would conclude.    *)
(* A timeout is a timer that runs until the clock expires it.               *)
(***************************************************************************)
EXTENDS Naturals

CONSTANTS
    Leader,        \* the supervised command, whose pid is the pgid
    Descendants,   \* the processes it may fork into its group
    Compilers,     \* those of them that _is_compiler_executable recognises
    ProcReadable,  \* no /proc entry of a live process is ever unreadable
    Signals        \* the handled signals that may be sent

ASSUME MembersAssumption == Leader \notin Descendants /\ Compilers \subseteq Descendants
ASSUME ReadableAssumption == ProcReadable \in BOOLEAN
ASSUME HandledAssumption == Signals \subseteq {"HUP", "INT", "TERM"}

VARIABLES
    member,       \* [Members -> ...] the process group as the kernel sees it
    leaderCode,   \* the leader's wait status
    killed,       \* SIGKILL was sent to the group: its members can only die
    pc,           \* the supervisor's next step
    requested,    \* signal_state["requested"]
    forwarded,    \* forwarded_signal
    timers,       \* initial_deadline, termination_deadline, grace and kill windows
    scan,         \* _collect_process_group_details in progress
    stats,        \* what the samples so far have shown
    monitorError, \* monitor_error
    childCode,    \* child_returncode
    forcedKill,   \* forced_kill
    returnTo,     \* where the bounded termination in progress returns to
    raising,      \* an exception is on its way out
    evidence,     \* the file at output_path
    exitStatus    \* the supervisor's exit status

kernelVars == <<member, leaderCode, killed>>
resultVars == <<monitorError, childCode, forcedKill>>
flowVars   == <<returnTo, raising>>
vars == <<kernelVars, pc, requested, forwarded, timers, scan, stats, resultVars,
          flowVars, evidence, exitStatus>>

Members == {Leader} \union Descendants
Codes   == {"none", "zero", "nonzero"}
MinSamples == 2     \* sampleCount saturates at the two samples the code asks for

Starting == {"absent", "starting"}
Handling == {"popen", "initial_signal", "initial_scan", "initial_poll", "initial_write",
             "signal", "poll", "deadline", "scan", "repoll", "checkpoint", "after_loop",
             "remains", "verdict", "grace", "kill_leader", "kill_group", "exception"}
Leaving  == {"restored", "exited"}

NoScan == [unread |-> {}, seen |-> {}, resident |-> FALSE, compiler |-> FALSE]
NoStats == [samples |-> 0, leader |-> FALSE, compiler |-> FALSE, several |-> FALSE]

Running(p) == member[p] = "running"
Exists(p)  == member[p] \in {"running", "zombie"}
\* /proc is listed once; what is forked later is not read.
NewScan == [NoScan EXCEPT !.unread = {p \in Members : Exists(p)}]
LeaderExited == member[Leader] \in {"zombie", "gone"}
DescendantsRemain == \E d \in Descendants : Exists(d)
GroupExists == \E p \in Members : Exists(p)      \* _process_group_exists

(* child.poll() reaps a leader that has exited. *)
Reaped == IF member[Leader] = "zombie" THEN [member EXCEPT ![Leader] = "gone"] ELSE member
Poll == member' = Reaped /\ UNCHANGED <<leaderCode, killed>>
PolledCode == IF LeaderExited THEN leaderCode ELSE "none"

Start(t)   == timers' = [timers EXCEPT ![t] = "running"]
Stop(t)    == timers' = [timers EXCEPT ![t] = "off"]      \* out of scope
Expired(t) == timers[t] = "expired"

Init ==
    /\ member = [p \in Members |-> "absent"] /\ leaderCode = "none" /\ killed = FALSE
    /\ pc = "absent" /\ requested = "none" /\ forwarded = "none"
    /\ timers = [t \in {"initial", "termination", "grace", "kill"} |-> "off"]
    /\ scan = NoScan /\ stats = NoStats
    /\ monitorError = "none" /\ childCode = "none" /\ forcedKill = FALSE
    /\ returnTo = "none" /\ raising = FALSE /\ evidence = "none" /\ exitStatus = "none"

-----------------------------------------------------------------------------
(* The build and the kernel. *)

groupOnly == <<pc, requested, forwarded, timers, scan, stats, resultVars, flowVars,
               evidence, exitStatus>>

Fork(d) ==
    /\ member[d] = "absent" /\ ~killed
    /\ \E p \in Members : Running(p)
    /\ member' = [member EXCEPT ![d] = "running"]
    /\ UNCHANGED <<leaderCode, killed, groupOnly>>

(* The command ends, by itself or because of a signal. *)
LeaderExits(code) ==
    /\ Running(Leader)
    /\ member' = [member EXCEPT ![Leader] = "zombie"]
    /\ leaderCode' = code
    /\ UNCHANGED <<killed, groupOnly>>

DescendantExits(d) ==
    /\ Running(d)
    /\ member' = [member EXCEPT ![d] = "zombie"]
    /\ UNCHANGED <<leaderCode, killed, groupOnly>>

(* Its parent in the group, or else PID 1 of the container, reaps it. *)
DescendantReaped(d) ==
    /\ member[d] = "zombie"
    /\ member' = [member EXCEPT ![d] = "gone"]
    /\ UNCHANGED <<leaderCode, killed, groupOnly>>

TimeoutExpires(t) ==
    /\ timers[t] = "running"
    /\ timers' = [timers EXCEPT ![t] = "expired"]
    /\ UNCHANGED <<kernelVars, pc, requested, forwarded, scan, stats, resultVars,
                   flowVars, evidence, exitStatus>>

\* Mutant of Deliver: no "is None" test, the last signal counts.
DeliverLast(s) ==
    /\ pc \in Handling
    /\ requested' = s
    /\ UNCHANGED <<pc, exitStatus>>

(* A signal reaches the supervisor.  Until its handlers are installed, and   *)
(* again once they are restored, SIGINT is ignored, as a shell without job   *)
(* control starts a background command, and HUP and TERM end the process.    *)
Deliver(s) ==
    \/ /\ pc \in Handling /\ requested = "none"
       /\ requested' = s
       /\ UNCHANGED <<pc, exitStatus>>
    \/ /\ pc \in {"starting", "restored"} /\ s # "INT"
       /\ pc' = "exited" /\ exitStatus' = "nonzero"
       /\ UNCHANGED requested
    \/ /\ \/ pc \in Handling /\ requested # "none"
          \/ pc \in {"starting", "restored"} /\ s = "INT"
          \/ pc \in {"absent", "exited"}
       /\ UNCHANGED <<pc, requested, exitStatus>>

DirectSignal(s) ==
    /\ pc \notin {"absent", "exited"}
    /\ Deliver(s)
    /\ UNCHANGED <<kernelVars, forwarded, timers, scan, stats, resultVars, flowVars, evidence>>

-----------------------------------------------------------------------------
(* The supervisor. *)

envOnly == <<requested, leaderCode, killed>>     \* a supervisor step changes none of it

Launch ==
    /\ pc = "absent" /\ pc' = "starting"
    /\ UNCHANGED <<kernelVars, requested, forwarded, timers, scan, stats, resultVars,
                   flowVars, evidence, exitStatus>>

InstallHandlers ==
    /\ pc = "starting" /\ pc' = "popen"
    /\ UNCHANGED <<kernelVars, requested, forwarded, timers, scan, stats, resultVars,
                   flowVars, evidence, exitStatus>>

(* subprocess.Popen(command, start_new_session=True), which may fail. *)
Popen ==
    /\ pc = "popen"
    /\ \/ /\ member' = [member EXCEPT ![Leader] = "running"]
          /\ Start("initial") /\ pc' = "initial_signal"
          /\ UNCHANGED raising
       \/ /\ pc' = "restored" /\ raising' = TRUE
          /\ UNCHANGED <<member, timers>>
    /\ UNCHANGED <<envOnly, forwarded, scan, stats, resultVars, returnTo, evidence, exitStatus>>

\* Mutant of CheckSignal: the signal is forwarded, but termination_deadline is not set.
CheckSignalWithoutDeadline ==
    /\ pc \in {"initial_signal", "signal"}
    /\ forwarded' = requested
    /\ \/ pc = "initial_signal" /\ pc' = "initial_scan" /\ scan' = NewScan
       \/ pc = "signal" /\ pc' = "poll" /\ UNCHANGED scan
    /\ UNCHANGED <<kernelVars, requested, timers, stats, resultVars, flowVars, evidence,
                   exitStatus>>

(* The head of both loops: forward the first signal, and start its grace. *)
CheckSignal ==
    /\ pc \in {"initial_signal", "signal"}
    /\ \/ /\ requested # "none" /\ forwarded = "none"
          /\ forwarded' = requested /\ Start("termination")
       \/ /\ requested = "none" \/ forwarded # "none"
          /\ UNCHANGED <<forwarded, timers>>
    /\ \/ pc = "initial_signal" /\ pc' = "initial_scan" /\ scan' = NewScan
       \/ pc = "signal" /\ pc' = "poll" /\ UNCHANGED scan
    /\ UNCHANGED <<kernelVars, requested, stats, resultVars, flowVars, evidence, exitStatus>>

(* A zombie counts as a process without resident pages or an executable; a   *)
(* compiler is recognised once it has been exec'ed.                          *)
ReadProcess(p) ==
    /\ pc \in {"initial_scan", "scan"} /\ p \in scan.unread
    /\ \/ /\ Exists(p)
          /\ \E recognised \in {FALSE, (p \in Compilers /\ Running(p))} :
               scan' = [unread |-> scan.unread \ {p},
                        seen |-> scan.seen \union {p},
                        resident |-> scan.resident \/ Running(p),
                        compiler |-> scan.compiler \/ recognised]
       \/ /\ Exists(p) => ~ProcReadable
          /\ scan' = [scan EXCEPT !.unread = @ \ {p}]
    /\ UNCHANGED <<kernelVars, pc, requested, forwarded, timers, stats, resultVars,
                   flowVars, evidence, exitStatus>>

Sampled ==
    stats' = [samples |-> IF stats.samples < MinSamples THEN stats.samples + 1
                                                        ELSE MinSamples,
              leader |-> stats.leader \/ Leader \in scan.seen,
              compiler |-> stats.compiler \/ scan.compiler,
              several |-> stats.several \/ \E p, q \in scan.seen : p # q]

EndScan ==
    /\ pc \in {"initial_scan", "scan"} /\ scan.unread = {}
    /\ scan' = NoScan
    /\ \/ /\ scan.resident /\ Sampled
          /\ pc' = IF pc = "scan" THEN "checkpoint" ELSE "initial_write"
       \/ /\ ~scan.resident /\ UNCHANGED stats
          /\ pc' = IF pc = "scan" THEN "repoll" ELSE "initial_poll"
    /\ UNCHANGED <<kernelVars, requested, forwarded, timers, resultVars, flowVars,
                   evidence, exitStatus>>

(* The initial loop after an empty sample. *)
InitialPoll ==
    /\ pc = "initial_poll"
    /\ Poll /\ childCode' = PolledCode
    /\ \/ /\ LeaderExited /\ pc' = "initial_write"
          /\ monitorError' = IF leaderCode = "zero" THEN "unsampled" ELSE monitorError
       \/ /\ ~LeaderExited /\ Expired("initial")
          /\ monitorError' = "unobservable" /\ pc' = "initial_write"
       \/ /\ ~LeaderExited /\ ~Expired("initial")
          /\ pc' = "initial_signal" /\ UNCHANGED monitorError
    /\ UNCHANGED <<requested, forwarded, timers, scan, stats, forcedKill, flowVars,
                   evidence, exitStatus>>

(* _atomic_write_json of incomplete evidence: certain after the initial loop, *)
(* due now and then in the main one.                                          *)
InitialWrite ==
    /\ pc = "initial_write" /\ evidence' = "partial"
    /\ pc' = IF monitorError = "none" THEN "signal" ELSE "after_loop"
    /\ Stop("initial")
    /\ UNCHANGED <<kernelVars, requested, forwarded, scan, stats, resultVars,
                   flowVars, exitStatus>>

\* Mutant of Checkpoint: complete=monitor_error is None, as in the final payload.
CheckpointCompletes ==
    /\ pc = "checkpoint" /\ pc' = "signal"
    /\ evidence' \in {evidence, "complete"}
    /\ UNCHANGED <<kernelVars, requested, forwarded, timers, scan, stats, resultVars,
                   flowVars, exitStatus>>

Checkpoint ==
    /\ pc = "checkpoint" /\ pc' = "signal"
    /\ evidence' \in {evidence, "partial"}
    /\ UNCHANGED <<kernelVars, requested, forwarded, timers, scan, stats, resultVars,
                   flowVars, exitStatus>>

LoopPoll ==
    /\ pc = "poll"
    /\ Poll /\ childCode' = PolledCode
    /\ \/ /\ LeaderExited /\ ~DescendantsRemain
          /\ pc' = "after_loop" /\ UNCHANGED monitorError
       \/ /\ LeaderExited /\ DescendantsRemain /\ timers["termination"] = "off"
          /\ pc' = "after_loop" /\ monitorError' = "outlived"
       \/ /\ LeaderExited => DescendantsRemain /\ timers["termination"] # "off"
          /\ pc' = "deadline" /\ UNCHANGED monitorError
    /\ UNCHANGED <<requested, forwarded, timers, scan, stats, forcedKill, flowVars,
                   evidence, exitStatus>>

(* killpg(SIGKILL) and the first of its two windows. *)
Kill ==
    /\ killed' = (killed \/ GroupExists)
    /\ timers' = [timers EXCEPT !["grace"] = "off", !["kill"] = "running"]
    /\ pc' = "kill_leader"
    /\ UNCHANGED <<member, leaderCode>>

CheckDeadline ==
    /\ pc = "deadline"
    /\ \/ Expired("termination") /\ Kill /\ returnTo' = "after_loop" /\ UNCHANGED scan
       \/ /\ ~Expired("termination")
          /\ scan' = NewScan /\ pc' = "scan"
          /\ UNCHANGED <<kernelVars, timers, returnTo>>
    /\ UNCHANGED <<requested, forwarded, stats, resultVars, raising, evidence, exitStatus>>

\* Mutant of Repoll: every empty sample is an error.
RepollAlarmed ==
    /\ pc = "repoll" /\ pc' = "after_loop"
    /\ Poll /\ childCode' = PolledCode
    /\ monitorError' = "disappeared"
    /\ UNCHANGED <<requested, forwarded, timers, scan, stats, forcedKill, flowVars,
                   evidence, exitStatus>>

(* An empty sample: the group is gone after all, or it is an error. *)
Repoll ==
    /\ pc = "repoll" /\ pc' = "after_loop"
    /\ Poll /\ childCode' = PolledCode
    /\ monitorError' = IF LeaderExited /\ ~DescendantsRemain THEN monitorError
                                                              ELSE "disappeared"
    /\ UNCHANGED <<requested, forwarded, timers, scan, stats, forcedKill, flowVars,
                   evidence, exitStatus>>

-----------------------------------------------------------------------------
(* Bounded termination: SIGTERM, a grace, SIGKILL, two windows. *)

Terminate(next) == Start("grace") /\ pc' = "grace" /\ returnTo' = next

Returns(forced) ==
    /\ Poll
    /\ \/ returnTo = "restored" /\ UNCHANGED <<childCode, forcedKill>>
       \/ returnTo # "restored" /\ childCode' = leaderCode /\ forcedKill' = forced
    /\ pc' = returnTo
    /\ UNCHANGED raising

(* An exception, in a termination too, leads to the except clause once. *)
Raise ==
    /\ raising' = TRUE
    /\ pc' = IF returnTo = "restored" THEN "restored" ELSE "exception"

\* Mutant of GraceLoop: the grace ends with the leader, whatever its descendants do.
GraceLoopOfLeader ==
    /\ pc = "grace"
    /\ \/ ~Expired("grace") /\ LeaderExited /\ Returns(FALSE) /\ Stop("grace")
       \/ Expired("grace") /\ Kill /\ UNCHANGED <<childCode, forcedKill, raising>>
    /\ UNCHANGED <<requested, forwarded, scan, stats, monitorError, returnTo, evidence,
                   exitStatus>>

GraceLoop ==
    /\ pc = "grace"
    /\ \/ /\ ~Expired("grace") /\ LeaderExited /\ ~DescendantsRemain
          /\ Returns(FALSE) /\ Stop("grace")
       \/ Expired("grace") /\ Kill /\ UNCHANGED <<childCode, forcedKill, raising>>
    /\ UNCHANGED <<requested, forwarded, scan, stats, monitorError, returnTo, evidence,
                   exitStatus>>

KillLeader ==
    /\ pc = "kill_leader"
    /\ \/ LeaderExited /\ Poll /\ Start("kill") /\ pc' = "kill_group" /\ UNCHANGED raising
       \/ /\ ~LeaderExited /\ Expired("kill") /\ Raise /\ Stop("kill")
          /\ UNCHANGED kernelVars
    /\ UNCHANGED <<requested, forwarded, scan, stats, resultVars, returnTo, evidence, exitStatus>>

KillGroup ==
    /\ pc = "kill_group"
    /\ \/ ~GroupExists /\ Returns(TRUE)
       \/ /\ GroupExists /\ Expired("kill") /\ Raise
          /\ UNCHANGED <<kernelVars, childCode, forcedKill>>
    /\ Stop("kill")
    /\ UNCHANGED <<requested, forwarded, scan, stats, monitorError, returnTo, evidence, exitStatus>>

(* OSError or ValueError from /proc or the evidence file. *)
IoFails ==
    /\ pc \in {"initial_scan", "scan", "initial_write", "checkpoint", "verdict"}
    /\ Raise /\ scan' = NoScan
    /\ UNCHANGED <<kernelVars, requested, forwarded, timers, stats, resultVars, returnTo,
                   evidence, exitStatus>>

\* Mutant of Except: the except clause only raises again.
ExceptRaises ==
    /\ pc = "exception" /\ pc' = "restored"
    /\ UNCHANGED <<kernelVars, requested, forwarded, timers, scan, stats, resultVars, flowVars,
                   evidence, exitStatus>>

Except ==
    /\ pc = "exception" /\ Poll
    /\ \/ LeaderExited /\ ~DescendantsRemain /\ pc' = "restored" /\ UNCHANGED <<timers, returnTo>>
       \/ (~LeaderExited \/ DescendantsRemain) /\ Terminate("restored")
    /\ UNCHANGED <<requested, forwarded, scan, stats, resultVars, raising, evidence, exitStatus>>

-----------------------------------------------------------------------------
(* After the loop. *)

AfterLoop ==
    /\ pc = "after_loop" /\ Poll
    /\ \/ /\ monitorError # "none" /\ (~LeaderExited \/ DescendantsRemain)
          /\ Terminate("remains")
          /\ UNCHANGED childCode
       \/ /\ monitorError = "none" \/ (LeaderExited /\ ~DescendantsRemain)
          /\ childCode' = IF childCode = "none" THEN leaderCode ELSE childCode
          /\ pc' = "remains"
          /\ UNCHANGED <<timers, returnTo>>
    /\ UNCHANGED <<requested, forwarded, scan, stats, monitorError, forcedKill, raising,
                   evidence, exitStatus>>

Remains ==
    /\ pc = "remains"
    /\ IF GroupExists
       THEN Terminate("verdict") /\ monitorError' = "remained"
       ELSE pc' = "verdict" /\ UNCHANGED <<timers, returnTo, monitorError>>
    /\ UNCHANGED <<kernelVars, requested, forwarded, scan, stats, childCode, forcedKill,
                   raising, evidence, exitStatus>>

(* A success must be proved by the samples; then the final evidence. *)
Verdict ==
    /\ pc = "verdict" /\ pc' = "restored"
    /\ monitorError' =
          IF childCode = "zero" /\ ~(stats.samples >= MinSamples /\ stats.leader /\ stats.compiler)
          THEN "unproven" ELSE monitorError
    /\ evidence' = IF monitorError' = "none" THEN "complete" ELSE "partial"
    /\ UNCHANGED <<kernelVars, requested, forwarded, timers, scan, stats, childCode,
                   forcedKill, flowVars, exitStatus>>

Exit ==
    /\ pc = "restored" /\ pc' = "exited"
    /\ exitStatus' = IF raising \/ monitorError # "none" THEN "nonzero" ELSE childCode
    /\ UNCHANGED <<kernelVars, requested, forwarded, timers, scan, stats, resultVars,
                   flowVars, evidence>>

SupervisorStep ==
    \/ InstallHandlers \/ Popen \/ CheckSignal \/ (\E p \in Members : ReadProcess(p))
    \/ EndScan \/ InitialPoll \/ InitialWrite \/ Checkpoint \/ LoopPoll \/ CheckDeadline
    \/ Repoll \/ GraceLoop \/ KillLeader \/ KillGroup \/ IoFails \/ Except \/ AfterLoop
    \/ Remains \/ Verdict \/ Exit

Death(p) == killed /\ IF p = Leader THEN LeaderExits("nonzero") ELSE DescendantExits(p)

Environment ==
    \/ \E d \in Descendants : Fork(d) \/ DescendantExits(d) \/ DescendantReaped(d)
    \/ \E code \in {"zero", "nonzero"} : LeaderExits(code)
    \/ \E t \in DOMAIN timers : TimeoutExpires(t)

SupervisorNext ==
    \/ Launch \/ SupervisorStep \/ Environment
    \/ \E s \in Signals : DirectSignal(s)

SupervisorSpec == Init /\ [][SupervisorNext]_vars

-----------------------------------------------------------------------------
(* Properties. *)

(* The variables keep the types that supervise_process_group_rss gives them. *)
TypeOK ==
    /\ member \in [Members -> {"absent", "running", "zombie", "gone"}]
    /\ leaderCode \in Codes /\ killed \in BOOLEAN
    /\ pc \in Starting \union Handling \union Leaving
    /\ requested \in Signals \union {"none"} /\ forwarded \in {"none", requested}
    /\ timers \in [{"initial", "termination", "grace", "kill"} -> {"off", "running", "expired"}]
    /\ scan \in [unread : SUBSET Members, seen : SUBSET Members,
                 resident : BOOLEAN, compiler : BOOLEAN]
    /\ stats \in [samples : 0 .. MinSamples, leader : BOOLEAN, compiler : BOOLEAN,
                  several : BOOLEAN]
    /\ monitorError \in {"none", "unsampled", "unobservable", "outlived", "disappeared",
                         "remained", "unproven"}
    /\ childCode \in Codes /\ forcedKill \in BOOLEAN
    /\ returnTo \in {"none", "after_loop", "remains", "verdict", "restored"}
    /\ raising \in BOOLEAN /\ evidence \in {"none", "partial", "complete"}
    /\ exitStatus \in Codes

(* A supervisor that is gone leaves no process of the build behind, whatever *)
(* failed on the way, except one that has been sent SIGKILL and outlasted    *)
(* both windows, or both rounds of them.                                     *)
NoStrays == pc = "exited" => killed \/ \A p \in Members : ~Running(p)

(* A supervisor that ends has a status (the assertion before its return),    *)
(* and status 0 means all of it: the command succeeded, its whole group is   *)
(* gone, two samples showed the leader and a compiler, and the file says so. *)
StatusIsHonest ==
    pc = "exited" =>
        /\ exitStatus # "none"
        /\ exitStatus = "zero" =>
              /\ leaderCode = "zero" /\ ~GroupExists /\ evidence = "complete"
              /\ stats.samples >= MinSamples /\ stats.leader /\ stats.compiler

(* Complete evidence is about a finished build: no exception is underway,    *)
(* nothing of the group exists and the recorded exit status is the leader's. *)
CompleteIsFinal ==
    evidence = "complete" =>
        /\ ~raising /\ ~GroupExists
        /\ childCode = leaderCode /\ leaderCode # "none"

(* What the supervisor says of a build, by its status or in the file, is so. *)
VerdictIsHonest == StatusIsHonest /\ CompleteIsFinal

(* The group is never reported as outliving its leader or as having vanished *)
(* from /proc because of the races between poll, killpg and the scan: when   *)
(* the verdict falls the leader has exited and a descendant remains.         *)
NoFalseAlarm ==
    [][monitorError' # monitorError
       /\ monitorError' \in {"unobservable", "outlived", "disappeared", "remained"}
       => LeaderExited /\ DescendantsRemain]_vars

=============================================================================
