----------------------------- MODULE RunpodJob -----------------------------
(***************************************************************************)
(* run_job of tools/runpod_job.py: one paid job on ephemeral Runpod Pods.   *)
(*                                                                          *)
(* Three parties act: the runner (the Python process on the CI machine),    *)
(* the platform (which creates, boots and deletes Pods) and, on a CPU Pod,  *)
(* the self-termination watchdog its entrypoint starts.  The runner's       *)
(* program counter pc names the call or the sleep it is blocked in; such an *)
(* operation was entered with a timeout and is over at opEnd at the latest. *)
(* Time is a discrete clock, started with the Deadline.  What the runner    *)
(* computes between two blocking operations takes no time.                  *)
(***************************************************************************)
EXTENDS PodAssignment, Sequences, FiniteSets

CONSTANTS
    Pods,              \* the Pods the platform may create in this run
    GpuIds,            \* the gpuIds Runpod knows
    Candidates,        \* gpu_id_candidates, in priority order (<<None>> for CPU)
    DetailsSet,        \* the assignments the REST API may report
    NCommands,         \* Len(commands)
    WantArtifacts,     \* artifact_paths is not empty
    HardTimeout,       \* hard_timeout_seconds
    TerminateGrace,    \* terminate_grace_seconds
    MinSelfTerminate,  \* 600: what create_pod accepts ...
    MaxSelfTerminate,  \* 21600: ... as self_terminate_seconds
    PlacementRounds,   \* GPU_PLACEMENT_ROUNDS
    BackoffSeconds,    \* GPU_PLACEMENT_BACKOFF_SECONDS
    PollSeconds,       \* poll_seconds
    CallCap,           \* deadline.timeout(15 .. 120): auth, create, poll, probe, verify, mkdir
    TransferCap,       \* deadline.timeout(300 .. 900): scp, untar, tar
    RmCap,             \* the 30 s cap of the remote rm
    RestSlack,         \* how far a REST call may overrun its per-socket timeout
    DeleteAttempts,    \* 3 attempts of _terminate_strictly ...
    DeleteTimeout,     \* ... of 20 s each ...
    DeletePause,       \* ... and 2 s between them
    WatchdogPause,     \* 30 s between the watchdog's attempts
    MaxSignals,        \* bound on the SIGINT/SIGTERM that arrive
    MaxTime            \* bound on the clock

ASSUME CandidatesAssumption ==
    /\ None \notin GpuIds
    /\ Candidates # << >>
    /\ IF IsGpu THEN Candidates \in Seq(GpuIds) ELSE Candidates = <<None>>
    /\ \A i, j \in DOMAIN Candidates : Candidates[i] = Candidates[j] => i = j

ASSUME PodsAssumption == None \notin Pods

\* The numeric fields of every response are what PodAssignment reads them as.
ASSUME DetailsAssumption ==
    \A d \in DetailsSet :
        /\ {d.vcpuCount, d.memoryInGb, d.containerDiskInGb, d.volumeInGb}
             \subseteq [finite : BOOLEAN, milli : Int]
        /\ d.gpuTypeIds \subseteq GpuIds

ASSUME TimeAssumption ==
    /\ HardTimeout \in Nat \ {0}
    /\ TerminateGrace \in Nat
    /\ MinSelfTerminate \in Nat /\ MaxSelfTerminate \in Nat
    /\ BackoffSeconds \in Nat \ {0} /\ PollSeconds \in Nat \ {0}
    /\ CallCap \in Nat \ {0} /\ TransferCap \in Nat \ {0} /\ RmCap \in Nat \ {0}
    /\ RestSlack \in Nat
    /\ DeleteTimeout \in Nat \ {0} /\ DeletePause \in Nat /\ WatchdogPause \in Nat
    /\ MaxTime \in Nat

ASSUME CountAssumption ==
    /\ PlacementRounds \in Nat \ {0}
    /\ DeleteAttempts \in Nat \ {0}
    /\ NCommands \in Nat \ {0}
    /\ MaxSignals \in Nat
    /\ WantArtifacts \in BOOLEAN

VARIABLES
    pc,              \* what the runner is blocked in, or how the run ended
    opEnd,           \* when that operation has returned at the latest
    now,             \* seconds since the Deadline was created
    terminateAfter,  \* terminate_after, passed to every create of a GPU Pod
    round,           \* round_number
    cand,            \* candidate_number
    capacityOnly,    \* round_only_capacity_failures
    failures,        \* placement_failures
    podId,           \* pod_id
    endpoint,        \* endpoint, identified with the Pod it reaches
    selected,        \* selected_gpu_id
    assignment,      \* verified_build_assignment
    uploaded,        \* repo_uploaded
    cmd,             \* how many commands have completed
    primary,         \* primary_error
    artifact,        \* artifact_error
    cleanupError,    \* cleanup_error is not None
    attempt,         \* the attempt of _terminate_strictly under way
    retrieved,       \* the artifacts were extracted into artifact_output
    signals,         \* how many signals arrived
    podState,        \* the platform's view of every Pod
    details,         \* the assignment of every Pod
    orphans,         \* Pods created by a call whose reply never arrived
    wdLeft,          \* attempts a CPU Pod's watchdog has left, 0 if none runs
    wdAt             \* when that watchdog makes its next attempt

placement == <<round, cand, capacityOnly, failures>>
lease     == <<podId, endpoint, selected, assignment>>
progress  == <<uploaded, cmd, retrieved>>
errors    == <<artifact, cleanupError>>
podVars   == <<podState, details, orphans, wdLeft, wdAt>>
runner    == <<pc, opEnd, terminateAfter, placement, lease, progress, primary,
               errors, attempt>>
vars      == <<runner, now, signals, podVars>>

-----------------------------------------------------------------------------
(* Where the runner can be.                                                 *)

PlacingPcs  == {"auth", "create", "backoff"}
WaitingPcs  == {"poll", "probe", "pollPause", "verify"}
RejectPcs   == {"reject", "rejectPause"}
WorkPcs     == {"mkdir", "put", "untar", "command"}
TryPcs      == PlacingPcs \cup WaitingPcs \cup RejectPcs \cup WorkPcs
DownloadPcs == {"tar", "get", "rmtar"}
CleanupPcs  == {"cleanup", "cleanupPause"}
ActivePcs   == TryPcs \cup {"finally"} \cup DownloadPcs \cup CleanupPcs
EndPcs      == {"returned", "escaped", "lost"}

\* Calls of the try body that fail by raising an exception.
FailingCalls == {"auth", "create", "poll", "probe", "verify"} \cup WorkPcs

Active == pc \in ActivePcs

Live(p) == podState[p] \notin {"none", "gone"}

LivePods == {p \in Pods : Live(p)}

MinOf(a, b) == IF a <= b THEN a ELSE b

\* Deadline.seconds_left().
SecondsLeft == IF now < HardTimeout THEN HardTimeout - now ELSE 0

Enter(p, until) == pc' = p /\ opEnd' = until

\* An exception leaves the try body: except Exception, then finally.
Raise(error) == primary' = error /\ Enter("finally", now)

\* Mutant of Call: the cap is not cut at the deadline.
CallUncut(p, cap, slack) ==
    IF SecondsLeft > 0
    THEN Enter(p, now + cap + slack) /\ UNCHANGED primary
    ELSE Raise("JobTimeout")

\* Enter p with deadline.timeout(cap), which raises JobTimeout at the deadline.
\* (Its floor of 0.1 s is below the unit of the clock.)
Call(p, cap, slack) ==
    IF SecondsLeft > 0
    THEN Enter(p, now + MinOf(SecondsLeft, cap) + slack) /\ UNCHANGED primary
    ELSE Raise("JobTimeout")

\* Mutant of SelfTerminateSeconds: no grace for the cleanup.
SelfTerminateAtDeadline == HardTimeout

SelfTerminateSeconds == HardTimeout + TerminateGrace

\* Runpodctl.create_pod up to the request: a REST call for a CPU Pod only.
StartCreate ==
    IF \/ SecondsLeft = 0
       \/ SelfTerminateSeconds \in MinSelfTerminate .. MaxSelfTerminate
    THEN Call("create", CallCap, IF IsGpu THEN 0 ELSE RestSlack)
    ELSE Raise("ValueError")

\* _terminate_strictly: one more attempt.
StartDelete(p, n) == Enter(p, now + DeleteTimeout) /\ attempt' = n

\* The end of run_job: a debug artifact missing after a failure is no error.
Return ==
    /\ Enter("returned", now)
    /\ artifact' = IF primary # None /\ artifact = "missing" THEN None ELSE artifact

-----------------------------------------------------------------------------
Init ==
    /\ pc = "auth"
    /\ opEnd = MinOf(HardTimeout, CallCap)
    /\ now = 0
    /\ terminateAfter = 0
    /\ round = 1 /\ cand = 1 /\ capacityOnly = TRUE /\ failures = << >>
    /\ podId = None /\ endpoint = None /\ selected = None /\ assignment = None
    /\ uploaded = FALSE /\ cmd = 0 /\ retrieved = FALSE
    /\ primary = None /\ artifact = None /\ cleanupError = FALSE
    /\ attempt = 0
    /\ signals = 0
    /\ podState = [p \in Pods |-> "none"]
    /\ details = [p \in Pods |-> None]
    /\ orphans = {}
    /\ wdLeft = [p \in Pods |-> 0]
    /\ wdAt = [p \in Pods |-> 0]

-----------------------------------------------------------------------------
(* Placement: creating a Pod, waiting for SSH, verifying the assignment.    *)

CheckAuth ==
    /\ pc = "auth"
    /\ terminateAfter' = now + SelfTerminateSeconds
    /\ StartCreate
    /\ UNCHANGED <<now, signals, podVars, placement, lease, progress, errors, attempt>>

\* The platform creates Pod p with the assignment d.
Created(p, d) ==
    /\ podState[p] = "none"
    /\ podState' = [podState EXCEPT ![p] = "starting"]
    /\ details' = [details EXCEPT ![p] = d]
    /\ UNCHANGED <<wdLeft, wdAt>>

CreateSucceeds(p, d) ==
    /\ pc = "create"
    /\ Created(p, d)
    /\ podId' = p
    /\ Call("poll", CallCap, 0)
    /\ UNCHANGED <<terminateAfter, now, signals, orphans, placement, endpoint,
                   selected, assignment, progress, errors, attempt>>

\* The Pod exists, but the call timed out or its reply could not be read.
CreateLosesReply(p, d) ==
    /\ pc = "create"
    /\ Created(p, d)
    /\ orphans' = orphans \cup {p}
    /\ Raise("JobError")
    /\ UNCHANGED <<terminateAfter, now, signals, placement, lease, progress,
                   errors, attempt>>

\* Mutant of NextCandidate: one candidate too many.
NextCandidateOffByOne(onlyCapacity) ==
    IF cand <= Len(Candidates)
    THEN cand' = cand + 1 /\ capacityOnly' = onlyCapacity /\ StartCreate /\ UNCHANGED round
    ELSE capacityOnly' = onlyCapacity /\ Raise("JobError") /\ UNCHANGED <<round, cand>>

\* A placement failure was recorded: the next candidate, the next round or
\* the end of placement.
NextCandidate(onlyCapacity) ==
    IF cand < Len(Candidates)
    THEN /\ cand' = cand + 1
         /\ capacityOnly' = onlyCapacity
         /\ StartCreate
         /\ UNCHANGED round
    ELSE IF onlyCapacity /\ round < PlacementRounds
         THEN /\ round' = round + 1
              /\ cand' = 1
              /\ capacityOnly' = TRUE
              /\ Call("backoff", BackoffSeconds, 0)
         ELSE /\ capacityOnly' = onlyCapacity
              /\ Raise("JobError")
              /\ UNCHANGED <<round, cand>>

\* Mutant of OperationFails: a failed upload falls back to the next candidate.
UploadFailsOver ==
    /\ pc \in FailingCalls
    /\ IF pc = "put" /\ IsGpu
       THEN podId' = None /\ endpoint' = None /\ NextCandidate(FALSE)
       ELSE Raise("JobError") /\ UNCHANGED <<podId, endpoint, round, cand, capacityOnly>>
    /\ UNCHANGED <<terminateAfter, now, signals, podVars, failures, selected,
                   assignment, progress, errors, attempt>>

\* Any call of the try body may fail without an effect, or time out.  For
\* "mkdir" this includes the local archive that cannot be made.
OperationFails ==
    /\ pc \in FailingCalls
    /\ Raise("JobError")
    /\ UNCHANGED <<terminateAfter, now, signals, podVars, placement, lease,
                   progress, errors, attempt>>

PlacementFailure(kind) ==
    failures' = Append(failures, [round |-> round, cand |-> cand, kind |-> kind])

\* CapacityUnavailableError: no Pod was created.
CreateNoCapacity ==
    /\ pc = "create"
    /\ IsGpu
    /\ PlacementFailure("capacity")
    /\ NextCandidate(capacityOnly)
    /\ UNCHANGED <<terminateAfter, now, signals, podVars, lease, progress, errors, attempt>>

\* wait_for_ssh: pod_details reports an endpoint, or none yet.  A terminal
\* status raises: OperationFails.
PollEndpoint ==
    /\ pc = "poll"
    /\ podState[podId] # "gone"
    /\ Call("probe", CallCap, 0)
    /\ UNCHANGED <<terminateAfter, now, signals, podVars, placement, lease,
                   progress, errors, attempt>>

NotReady ==
    /\ pc \in {"poll", "probe"}
    /\ pc = "poll" => podState[podId] # "gone"
    /\ Call("pollPause", PollSeconds, 0)
    /\ UNCHANGED <<terminateAfter, now, signals, podVars, placement, lease,
                   progress, errors, attempt>>

\* The Pod's sshd accepts the key; the REST request of the verification starts.
ProbeReady ==
    /\ pc = "probe"
    /\ podState[podId] = "running"
    /\ endpoint' = podId
    /\ Call("verify", CallCap, RestSlack)
    /\ UNCHANGED <<terminateAfter, now, signals, podVars, placement, podId,
                   selected, assignment, progress, errors, attempt>>

\* Mutant of Verdict: verifies spec.pod instead of the candidate's request.
VerdictForFirst == VerifyPodAssignment(details[podId], Candidates[1])

Verdict == VerifyPodAssignment(details[podId], Candidates[cand])

VerifyAccepts ==
    /\ pc = "verify"
    /\ podState[podId] # "gone"
    /\ Verdict = "verified"
    /\ selected' = Candidates[cand]
    /\ assignment' = VerifiedBuildAssignment(details[podId])
    /\ Call("mkdir", CallCap, 0)
    /\ UNCHANGED <<terminateAfter, now, signals, podVars, placement, podId,
                   endpoint, progress, errors, attempt>>

\* Mutant of VerifyRejects: a mismatch counts as a lack of capacity.
RejectsAsCapacity ==
    /\ pc = "verify"
    /\ podState[podId] # "gone"
    /\ Verdict = "GpuPlacementError"
    /\ PlacementFailure("rejected")
    /\ StartDelete("reject", 1)
    /\ UNCHANGED <<terminateAfter, now, signals, podVars, round, cand, capacityOnly,
                   lease, progress, primary, errors>>

\* Mutant of VerifyRejects: the next candidate before the rejected Pod is deleted.
RejectsWithoutDelete ==
    /\ pc = "verify"
    /\ podState[podId] # "gone"
    /\ Verdict = "GpuPlacementError"
    /\ PlacementFailure("rejected")
    /\ podId' = None
    /\ endpoint' = None
    /\ NextCandidate(FALSE)
    /\ UNCHANGED <<terminateAfter, now, signals, podVars, selected, assignment,
                   progress, errors, attempt>>

\* GpuPlacementError: the rejected Pod is deleted before any fallback.
VerifyRejects ==
    /\ pc = "verify"
    /\ podState[podId] # "gone"
    /\ Verdict = "GpuPlacementError"
    /\ capacityOnly' = FALSE
    /\ PlacementFailure("rejected")
    /\ StartDelete("reject", 1)
    /\ UNCHANGED <<terminateAfter, now, signals, podVars, round, cand, lease,
                   progress, primary, errors>>

VerifyRefuses ==
    /\ pc = "verify"
    /\ podState[podId] # "gone"
    /\ Verdict = "JobError"
    /\ Raise("JobError")
    /\ UNCHANGED <<terminateAfter, now, signals, podVars, placement, lease,
                   progress, errors, attempt>>

\* The sleeps of wait_for_ssh and of the second placement round.
PauseEnds ==
    /\ now = opEnd
    /\ \/ pc = "pollPause" /\ Call("poll", CallCap, 0)
       \/ pc = "backoff" /\ StartCreate
    /\ UNCHANGED <<terminateAfter, now, signals, podVars, placement, lease,
                   progress, errors, attempt>>

-----------------------------------------------------------------------------
(* The work: upload_repo, the commands, download_artifacts.                 *)

RemoteSucceeds(p) == pc = p /\ podState[endpoint] = "running"

MkdirDone ==
    /\ RemoteSucceeds("mkdir")
    /\ Call("put", TransferCap, 0)
    /\ UNCHANGED <<terminateAfter, now, signals, podVars, placement, lease,
                   progress, errors, attempt>>

PutDone ==
    /\ RemoteSucceeds("put")
    /\ Call("untar", TransferCap, 0)
    /\ UNCHANGED <<terminateAfter, now, signals, podVars, placement, lease,
                   progress, errors, attempt>>

UntarDone ==
    /\ RemoteSucceeds("untar")
    /\ uploaded' = TRUE
    /\ Call("command", HardTimeout, 0)
    /\ UNCHANGED <<terminateAfter, now, signals, podVars, placement, lease,
                   cmd, retrieved, errors, attempt>>

CommandDone ==
    /\ RemoteSucceeds("command")
    /\ cmd' = cmd + 1
    /\ IF cmd + 1 < NCommands
       THEN Call("command", HardTimeout, 0)
       ELSE Enter("finally", now) /\ UNCHANGED primary
    /\ UNCHANGED <<terminateAfter, now, signals, podVars, placement, lease,
                   uploaded, retrieved, errors, attempt>>

\* The last statements of the finally block: delete the Pod if there is one.
StartCleanup ==
    IF podId # None
    THEN StartDelete("cleanup", 1) /\ UNCHANGED artifact
    ELSE Return /\ UNCHANGED attempt

WorthDownloading == endpoint # None /\ uploaded /\ WantArtifacts /\ SecondsLeft > 1

Finally ==
    /\ pc = "finally"
    /\ IF WorthDownloading
       THEN /\ Enter("tar", now + MinOf(SecondsLeft, TransferCap))
            /\ UNCHANGED <<artifact, attempt>>
       ELSE StartCleanup
    /\ UNCHANGED <<terminateAfter, now, signals, podVars, placement, lease,
                   progress, primary, cleanupError>>

\* The remote rm in the inner finally of download_artifacts.
StartRm ==
    Enter("rmtar", now + MinOf(RmCap, IF SecondsLeft > 1 THEN SecondsLeft ELSE 1))

TarDone ==
    /\ RemoteSucceeds("tar")
    /\ IF SecondsLeft > 0
       THEN /\ Enter("get", now + MinOf(SecondsLeft, TransferCap))
            /\ UNCHANGED artifact
       ELSE StartRm /\ artifact' = "JobTimeout"
    /\ UNCHANGED <<terminateAfter, now, signals, podVars, placement, lease,
                   progress, primary, cleanupError, attempt>>

TarFails(error) ==
    /\ pc = "tar"
    /\ error = "missing" => podState[endpoint] = "running"
    /\ artifact' = error
    /\ StartDelete("cleanup", 1)
    /\ UNCHANGED <<terminateAfter, now, signals, podVars, placement, lease,
                   progress, primary, cleanupError>>

GetDone ==
    /\ RemoteSucceeds("get")
    /\ retrieved' = TRUE
    /\ StartRm
    /\ UNCHANGED <<terminateAfter, now, signals, podVars, placement, lease,
                   uploaded, cmd, primary, errors, attempt>>

\* scp fails, or _safe_extract refuses a member of the archive.
GetFails ==
    /\ pc = "get"
    /\ artifact' = "JobError"
    /\ StartRm
    /\ UNCHANGED <<terminateAfter, now, signals, podVars, placement, lease,
                   progress, primary, cleanupError, attempt>>

\* The result of rm is not looked at (check=False, except JobError: pass).
RmDone ==
    /\ pc = "rmtar"
    /\ StartCleanup
    /\ UNCHANGED <<terminateAfter, now, signals, podVars, placement, lease,
                   progress, primary, cleanupError>>

-----------------------------------------------------------------------------
(* _terminate_strictly, for a rejected Pod and in the finally block.        *)

Deleted(p) == podState' = [podState EXCEPT ![p] = "gone"]

RejectDeleted ==
    /\ pc = "reject"
    /\ Deleted(podId)
    /\ podId' = None
    /\ endpoint' = None
    /\ NextCandidate(capacityOnly)
    /\ UNCHANGED <<terminateAfter, now, signals, details, orphans, wdLeft, wdAt,
                   failures, selected, assignment, progress, errors, attempt>>

CleanupDeleted ==
    /\ pc = "cleanup"
    /\ Deleted(podId)
    /\ Return
    /\ UNCHANGED <<terminateAfter, now, signals, details, orphans, wdLeft, wdAt,
                   placement, lease, progress, primary, cleanupError, attempt>>

\* An attempt that reports a failure may have deleted the Pod all the same.
DeleteEffectUnknown == Deleted(podId) \/ UNCHANGED podState

\* Mutant of RejectFails: falls back although the Pod may still exist.
RejectFailsOver ==
    /\ pc = "reject"
    /\ DeleteEffectUnknown
    /\ podId' = None
    /\ endpoint' = None
    /\ NextCandidate(capacityOnly)
    /\ UNCHANGED <<terminateAfter, now, signals, details, orphans, wdLeft, wdAt,
                   failures, selected, assignment, progress, errors, attempt>>

\* A rejected Pod that could not be deleted forbids any fallback.
RejectFails ==
    /\ pc = "reject"
    /\ DeleteEffectUnknown
    /\ IF attempt < DeleteAttempts
       THEN Enter("rejectPause", now + DeletePause) /\ UNCHANGED primary
       ELSE Raise("JobError")
    /\ UNCHANGED <<terminateAfter, now, signals, details, orphans, wdLeft, wdAt,
                   placement, lease, progress, errors, attempt>>

\* Mutant of CleanupFails: the last error is not returned.
CleanupFailsSilently ==
    /\ pc = "cleanup"
    /\ DeleteEffectUnknown
    /\ IF attempt < DeleteAttempts
       THEN Enter("cleanupPause", now + DeletePause) /\ UNCHANGED artifact
       ELSE Return
    /\ UNCHANGED <<terminateAfter, now, signals, details, orphans, wdLeft, wdAt,
                   placement, lease, progress, primary, cleanupError, attempt>>

CleanupFails ==
    /\ pc = "cleanup"
    /\ DeleteEffectUnknown
    /\ IF attempt < DeleteAttempts
       THEN Enter("cleanupPause", now + DeletePause) /\ UNCHANGED errors
       ELSE Return /\ cleanupError' = TRUE
    /\ UNCHANGED <<terminateAfter, now, signals, details, orphans, wdLeft, wdAt,
                   placement, lease, progress, primary, attempt>>

\* Mutant of DeleteAgain: attempts are not counted.
DeleteForever ==
    /\ now = opEnd
    /\ \/ pc = "rejectPause" /\ StartDelete("reject", attempt)
       \/ pc = "cleanupPause" /\ StartDelete("cleanup", attempt)
    /\ UNCHANGED <<terminateAfter, now, signals, podVars, placement, lease,
                   progress, primary, errors>>

DeleteAgain ==
    /\ now = opEnd
    /\ \/ pc = "rejectPause" /\ StartDelete("reject", attempt + 1)
       \/ pc = "cleanupPause" /\ StartDelete("cleanup", attempt + 1)
    /\ UNCHANGED <<terminateAfter, now, signals, podVars, placement, lease,
                   progress, primary, errors>>

-----------------------------------------------------------------------------
(* Signals: request_shutdown raises JobError wherever the main thread is.   *)

\* In the try body the exception is the primary error; a create interrupted
\* after its request was sent leaves a Pod whose id is unknown.
SignalInTry ==
    /\ pc \in TryPcs \ {"reject"}
    /\ Raise("signal")
    /\ \/ UNCHANGED podVars
       \/ /\ pc = "create"
          /\ \E p \in Pods, d \in DetailsSet : Created(p, d) /\ orphans' = orphans \cup {p}
    /\ UNCHANGED <<terminateAfter, placement, lease, progress, errors, attempt>>

\* Inside an attempt the handler's exception is one more failed attempt.
SignalInDelete ==
    /\ pc \in {"reject", "cleanup"}
    /\ DeleteEffectUnknown
    /\ \/ /\ attempt < DeleteAttempts
          /\ Enter(IF pc = "reject" THEN "rejectPause" ELSE "cleanupPause",
                   now + DeletePause)
          /\ UNCHANGED <<primary, errors>>
       \/ /\ attempt = DeleteAttempts /\ pc = "reject"
          /\ Raise("JobError")
          /\ UNCHANGED errors
       \/ /\ attempt = DeleteAttempts /\ pc = "cleanup"
          /\ Return
          /\ cleanupError' = TRUE
          /\ UNCHANGED primary
    /\ UNCHANGED <<terminateAfter, details, orphans, wdLeft, wdAt, placement,
                   lease, progress, attempt>>

SignalInDownload ==
    /\ \/ /\ pc = "tar"
          /\ artifact' = "signal"
          /\ StartDelete("cleanup", 1)
       \/ pc = "get" /\ artifact' = "signal" /\ StartRm /\ UNCHANGED attempt
       \/ pc = "rmtar" /\ StartCleanup
    /\ UNCHANGED <<terminateAfter, podVars, placement, lease, progress, primary,
                   cleanupError>>

\* Nothing catches it at the start of the finally block or in the sleep
\* between two attempts: it leaves run_job.
SignalInFinally ==
    /\ pc \in {"finally", "cleanupPause"}
    /\ Enter("escaped", now)
    /\ UNCHANGED <<terminateAfter, podVars, placement, lease, progress, primary,
                   errors, attempt>>

Signal ==
    /\ signals < MaxSignals
    /\ signals' = signals + 1
    /\ SignalInTry \/ SignalInDelete \/ SignalInDownload \/ SignalInFinally
    /\ UNCHANGED now

\* The CI machine disappears, or the process is killed.
RunnerLost ==
    /\ Active
    /\ Enter("lost", now)
    /\ UNCHANGED <<now, signals, podVars, terminateAfter, placement, lease,
                   progress, primary, errors, attempt>>

-----------------------------------------------------------------------------
(* The platform and the Pods.                                               *)

\* start_self_termination_watchdog of the entrypoint, which returns at once
\* unless the environment asks for a watchdog (_create_cpu_pod_rest does).
StartWatchdog(p) ==
    /\ ~IsGpu
    /\ podState[p] = "starting"
    /\ podState' = [podState EXCEPT ![p] = "armed"]
    /\ wdLeft' = [wdLeft EXCEPT ![p] = 3]
    /\ wdAt' = [wdAt EXCEPT ![p] = now + SelfTerminateSeconds]
    /\ UNCHANGED <<runner, now, signals, details, orphans>>

\* Mutant of StartSshd: sshd does not wait for the watchdog.
StartSshdAtOnce(p) ==
    /\ podState[p] \in {"starting", "armed"}
    /\ podState' = [podState EXCEPT ![p] = "running"]
    /\ UNCHANGED <<runner, now, signals, details, orphans, wdLeft, wdAt>>

\* The entrypoint's last step: from here on the Pod can be reached.
StartSshd(p) ==
    /\ podState[p] = IF IsGpu THEN "starting" ELSE "armed"
    /\ podState' = [podState EXCEPT ![p] = "running"]
    /\ UNCHANGED <<runner, now, signals, details, orphans, wdLeft, wdAt>>

\* The container ends (an entrypoint check fails, a crash) and the watchdog
\* with it; the Pod itself stays until it is deleted.
ContainerExit(p) ==
    /\ podState[p] \in {"starting", "armed", "running"}
    /\ podState' = [podState EXCEPT ![p] = "exited"]
    /\ wdLeft' = [wdLeft EXCEPT ![p] = 0]
    /\ UNCHANGED <<runner, now, signals, details, orphans, wdAt>>

\* --terminate-after, which only GPU Pods are created with.
\* Mutant of TerminationDue: only build Pods are created with --terminate-after.
TerminationDueForBuilds(p) == Mode = "GPU_BUILD" /\ Live(p) /\ now >= terminateAfter

TerminationDue(p) == IsGpu /\ Live(p) /\ now >= terminateAfter

PlatformTerminate(p) ==
    /\ TerminationDue(p)
    /\ Deleted(p)
    /\ UNCHANGED <<runner, now, signals, details, orphans, wdLeft, wdAt>>

\* The states of a Pod whose entrypoint is past the watchdog.
Booted == {"armed", "running"}

WatchdogDue(p) == podState[p] \in Booted /\ wdLeft[p] > 0 /\ now >= wdAt[p]

WatchdogDeletes(p) ==
    /\ WatchdogDue(p)
    /\ Deleted(p)
    /\ UNCHANGED <<runner, now, signals, details, orphans, wdLeft, wdAt>>

WatchdogFails(p) ==
    /\ WatchdogDue(p)
    /\ wdLeft' = [wdLeft EXCEPT ![p] = @ - 1]
    /\ wdAt' = [wdAt EXCEPT ![p] = now + WatchdogPause]
    /\ UNCHANGED <<runner, now, signals, podState, details, orphans>>

\* Time passes while the runner is blocked, and after it has ended.
Tick ==
    /\ now < MaxTime
    /\ Active => now < opEnd
    /\ now' = now + 1
    /\ UNCHANGED <<runner, signals, podVars>>

\* The end of a behaviour, at the bound of the clock.
Terminated ==
    /\ ~Active
    /\ now = MaxTime
    /\ UNCHANGED vars

-----------------------------------------------------------------------------
\* The steps the runner takes by itself.
JobStep ==
    \/ CheckAuth
    \/ OperationFails
    \/ \E p \in Pods, d \in DetailsSet : CreateSucceeds(p, d)
    \/ \E p \in Pods, d \in DetailsSet : CreateLosesReply(p, d)
    \/ CreateNoCapacity
    \/ PollEndpoint
    \/ NotReady
    \/ ProbeReady
    \/ VerifyAccepts
    \/ VerifyRejects
    \/ VerifyRefuses
    \/ PauseEnds
    \/ MkdirDone
    \/ PutDone
    \/ UntarDone
    \/ CommandDone
    \/ Finally
    \/ TarDone
    \/ \E error \in {"missing", "JobError"} : TarFails(error)
    \/ GetDone
    \/ GetFails
    \/ RmDone
    \/ RejectDeleted
    \/ CleanupDeleted
    \/ RejectFails
    \/ CleanupFails
    \/ DeleteAgain

PodStep(p) ==
    \/ StartWatchdog(p)
    \/ StartSshd(p)
    \/ ContainerExit(p)
    \/ PlatformTerminate(p)
    \/ WatchdogDeletes(p)
    \/ WatchdogFails(p)

Next ==
    \/ JobStep
    \/ Signal
    \/ RunnerLost
    \/ \E p \in Pods : PodStep(p)
    \/ Tick
    \/ Terminated

Spec == Init /\ [][Next]_vars

\* Time passes, the runner is scheduled, and the platform enforces
\* --terminate-after.
Fairness ==
    /\ WF_vars(Tick)
    /\ WF_vars(JobStep)
    /\ \A p \in Pods : WF_vars(PlatformTerminate(p))

FairSpec == Spec /\ Fairness

-----------------------------------------------------------------------------
(* Correctness.                                                             *)

Errors == {"JobError", "JobTimeout", "ValueError", "missing", "signal"}

ASSUME ErrorsAssumption == None \notin Errors

PodStates == {"none", "starting", "armed", "running", "exited", "gone"}

Failure == [round : Nat, cand : Nat, kind : {"capacity", "rejected"}]

\* Every variable has the type its Python name, or the platform, gives it.
TypeOK ==
    /\ pc \in ActivePcs \cup EndPcs
    /\ opEnd \in Nat /\ now \in Nat /\ terminateAfter \in Nat
    /\ round \in 1 .. PlacementRounds /\ cand \in 1 .. Len(Candidates)
    /\ capacityOnly \in BOOLEAN
    /\ failures \in Seq(Failure)
    /\ podId \in Pods \cup {None} /\ endpoint \in {podId, None}
    /\ selected \in GpuIds \cup {None}
    /\ assignment \in Assignments \cup {None}
    /\ uploaded \in BOOLEAN /\ retrieved \in BOOLEAN /\ cmd \in 0 .. NCommands
    /\ primary \in Errors \cup {None} /\ artifact \in Errors \cup {None}
    /\ cleanupError \in BOOLEAN
    /\ attempt \in 0 .. DeleteAttempts
    /\ signals \in 0 .. MaxSignals
    /\ podState \in [Pods -> PodStates]
    /\ details \in [Pods -> DetailsSet \cup {None}]
    /\ orphans \subseteq Pods
    /\ wdLeft \in [Pods -> 0 .. 3] /\ wdAt \in [Pods -> Nat]

\* The job pays for one Pod at a time, whatever create, verify and delete
\* calls fail, and it never forgets a Pod whose id it was told: what still
\* exists is the Pod in pod_id or the one whose create reply was lost.
OneKnownPod ==
    /\ \A p, q \in LivePods : p = q
    /\ LivePods \subseteq {podId} \cup orphans

\* What the request demands of an assignment, stated on the reported values.
Trustworthy(d, gpuId) ==
    /\ d.image = RequestImage
    /\ IsGpu => d.gpuTypeIds = {gpuId}
    /\ ~IsGpu => d.cpuFlavorId \in CpuFlavorIds
    /\ IsBuildJob =>
         /\ \A f \in {d.vcpuCount, d.memoryInGb, d.containerDiskInGb, d.volumeInGb} : f.finite
         /\ d.vcpuCount.milli >= 1000 * MinVcpuCount
         /\ d.memoryInGb.milli >= 1000 * MinMemoryGb
         /\ d.containerDiskInGb.milli >= 1000 * ContainerDiskGb
         /\ d.volumeInGb.milli = 0

\* From the first remote command on, the runner talks to the Pod it will
\* delete, and that Pod has the requested image, placement and resources: the
\* repository never reaches a Pod that failed verify_pod_assignment.
SourceOnlyOnVerifiedPod ==
    pc \in WorkPcs \cup DownloadPcs \/ uploaded =>
        /\ podId # None
        /\ endpoint = podId
        /\ Trustworthy(details[podId], Candidates[cand])

\* What the commands are told (RUNPOD_SELECTED_GPU_ID, RUNPOD_CPU_COUNT,
\* RUNPOD_ASSIGNED_MEMORY_BYTES, the receipt) is what their own Pod was
\* assigned, not what an earlier, rejected candidate was.
EnvironmentMatchesPod ==
    pc = "command" =>
        /\ IsGpu => details[endpoint].gpuTypeIds = {selected}
        /\ IsBuildJob =>
             /\ assignment.vcpuCount * 1000 = details[endpoint].vcpuCount.milli
             /\ assignment.assignedMemory = details[endpoint].memoryInGb.milli

\* placement_failures lists the attempts in priority order; the second round
\* happens only after a first one that failed for lack of capacity alone, and
\* placement gives up only after a whole round.  So however many rounds there
\* are, no more Pods are ever created than candidates were tried in this one.
FallbackOrder ==
    LET N == Len(Candidates)
        Tried == [i \in 1 .. Len(failures) |-> N * (failures[i].round - 1) + failures[i].cand]
    IN  /\ Tried = [i \in 1 .. Len(failures) |-> i]
        /\ pc \in PlacingPcs \ {"auth"} => Len(failures) = N * (round - 1) + cand - 1
        /\ \A i \in 1 .. N * (round - 1) : failures[i].kind = "capacity"
        /\ round <= PlacementRounds
        /\ Cardinality({p \in Pods : podState[p] # "none"}) <= cand

\* No operation but a deletion outlives the hard deadline by more than a
\* REST call's slack and the one second the remote rm is always given.
DeadlineRespected ==
    /\ pc \in TryPcs \ RejectPcs => opEnd <= HardTimeout + RestSlack
    /\ pc \in DownloadPcs => opEnd <= HardTimeout + 1

\* _terminate_strictly takes at most this long.
CleanupWindow == DeleteAttempts * DeleteTimeout + (DeleteAttempts - 1) * DeletePause

RunBound == HardTimeout + RestSlack + 2 * CleanupWindow

\* The runner is done within the hard timeout and two deletions (of a Pod
\* rejected at the last moment: once for the fallback, once in finally), and
\* no step before them outlives its own bound.
RunBounded ==
    /\ Active => now <= opEnd /\ opEnd <= RunBound
    /\ DeadlineRespected

\* With a grace longer than that, neither --terminate-after nor the watchdog
\* can remove a Pod the runner is still using or deleting.  --terminate-after
\* is nevertheless soon: the call that precedes its computation delays it by
\* no more than its own cap, and no fallback sets it anew.
BackstopIsLast ==
    /\ TerminateGrace > RestSlack + 2 * CleanupWindow /\ Active =>
         \A p \in Pods : ~TerminationDue(p) /\ ~WatchdogDue(p)
    /\ IsGpu /\ LivePods # {} =>
         terminateAfter - HardTimeout \in TerminateGrace .. TerminateGrace + MinOf(HardTimeout, CallCap)

\* A CPU Pod is only ever used while its own watchdog stands by: whenever the
\* runner can reach it, it armed the watchdog before, and none of the calls up
\* to the last command lasts until the watchdog is due.
WatchdogGuardsWork ==
    ~IsGpu /\ pc \in {"verify"} \cup WorkPcs /\ podState[podId] = "running" =>
        wdLeft[podId] = 3 /\ now < wdAt[podId]

Succeeded == pc = "returned" /\ primary = None /\ artifact = None /\ ~cleanupError

\* A Pod the runner may have left behind is reported as a failure, after
\* every deletion attempt was spent; success means that all commands
\* completed, that no Pod of this job exists any more, and that the artifacts
\* are here unless the job was in its last second (tools/runpod_job.py:1434).
ReturnIsHonest ==
    /\ pc = "returned" /\ podId # None /\ Live(podId) =>
         cleanupError /\ attempt = DeleteAttempts
    /\ pc = "returned" /\ orphans # {} => primary # None
    /\ Succeeded =>
         /\ uploaded /\ cmd = NCommands /\ LivePods = {}
         /\ WantArtifacts => retrieved \/ now >= HardTimeout - 1

\* Once an assignment is accepted there is no other candidate: the Pod, its
\* endpoint and the exported facts stay what they are, and nothing is created.
NoFallbackAfterAcceptance ==
    [][selected # None \/ assignment # None =>
          UNCHANGED <<lease, placement>> /\ LivePods' \subseteq LivePods]_vars

\* run_job returns, raises or dies with its machine; it never hangs.
RunEnds == <>(~Active)

\* Whatever happens to the runner, --terminate-after ends every GPU Pod.
PodsReclaimed == \A p \in Pods : Live(p) ~> podState[p] = "gone"

\* Stated by the module's docstring (tools/runpod_job.py:7): the requested
\* artifacts of a job that succeeds are copied back.
ArtifactsCopiedBack == Succeeded /\ WantArtifacts => retrieved

\* Stated by docs/runpod-orchestration.md:302: after a Pod id exists, deletion
\* always runs and is retried three times.
DeletionAlwaysRetried ==
    pc \in {"returned", "escaped"} /\ podId # None /\ Live(podId) =>
        attempt = DeleteAttempts

\* Stated by request_shutdown (tools/runpod_job.py:1583): a signal terminates
\* the active Pod, so that no further Pod is created after one.
NoCreateAfterSignal == signals > 0 => pc # "create"
=============================================================================
