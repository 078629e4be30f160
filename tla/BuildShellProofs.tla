-------------------------- MODULE BuildShellProofs --------------------------
(***************************************************************************)
(* Theorems about the supervised build, for every set of processes.         *)
(* IInv is the inductive invariant of the supervisor; a step of the shell   *)
(* is a step of the supervisor or leaves all of its variables alone, which  *)
(* is SupervisorTheorem.  EscalationTheorem is the safety half of           *)
(* RelayedSignalEndsBuild.                                                  *)
(***************************************************************************)
EXTENDS BuildShell, TLAPS

-----------------------------------------------------------------------------
(* The inductive invariant. *)

Ending == {"grace", "kill_leader", "kill_group"}    \* a bounded termination

AllGone == LeaderExited /\ ~DescendantsRemain

(* The leader has a wait status once it has exited, and it was started        *)
(* before anything else of the group.                                         *)
KernelInv ==
    /\ leaderCode # "none" <=> LeaderExited
    /\ pc \in Starting \union {"popen"} => \A p \in Members : member[p] = "absent"
    /\ pc \in Handling \ {"popen"} => member[Leader] # "absent"

(* An exception goes through the except clause at most once. *)
FlowInv ==
    /\ raising => \/ pc \in {"exception"} \union Leaving
                  \/ pc \in Ending /\ returnTo = "restored"
    /\ returnTo = "restored" => raising /\ pc \in Ending \union Leaving
    /\ pc = "exception" => raising
    /\ pc \in Ending => returnTo # "none"
    /\ pc = "restored" /\ ~raising /\ monitorError = "none" => evidence = "complete"

(* Where the group is known to be gone, or at least killed. *)
QuietInv ==
    /\ pc \in {"kill_leader", "kill_group"} \union Leaving =>
          killed \/ \A p \in Members : ~Running(p)
    /\ pc = "after_loop" /\ monitorError = "none" => AllGone
    /\ pc \in {"remains", "verdict"} => AllGone /\ ~GroupExists

(* child_returncode is the leader's wait status whenever it is set. *)
CodeInv ==
    /\ childCode \in {"none", leaderCode}
    /\ pc \in {"remains", "verdict"} => LeaderExited /\ childCode = leaderCode

(* A scan that has read a running leader has seen resident pages, so that an  *)
(* empty sample means that the leader has exited.                            *)
ScanInv ==
    ProcReadable =>
        /\ pc \in {"initial_scan", "scan"} /\ Running(Leader) /\ Leader \notin scan.unread
              => scan.resident
        /\ pc \in {"initial_poll", "repoll"} => LeaderExited

(* A group that was killed is reported as killed, or an exception is raised.  *)
KillInv ==
    killed /\ ~raising =>
        \/ pc \in {"kill_leader", "kill_group"}
        \/ /\ forcedKill /\ AllGone /\ ~GroupExists
           /\ pc \in {"after_loop", "remains", "verdict"} \union Leaving

(* What final evidence and a final status stand for. *)
ResultInv ==
    /\ evidence = "complete" =>
          /\ pc \in Leaving /\ ~raising /\ monitorError = "none"
          /\ LeaderExited /\ ~GroupExists /\ childCode = leaderCode
          /\ childCode = "zero" =>
                stats.samples >= MinSamples /\ stats.leader /\ stats.compiler
    /\ pc = "exited" => exitStatus # "none"
    /\ exitStatus = "zero" => evidence = "complete" /\ childCode = "zero"
    /\ pc # "exited" => exitStatus = "none"

IInv == TypeOK /\ KernelInv /\ FlowInv /\ QuietInv /\ CodeInv /\ ScanInv /\ KillInv
        /\ ResultInv

-----------------------------------------------------------------------------
(* One lemma per action of the supervisor, the kernel and the build. *)

LEMMA ForkStep ==
    ASSUME IInv, NEW d \in Descendants, Fork(d) PROVE IInv'
<1>1. TypeOK'
  BY MembersAssumption DEF
    IInv, TypeOK, Members, Codes, MinSamples, Starting, Handling, Leaving, Fork,
    groupOnly, Running, kernelVars, resultVars, flowVars
<1>2. KernelInv'
  BY MembersAssumption DEF
    IInv, TypeOK, KernelInv, LeaderExited, Members, Starting, Handling, Leaving, Fork,
    groupOnly, Running, kernelVars, resultVars, flowVars
<1>3. FlowInv'
  BY MembersAssumption DEF
    IInv, TypeOK, FlowInv, Ending, Starting, Handling, Leaving, Fork, groupOnly,
    Running, kernelVars, resultVars, flowVars
<1>4. QuietInv'
  BY MembersAssumption DEF
    IInv, TypeOK, QuietInv, KernelInv, FlowInv, Ending, AllGone, LeaderExited,
    DescendantsRemain, GroupExists, Running, Exists, Members, Starting, Handling,
    Leaving, Fork, groupOnly, kernelVars, resultVars, flowVars
<1>5. CodeInv'
  BY MembersAssumption DEF
    IInv, TypeOK, CodeInv, KernelInv, FlowInv, QuietInv, AllGone, LeaderExited, Ending,
    Members, Starting, Handling, Leaving, Fork, groupOnly, Running, kernelVars,
    resultVars, flowVars
<1>6. ScanInv'
  BY MembersAssumption DEF
    IInv, TypeOK, ScanInv, KernelInv, FlowInv, Ending, LeaderExited, Running, Members,
    NewScan, NoScan, Starting, Handling, Leaving, Fork, groupOnly, kernelVars,
    resultVars, flowVars
<1>7. KillInv'
  BY MembersAssumption DEF
    IInv, TypeOK, KillInv, FlowInv, KernelInv, QuietInv, AllGone, LeaderExited,
    DescendantsRemain, GroupExists, Running, Exists, Ending, Members, Starting,
    Handling, Leaving, Fork, groupOnly, kernelVars, resultVars, flowVars
<1>8. ResultInv'
  BY MembersAssumption DEF
    IInv, TypeOK, ResultInv, KernelInv, FlowInv, QuietInv, CodeInv, AllGone,
    LeaderExited, DescendantsRemain, GroupExists, Exists, Members, Ending, MinSamples,
    Starting, Handling, Leaving, Fork, groupOnly, Running, kernelVars, resultVars,
    flowVars
<1>9. QED
  BY <1>1, <1>2, <1>3, <1>4, <1>5, <1>6, <1>7, <1>8 DEF IInv

LEMMA LeaderExitsStep ==
    ASSUME IInv, NEW code \in {"zero", "nonzero"}, LeaderExits(code) PROVE IInv'
<1>1. TypeOK'
  BY MembersAssumption DEF
    IInv, TypeOK, Members, Codes, MinSamples, Starting, Handling, Leaving, LeaderExits,
    groupOnly, Running, kernelVars, resultVars, flowVars
<1>2. KernelInv'
  BY MembersAssumption DEF
    IInv, TypeOK, KernelInv, LeaderExited, Members, Starting, Handling, Leaving,
    LeaderExits, groupOnly, Running, kernelVars, resultVars, flowVars
<1>3. FlowInv'
  BY MembersAssumption DEF
    IInv, TypeOK, FlowInv, Ending, Starting, Handling, Leaving, LeaderExits, groupOnly,
    Running, kernelVars, resultVars, flowVars
<1>4. QuietInv'
  BY MembersAssumption DEF
    IInv, TypeOK, QuietInv, KernelInv, FlowInv, Ending, AllGone, LeaderExited,
    DescendantsRemain, GroupExists, Running, Exists, Members, Starting, Handling,
    Leaving, LeaderExits, groupOnly, kernelVars, resultVars, flowVars
<1>5. CodeInv'
  BY MembersAssumption DEF
    IInv, TypeOK, CodeInv, KernelInv, FlowInv, QuietInv, AllGone, LeaderExited, Ending,
    Members, Starting, Handling, Leaving, LeaderExits, groupOnly, Running, kernelVars,
    resultVars, flowVars
<1>6. ScanInv'
  BY MembersAssumption DEF
    IInv, TypeOK, ScanInv, KernelInv, FlowInv, Ending, LeaderExited, Running, Members,
    NewScan, NoScan, Starting, Handling, Leaving, LeaderExits, groupOnly, kernelVars,
    resultVars, flowVars
<1>7. KillInv'
  BY MembersAssumption DEF
    IInv, TypeOK, KillInv, FlowInv, KernelInv, QuietInv, AllGone, LeaderExited,
    DescendantsRemain, GroupExists, Running, Exists, Ending, Members, Starting,
    Handling, Leaving, LeaderExits, groupOnly, kernelVars, resultVars, flowVars
<1>8. ResultInv'
  BY MembersAssumption DEF
    IInv, TypeOK, ResultInv, KernelInv, FlowInv, QuietInv, CodeInv, AllGone,
    LeaderExited, DescendantsRemain, GroupExists, Exists, Members, Ending, MinSamples,
    Starting, Handling, Leaving, LeaderExits, groupOnly, Running, kernelVars,
    resultVars, flowVars
<1>9. QED
  BY <1>1, <1>2, <1>3, <1>4, <1>5, <1>6, <1>7, <1>8 DEF IInv

LEMMA DescendantExitsStep ==
    ASSUME IInv, NEW d \in Descendants, DescendantExits(d) PROVE IInv'
<1>1. TypeOK'
  BY MembersAssumption DEF
    IInv, TypeOK, Members, Codes, MinSamples, Starting, Handling, Leaving,
    DescendantExits, groupOnly, Running, kernelVars, resultVars, flowVars
<1>2. KernelInv'
  BY MembersAssumption DEF
    IInv, TypeOK, KernelInv, LeaderExited, Members, Starting, Handling, Leaving,
    DescendantExits, groupOnly, Running, kernelVars, resultVars, flowVars
<1>3. FlowInv'
  BY MembersAssumption DEF
    IInv, TypeOK, FlowInv, Ending, Starting, Handling, Leaving, DescendantExits,
    groupOnly, Running, kernelVars, resultVars, flowVars
<1>4. QuietInv'
  BY MembersAssumption DEF
    IInv, TypeOK, QuietInv, KernelInv, FlowInv, Ending, AllGone, LeaderExited,
    DescendantsRemain, GroupExists, Running, Exists, Members, Starting, Handling,
    Leaving, DescendantExits, groupOnly, kernelVars, resultVars, flowVars
<1>5. CodeInv'
  BY MembersAssumption DEF
    IInv, TypeOK, CodeInv, KernelInv, FlowInv, QuietInv, AllGone, LeaderExited, Ending,
    Members, Starting, Handling, Leaving, DescendantExits, groupOnly, Running,
    kernelVars, resultVars, flowVars
<1>6. ScanInv'
  BY MembersAssumption DEF
    IInv, TypeOK, ScanInv, KernelInv, FlowInv, Ending, LeaderExited, Running, Members,
    NewScan, NoScan, Starting, Handling, Leaving, DescendantExits, groupOnly,
    kernelVars, resultVars, flowVars
<1>7. KillInv'
  BY MembersAssumption DEF
    IInv, TypeOK, KillInv, FlowInv, KernelInv, QuietInv, AllGone, LeaderExited,
    DescendantsRemain, GroupExists, Running, Exists, Ending, Members, Starting,
    Handling, Leaving, DescendantExits, groupOnly, kernelVars, resultVars, flowVars
<1>8. ResultInv'
  BY MembersAssumption DEF
    IInv, TypeOK, ResultInv, KernelInv, FlowInv, QuietInv, CodeInv, AllGone,
    LeaderExited, DescendantsRemain, GroupExists, Exists, Members, Ending, MinSamples,
    Starting, Handling, Leaving, DescendantExits, groupOnly, Running, kernelVars,
    resultVars, flowVars
<1>9. QED
  BY <1>1, <1>2, <1>3, <1>4, <1>5, <1>6, <1>7, <1>8 DEF IInv

LEMMA DescendantReapedStep ==
    ASSUME IInv, NEW d \in Descendants, DescendantReaped(d) PROVE IInv'
<1>1. TypeOK'
  BY MembersAssumption DEF
    IInv, TypeOK, Members, Codes, MinSamples, Starting, Handling, Leaving,
    DescendantReaped, groupOnly, kernelVars, resultVars, flowVars
<1>2. KernelInv'
  BY MembersAssumption DEF
    IInv, TypeOK, KernelInv, LeaderExited, Members, Starting, Handling, Leaving,
    DescendantReaped, groupOnly, kernelVars, resultVars, flowVars
<1>3. FlowInv'
  BY MembersAssumption DEF
    IInv, TypeOK, FlowInv, Ending, Starting, Handling, Leaving, DescendantReaped,
    groupOnly, kernelVars, resultVars, flowVars
<1>4. QuietInv'
  BY MembersAssumption DEF
    IInv, TypeOK, QuietInv, KernelInv, FlowInv, Ending, AllGone, LeaderExited,
    DescendantsRemain, GroupExists, Running, Exists, Members, Starting, Handling,
    Leaving, DescendantReaped, groupOnly, kernelVars, resultVars, flowVars
<1>5. CodeInv'
  BY MembersAssumption DEF
    IInv, TypeOK, CodeInv, KernelInv, FlowInv, QuietInv, AllGone, LeaderExited, Ending,
    Members, Starting, Handling, Leaving, DescendantReaped, groupOnly, kernelVars,
    resultVars, flowVars
<1>6. ScanInv'
  BY MembersAssumption DEF
    IInv, TypeOK, ScanInv, KernelInv, FlowInv, Ending, LeaderExited, Running, Members,
    NewScan, NoScan, Starting, Handling, Leaving, DescendantReaped, groupOnly,
    kernelVars, resultVars, flowVars
<1>7. KillInv'
  BY MembersAssumption DEF
    IInv, TypeOK, KillInv, FlowInv, KernelInv, QuietInv, AllGone, LeaderExited,
    DescendantsRemain, GroupExists, Running, Exists, Ending, Members, Starting,
    Handling, Leaving, DescendantReaped, groupOnly, kernelVars, resultVars, flowVars
<1>8. ResultInv'
  BY MembersAssumption DEF
    IInv, TypeOK, ResultInv, KernelInv, FlowInv, QuietInv, CodeInv, AllGone,
    LeaderExited, DescendantsRemain, GroupExists, Exists, Members, Ending, MinSamples,
    Starting, Handling, Leaving, DescendantReaped, groupOnly, kernelVars, resultVars,
    flowVars
<1>9. QED
  BY <1>1, <1>2, <1>3, <1>4, <1>5, <1>6, <1>7, <1>8 DEF IInv

LEMMA TimeoutExpiresStep ==
    ASSUME IInv, NEW t \in DOMAIN timers, TimeoutExpires(t) PROVE IInv'
<1>1. TypeOK'
  BY MembersAssumption DEF
    IInv, TypeOK, Members, Codes, MinSamples, Starting, Handling, Leaving,
    TimeoutExpires, kernelVars, resultVars, flowVars
<1>2. KernelInv'
  BY MembersAssumption DEF
    IInv, TypeOK, KernelInv, LeaderExited, Members, Starting, Handling, Leaving,
    TimeoutExpires, kernelVars, resultVars, flowVars
<1>3. FlowInv'
  BY MembersAssumption DEF
    IInv, TypeOK, FlowInv, Ending, Starting, Handling, Leaving, TimeoutExpires,
    kernelVars, resultVars, flowVars
<1>4. QuietInv'
  BY MembersAssumption DEF
    IInv, TypeOK, QuietInv, KernelInv, FlowInv, Ending, AllGone, LeaderExited,
    DescendantsRemain, GroupExists, Running, Exists, Members, Starting, Handling,
    Leaving, TimeoutExpires, kernelVars, resultVars, flowVars
<1>5. CodeInv'
  BY MembersAssumption DEF
    IInv, TypeOK, CodeInv, KernelInv, FlowInv, QuietInv, AllGone, LeaderExited, Ending,
    Members, Starting, Handling, Leaving, TimeoutExpires, kernelVars, resultVars,
    flowVars
<1>6. ScanInv'
  BY MembersAssumption DEF
    IInv, TypeOK, ScanInv, KernelInv, FlowInv, Ending, LeaderExited, Running, Members,
    NewScan, NoScan, Starting, Handling, Leaving, TimeoutExpires, kernelVars,
    resultVars, flowVars
<1>7. KillInv'
  BY MembersAssumption DEF
    IInv, TypeOK, KillInv, FlowInv, KernelInv, QuietInv, AllGone, LeaderExited,
    DescendantsRemain, GroupExists, Running, Exists, Ending, Members, Starting,
    Handling, Leaving, TimeoutExpires, kernelVars, resultVars, flowVars
<1>8. ResultInv'
  BY MembersAssumption DEF
    IInv, TypeOK, ResultInv, KernelInv, FlowInv, QuietInv, CodeInv, AllGone,
    LeaderExited, DescendantsRemain, GroupExists, Exists, Members, Ending, MinSamples,
    Starting, Handling, Leaving, TimeoutExpires, kernelVars, resultVars, flowVars
<1>9. QED
  BY <1>1, <1>2, <1>3, <1>4, <1>5, <1>6, <1>7, <1>8 DEF IInv

LEMMA DirectSignalStep ==
    ASSUME IInv, NEW s \in Signals, DirectSignal(s) PROVE IInv'
<1>1. TypeOK'
  BY MembersAssumption, HandledAssumption DEF
    IInv, TypeOK, Members, Codes, MinSamples, Starting, Handling, Leaving,
    DirectSignal, Deliver, kernelVars, resultVars, flowVars
<1>2. KernelInv'
  BY MembersAssumption DEF
    IInv, TypeOK, KernelInv, LeaderExited, Members, Starting, Handling, Leaving,
    DirectSignal, Deliver, kernelVars, resultVars, flowVars
<1>3. FlowInv'
  BY MembersAssumption DEF
    IInv, TypeOK, FlowInv, Ending, Starting, Handling, Leaving, DirectSignal, Deliver,
    kernelVars, resultVars, flowVars
<1>4. QuietInv'
  BY MembersAssumption DEF
    IInv, TypeOK, QuietInv, KernelInv, FlowInv, Ending, AllGone, LeaderExited,
    DescendantsRemain, GroupExists, Running, Exists, Members, Starting, Handling,
    Leaving, DirectSignal, Deliver, kernelVars, resultVars, flowVars
<1>5. CodeInv'
  BY MembersAssumption DEF
    IInv, TypeOK, CodeInv, KernelInv, FlowInv, QuietInv, AllGone, LeaderExited, Ending,
    Members, Starting, Handling, Leaving, DirectSignal, Deliver, kernelVars,
    resultVars, flowVars
<1>6. ScanInv'
  BY MembersAssumption DEF
    IInv, TypeOK, ScanInv, KernelInv, FlowInv, Ending, LeaderExited, Running, Members,
    NewScan, NoScan, Starting, Handling, Leaving, DirectSignal, Deliver, kernelVars,
    resultVars, flowVars
<1>7. KillInv'
  BY MembersAssumption DEF
    IInv, TypeOK, KillInv, FlowInv, KernelInv, QuietInv, AllGone, LeaderExited,
    DescendantsRemain, GroupExists, Running, Exists, Ending, Members, Starting,
    Handling, Leaving, DirectSignal, Deliver, kernelVars, resultVars, flowVars
<1>8. ResultInv'
  BY MembersAssumption DEF
    IInv, TypeOK, ResultInv, KernelInv, FlowInv, QuietInv, CodeInv, AllGone,
    LeaderExited, DescendantsRemain, GroupExists, Exists, Members, Ending, MinSamples,
    Starting, Handling, Leaving, DirectSignal, Deliver, kernelVars, resultVars, flowVars
<1>9. QED
  BY <1>1, <1>2, <1>3, <1>4, <1>5, <1>6, <1>7, <1>8 DEF IInv

LEMMA LaunchStep ==
    ASSUME IInv, Launch PROVE IInv'
<1>1. TypeOK'
  BY MembersAssumption DEF
    IInv, TypeOK, Members, Codes, MinSamples, Starting, Handling, Leaving, Launch,
    kernelVars, resultVars, flowVars
<1>2. KernelInv'
  BY MembersAssumption DEF
    IInv, TypeOK, KernelInv, LeaderExited, Members, Starting, Handling, Leaving,
    Launch, kernelVars, resultVars, flowVars
<1>3. FlowInv'
  BY MembersAssumption DEF
    IInv, TypeOK, FlowInv, Ending, Starting, Handling, Leaving, Launch, kernelVars,
    resultVars, flowVars
<1>4. QuietInv'
  BY MembersAssumption DEF
    IInv, TypeOK, QuietInv, KernelInv, FlowInv, Ending, AllGone, LeaderExited,
    DescendantsRemain, GroupExists, Running, Exists, Members, Starting, Handling,
    Leaving, Launch, kernelVars, resultVars, flowVars
<1>5. CodeInv'
  BY MembersAssumption DEF
    IInv, TypeOK, CodeInv, KernelInv, FlowInv, QuietInv, AllGone, LeaderExited, Ending,
    Members, Starting, Handling, Leaving, Launch, kernelVars, resultVars, flowVars
<1>6. ScanInv'
  BY MembersAssumption DEF
    IInv, TypeOK, ScanInv, KernelInv, FlowInv, Ending, LeaderExited, Running, Members,
    NewScan, NoScan, Starting, Handling, Leaving, Launch, kernelVars, resultVars,
    flowVars
<1>7. KillInv'
  BY MembersAssumption DEF
    IInv, TypeOK, KillInv, FlowInv, KernelInv, QuietInv, AllGone, LeaderExited,
    DescendantsRemain, GroupExists, Running, Exists, Ending, Members, Starting,
    Handling, Leaving, Launch, kernelVars, resultVars, flowVars
<1>8. ResultInv'
  BY MembersAssumption DEF
    IInv, TypeOK, ResultInv, KernelInv, FlowInv, QuietInv, CodeInv, AllGone,
    LeaderExited, DescendantsRemain, GroupExists, Exists, Members, Ending, MinSamples,
    Starting, Handling, Leaving, Launch, kernelVars, resultVars, flowVars
<1>9. QED
  BY <1>1, <1>2, <1>3, <1>4, <1>5, <1>6, <1>7, <1>8 DEF IInv

LEMMA InstallHandlersStep ==
    ASSUME IInv, InstallHandlers PROVE IInv'
<1>1. TypeOK'
  BY MembersAssumption DEF
    IInv, TypeOK, Members, Codes, MinSamples, Starting, Handling, Leaving,
    InstallHandlers, kernelVars, resultVars, flowVars
<1>2. KernelInv'
  BY MembersAssumption DEF
    IInv, TypeOK, KernelInv, LeaderExited, Members, Starting, Handling, Leaving,
    InstallHandlers, kernelVars, resultVars, flowVars
<1>3. FlowInv'
  BY MembersAssumption DEF
    IInv, TypeOK, FlowInv, Ending, Starting, Handling, Leaving, InstallHandlers,
    kernelVars, resultVars, flowVars
<1>4. QuietInv'
  BY MembersAssumption DEF
    IInv, TypeOK, QuietInv, KernelInv, FlowInv, Ending, AllGone, LeaderExited,
    DescendantsRemain, GroupExists, Running, Exists, Members, Starting, Handling,
    Leaving, InstallHandlers, kernelVars, resultVars, flowVars
<1>5. CodeInv'
  BY MembersAssumption DEF
    IInv, TypeOK, CodeInv, KernelInv, FlowInv, QuietInv, AllGone, LeaderExited, Ending,
    Members, Starting, Handling, Leaving, InstallHandlers, kernelVars, resultVars,
    flowVars
<1>6. ScanInv'
  BY MembersAssumption DEF
    IInv, TypeOK, ScanInv, KernelInv, FlowInv, Ending, LeaderExited, Running, Members,
    NewScan, NoScan, Starting, Handling, Leaving, InstallHandlers, kernelVars,
    resultVars, flowVars
<1>7. KillInv'
  BY MembersAssumption DEF
    IInv, TypeOK, KillInv, FlowInv, KernelInv, QuietInv, AllGone, LeaderExited,
    DescendantsRemain, GroupExists, Running, Exists, Ending, Members, Starting,
    Handling, Leaving, InstallHandlers, kernelVars, resultVars, flowVars
<1>8. ResultInv'
  BY MembersAssumption DEF
    IInv, TypeOK, ResultInv, KernelInv, FlowInv, QuietInv, CodeInv, AllGone,
    LeaderExited, DescendantsRemain, GroupExists, Exists, Members, Ending, MinSamples,
    Starting, Handling, Leaving, InstallHandlers, kernelVars, resultVars, flowVars
<1>9. QED
  BY <1>1, <1>2, <1>3, <1>4, <1>5, <1>6, <1>7, <1>8 DEF IInv

LEMMA PopenStep ==
    ASSUME IInv, Popen PROVE IInv'
<1>1. TypeOK'
  <2>1. timers' \in [{"initial", "termination", "grace", "kill"} -> {"off", "running", "expired"}]
    BY DEF IInv, TypeOK, Popen, envOnly, Start, kernelVars, resultVars, flowVars
  <2>2. scan' \in [unread : SUBSET Members, seen : SUBSET Members,
                  resident : BOOLEAN, compiler : BOOLEAN]
    BY DEF IInv, TypeOK, Members, NoScan, NewScan, Popen, envOnly, Start, kernelVars, resultVars, flowVars
  <2>3. member' \in [Members -> {"absent", "running", "zombie", "gone"}]
    BY DEF IInv, TypeOK, Members, Popen, envOnly, Start, kernelVars, resultVars, flowVars
  <2>4. killed' \in BOOLEAN /\ raising' \in BOOLEAN /\ forcedKill' \in BOOLEAN
    BY DEF IInv, TypeOK, Popen, envOnly, Start, kernelVars, resultVars, flowVars
  <2>5. pc' \in Starting \union Handling \union Leaving
    BY DEF IInv, TypeOK, FlowInv, Ending, Starting, Handling, Leaving, Popen, envOnly, Start, kernelVars, resultVars, flowVars
  <2>6. childCode' \in Codes /\ leaderCode' \in Codes
    BY DEF IInv, TypeOK, Codes, Popen, envOnly, Start, kernelVars, resultVars, flowVars
  <2>7. QED
    BY <2>1, <2>2, <2>3, <2>4, <2>5, <2>6 DEF IInv, TypeOK, Popen, envOnly, Start, kernelVars, resultVars, flowVars
<1>2. KernelInv'
  BY MembersAssumption DEF
    IInv, TypeOK, KernelInv, LeaderExited, Members, Starting, Handling, Leaving, Popen,
    envOnly, Start, kernelVars, resultVars, flowVars
<1>3. FlowInv'
  BY MembersAssumption DEF
    IInv, TypeOK, FlowInv, Ending, Starting, Handling, Leaving, Popen, envOnly, Start,
    kernelVars, resultVars, flowVars
<1>4. QuietInv'
  BY MembersAssumption DEF
    IInv, TypeOK, QuietInv, KernelInv, FlowInv, Ending, AllGone, LeaderExited,
    DescendantsRemain, GroupExists, Running, Exists, Members, Starting, Handling,
    Leaving, Popen, envOnly, Start, kernelVars, resultVars, flowVars
<1>5. CodeInv'
  BY MembersAssumption DEF
    IInv, TypeOK, CodeInv, KernelInv, FlowInv, QuietInv, AllGone, LeaderExited, Ending,
    Members, Starting, Handling, Leaving, Popen, envOnly, Start, kernelVars,
    resultVars, flowVars
<1>6. ScanInv'
  BY MembersAssumption DEF
    IInv, TypeOK, ScanInv, KernelInv, FlowInv, Ending, LeaderExited, Running, Members,
    NewScan, NoScan, Starting, Handling, Leaving, Popen, envOnly, Start, kernelVars,
    resultVars, flowVars
<1>7. KillInv'
  BY MembersAssumption DEF
    IInv, TypeOK, KillInv, FlowInv, KernelInv, QuietInv, AllGone, LeaderExited,
    DescendantsRemain, GroupExists, Running, Exists, Ending, Members, Starting,
    Handling, Leaving, Popen, envOnly, Start, kernelVars, resultVars, flowVars
<1>8. ResultInv'
  BY MembersAssumption DEF
    IInv, TypeOK, ResultInv, KernelInv, FlowInv, QuietInv, CodeInv, AllGone,
    LeaderExited, DescendantsRemain, GroupExists, Exists, Members, Ending, MinSamples,
    Starting, Handling, Leaving, Popen, envOnly, Start, kernelVars, resultVars, flowVars
<1>9. QED
  BY <1>1, <1>2, <1>3, <1>4, <1>5, <1>6, <1>7, <1>8 DEF IInv

\* What a listing of /proc holds when a scan starts: processes of the build, the
\* leader among them while it runs.
LEMMA NewScanFacts ==
    /\ NewScan \in [unread : SUBSET Members, seen : SUBSET Members,
                    resident : BOOLEAN, compiler : BOOLEAN]
    /\ Running(Leader) => Leader \in NewScan.unread
    /\ NewScan.resident = FALSE /\ NewScan.seen = {} /\ NewScan.compiler = FALSE
<1> DEFINE Listed == {p \in Members : Exists(p)}
<1>1. NewScan = [NoScan EXCEPT !.unread = Listed]
  BY DEF NewScan
<1>2. Listed \subseteq Members
  OBVIOUS
<1>3. Running(Leader) => Leader \in Listed
  BY DEF Running, Exists, Members
<1> HIDE DEF Listed
<1>4. QED
  BY <1>1, <1>2, <1>3 DEF NoScan

LEMMA CheckSignalStep ==
    ASSUME IInv, CheckSignal PROVE IInv'
<1>1. TypeOK'
  <2>1. timers' \in [{"initial", "termination", "grace", "kill"} -> {"off", "running", "expired"}]
    BY DEF IInv, TypeOK, CheckSignal, Start, NewScan, NoScan, Members, kernelVars, resultVars, flowVars
  <2>2. scan' \in [unread : SUBSET Members, seen : SUBSET Members,
                  resident : BOOLEAN, compiler : BOOLEAN]
    BY NewScanFacts DEF IInv, TypeOK, CheckSignal
  <2>3. member' \in [Members -> {"absent", "running", "zombie", "gone"}]
    BY DEF IInv, TypeOK, Members, CheckSignal, Start, NewScan, NoScan, Members, kernelVars, resultVars, flowVars
  <2>4. killed' \in BOOLEAN /\ raising' \in BOOLEAN /\ forcedKill' \in BOOLEAN
    BY DEF IInv, TypeOK, CheckSignal, Start, NewScan, NoScan, Members, kernelVars, resultVars, flowVars
  <2>5. pc' \in Starting \union Handling \union Leaving
    BY DEF IInv, TypeOK, FlowInv, Ending, Starting, Handling, Leaving, CheckSignal, Start, NewScan, NoScan, Members, kernelVars, resultVars, flowVars
  <2>6. childCode' \in Codes /\ leaderCode' \in Codes
    BY DEF IInv, TypeOK, Codes, CheckSignal, Start, NewScan, NoScan, Members, kernelVars, resultVars, flowVars
  <2>7. QED
    BY <2>1, <2>2, <2>3, <2>4, <2>5, <2>6 DEF IInv, TypeOK, CheckSignal, Start, NewScan, NoScan, Members, kernelVars, resultVars, flowVars
<1>2. KernelInv'
  BY MembersAssumption DEF
    IInv, TypeOK, KernelInv, LeaderExited, Members, Starting, Handling, Leaving,
    CheckSignal, Start, NewScan, NoScan, kernelVars, resultVars, flowVars
<1>3. FlowInv'
  BY MembersAssumption DEF
    IInv, TypeOK, FlowInv, Ending, Starting, Handling, Leaving, CheckSignal, Start,
    NewScan, NoScan, Members, kernelVars, resultVars, flowVars
<1>4. QuietInv'
  BY MembersAssumption DEF
    IInv, TypeOK, QuietInv, KernelInv, FlowInv, Ending, AllGone, LeaderExited,
    DescendantsRemain, GroupExists, Running, Exists, Members, Starting, Handling,
    Leaving, CheckSignal, Start, NewScan, NoScan, kernelVars, resultVars, flowVars
<1>5. CodeInv'
  BY MembersAssumption DEF
    IInv, TypeOK, CodeInv, KernelInv, FlowInv, QuietInv, AllGone, LeaderExited, Ending,
    Members, Starting, Handling, Leaving, CheckSignal, Start, NewScan, NoScan,
    kernelVars, resultVars, flowVars
<1>6. ScanInv'
  BY MembersAssumption, NewScanFacts DEF
    IInv, TypeOK, ScanInv, KernelInv, FlowInv, Ending, LeaderExited, Running, Members,
    Starting, Handling, Leaving, CheckSignal, Start, kernelVars, resultVars, flowVars
<1>7. KillInv'
  BY MembersAssumption DEF
    IInv, TypeOK, KillInv, FlowInv, KernelInv, QuietInv, AllGone, LeaderExited,
    DescendantsRemain, GroupExists, Running, Exists, Ending, Members, Starting,
    Handling, Leaving, CheckSignal, Start, NewScan, NoScan, kernelVars, resultVars,
    flowVars
<1>8. ResultInv'
  BY MembersAssumption DEF
    IInv, TypeOK, ResultInv, KernelInv, FlowInv, QuietInv, CodeInv, AllGone,
    LeaderExited, DescendantsRemain, GroupExists, Exists, Members, Ending, MinSamples,
    Starting, Handling, Leaving, CheckSignal, Start, NewScan, NoScan, kernelVars,
    resultVars, flowVars
<1>9. QED
  BY <1>1, <1>2, <1>3, <1>4, <1>5, <1>6, <1>7, <1>8 DEF IInv

LEMMA ReadProcessStep ==
    ASSUME IInv, NEW p \in Members, ReadProcess(p) PROVE IInv'
<1>1. TypeOK'
  <2>1. timers' \in [{"initial", "termination", "grace", "kill"} -> {"off", "running", "expired"}]
    BY DEF IInv, TypeOK, ReadProcess, kernelVars, resultVars, flowVars
  <2>2. scan' \in [unread : SUBSET Members, seen : SUBSET Members,
                  resident : BOOLEAN, compiler : BOOLEAN]
    <3>1. scan \in [unread : SUBSET Members, seen : SUBSET Members,
                    resident : BOOLEAN, compiler : BOOLEAN]
      BY DEF IInv, TypeOK
    <3>2. ASSUME NEW recognised \in BOOLEAN,
                 scan' = [unread |-> scan.unread \ {p}, seen |-> scan.seen \union {p},
                          resident |-> scan.resident \/ Running(p),
                          compiler |-> scan.compiler \/ recognised]
          PROVE  scan' \in [unread : SUBSET Members, seen : SUBSET Members,
                            resident : BOOLEAN, compiler : BOOLEAN]
      <4>1. (scan.resident \/ Running(p)) \in BOOLEAN /\ (scan.compiler \/ recognised) \in BOOLEAN
        OBVIOUS
      <4>2. scan.unread \ {p} \in SUBSET Members /\ scan.seen \union {p} \in SUBSET Members
        BY <3>1
      <4>3. QED
        BY <3>2, <4>1, <4>2
    <3>3. ASSUME scan' = [scan EXCEPT !.unread = @ \ {p}]
          PROVE  scan' \in [unread : SUBSET Members, seen : SUBSET Members,
                            resident : BOOLEAN, compiler : BOOLEAN]
      BY <3>1, <3>3
    <3>4. (p \in Compilers /\ Running(p)) \in BOOLEAN
      OBVIOUS
    <3>5. CASE \E recognised \in {FALSE, (p \in Compilers /\ Running(p))} :
                 scan' = [unread |-> scan.unread \ {p}, seen |-> scan.seen \union {p},
                          resident |-> scan.resident \/ Running(p),
                          compiler |-> scan.compiler \/ recognised]
      <4>1. PICK recognised \in {FALSE, (p \in Compilers /\ Running(p))} :
                 scan' = [unread |-> scan.unread \ {p}, seen |-> scan.seen \union {p},
                          resident |-> scan.resident \/ Running(p),
                          compiler |-> scan.compiler \/ recognised]
        BY <3>5
      <4>2. recognised \in BOOLEAN
        BY <3>4
      <4>3. QED
        BY <3>2, <4>1, <4>2
    <3>6. QED
      BY <3>3, <3>5 DEF ReadProcess
  <2>3. member' \in [Members -> {"absent", "running", "zombie", "gone"}]
    BY DEF IInv, TypeOK, Members, ReadProcess, kernelVars, resultVars, flowVars
  <2>4. killed' \in BOOLEAN /\ raising' \in BOOLEAN /\ forcedKill' \in BOOLEAN
    BY DEF IInv, TypeOK, ReadProcess, kernelVars, resultVars, flowVars
  <2>5. pc' \in Starting \union Handling \union Leaving
    BY DEF IInv, TypeOK, FlowInv, Ending, Starting, Handling, Leaving, ReadProcess, kernelVars, resultVars, flowVars
  <2>6. childCode' \in Codes /\ leaderCode' \in Codes
    BY DEF IInv, TypeOK, Codes, ReadProcess, kernelVars, resultVars, flowVars
  <2>7. QED
    BY <2>1, <2>2, <2>3, <2>4, <2>5, <2>6 DEF IInv, TypeOK, ReadProcess, kernelVars, resultVars, flowVars
<1>2. KernelInv'
  BY MembersAssumption DEF
    IInv, TypeOK, KernelInv, LeaderExited, Members, Starting, Handling, Leaving,
    ReadProcess, kernelVars, resultVars, flowVars
<1>3. FlowInv'
  BY MembersAssumption DEF
    IInv, TypeOK, FlowInv, Ending, Starting, Handling, Leaving, ReadProcess,
    kernelVars, resultVars, flowVars
<1>4. QuietInv'
  BY MembersAssumption DEF
    IInv, TypeOK, QuietInv, KernelInv, FlowInv, Ending, AllGone, LeaderExited,
    DescendantsRemain, GroupExists, Running, Exists, Members, Starting, Handling,
    Leaving, ReadProcess, kernelVars, resultVars, flowVars
<1>5. CodeInv'
  BY MembersAssumption DEF
    IInv, TypeOK, CodeInv, KernelInv, FlowInv, QuietInv, AllGone, LeaderExited, Ending,
    Members, Starting, Handling, Leaving, ReadProcess, kernelVars, resultVars, flowVars
<1>6. ScanInv'
  <2> SUFFICES ASSUME ProcReadable, pc \in {"initial_scan", "scan"}, Running(Leader),
                      Leader \notin scan'.unread
               PROVE  scan'.resident
    BY DEF IInv, ScanInv, ReadProcess, Running, LeaderExited, kernelVars
  <2>1. CASE p = Leader
    <3>1. Exists(p)
      BY <2>1 DEF Running, Exists
    <3>2. scan'.resident = (scan.resident \/ Running(p))
      BY <3>1 DEF ReadProcess
    <3>3. QED
      BY <2>1, <3>2
  <2>2. CASE p # Leader
    <3>1. scan.unread \in SUBSET Members /\ scan'.unread = scan.unread \ {p}
      BY DEF IInv, TypeOK, ReadProcess
    <3>2. scan.resident
      BY <2>2, <3>1 DEF IInv, ScanInv
    <3>3. scan'.resident = (scan.resident \/ Running(p)) \/ scan'.resident = scan.resident
      BY DEF IInv, TypeOK, ReadProcess
    <3>4. QED
      BY <3>2, <3>3
  <2>3. QED
    BY <2>1, <2>2
<1>7. KillInv'
  BY MembersAssumption DEF
    IInv, TypeOK, KillInv, FlowInv, KernelInv, QuietInv, AllGone, LeaderExited,
    DescendantsRemain, GroupExists, Running, Exists, Ending, Members, Starting,
    Handling, Leaving, ReadProcess, kernelVars, resultVars, flowVars
<1>8. ResultInv'
  BY MembersAssumption DEF
    IInv, TypeOK, ResultInv, KernelInv, FlowInv, QuietInv, CodeInv, AllGone,
    LeaderExited, DescendantsRemain, GroupExists, Exists, Members, Ending, MinSamples,
    Starting, Handling, Leaving, ReadProcess, kernelVars, resultVars, flowVars
<1>9. QED
  BY <1>1, <1>2, <1>3, <1>4, <1>5, <1>6, <1>7, <1>8 DEF IInv

LEMMA EndScanStep ==
    ASSUME IInv, EndScan PROVE IInv'
<1>1. TypeOK'
  BY MembersAssumption DEF
    IInv, TypeOK, Members, Codes, MinSamples, Starting, Handling, Leaving, EndScan,
    Sampled, NoScan, kernelVars, resultVars, flowVars
<1>2. KernelInv'
  BY MembersAssumption DEF
    IInv, TypeOK, KernelInv, LeaderExited, Members, Starting, Handling, Leaving,
    EndScan, Sampled, NoScan, MinSamples, kernelVars, resultVars, flowVars
<1>3. FlowInv'
  BY MembersAssumption DEF
    IInv, TypeOK, FlowInv, Ending, Starting, Handling, Leaving, EndScan, Sampled,
    NoScan, MinSamples, kernelVars, resultVars, flowVars
<1>4. QuietInv'
  BY MembersAssumption DEF
    IInv, TypeOK, QuietInv, KernelInv, FlowInv, Ending, AllGone, LeaderExited,
    DescendantsRemain, GroupExists, Running, Exists, Members, Starting, Handling,
    Leaving, EndScan, Sampled, NoScan, MinSamples, kernelVars, resultVars, flowVars
<1>5. CodeInv'
  BY MembersAssumption DEF
    IInv, TypeOK, CodeInv, KernelInv, FlowInv, QuietInv, AllGone, LeaderExited, Ending,
    Members, Starting, Handling, Leaving, EndScan, Sampled, NoScan, MinSamples,
    kernelVars, resultVars, flowVars
<1>6. ScanInv'
  BY MembersAssumption DEF
    IInv, TypeOK, ScanInv, KernelInv, FlowInv, Ending, LeaderExited, Running, Members,
    NewScan, NoScan, Starting, Handling, Leaving, EndScan, Sampled, MinSamples,
    kernelVars, resultVars, flowVars
<1>7. KillInv'
  BY MembersAssumption DEF
    IInv, TypeOK, KillInv, FlowInv, KernelInv, QuietInv, AllGone, LeaderExited,
    DescendantsRemain, GroupExists, Running, Exists, Ending, Members, Starting,
    Handling, Leaving, EndScan, Sampled, NoScan, MinSamples, kernelVars, resultVars,
    flowVars
<1>8. ResultInv'
  BY MembersAssumption DEF
    IInv, TypeOK, ResultInv, KernelInv, FlowInv, QuietInv, CodeInv, AllGone,
    LeaderExited, DescendantsRemain, GroupExists, Exists, Members, Ending, MinSamples,
    Starting, Handling, Leaving, EndScan, Sampled, NoScan, kernelVars, resultVars,
    flowVars
<1>9. QED
  BY <1>1, <1>2, <1>3, <1>4, <1>5, <1>6, <1>7, <1>8 DEF IInv

LEMMA InitialPollStep ==
    ASSUME IInv, InitialPoll PROVE IInv'
<1>1. TypeOK'
  BY MembersAssumption DEF
    IInv, TypeOK, Members, Codes, MinSamples, Starting, Handling, Leaving, InitialPoll,
    Poll, Reaped, PolledCode, LeaderExited, kernelVars, resultVars, flowVars
<1>2. KernelInv'
  BY MembersAssumption DEF
    IInv, TypeOK, KernelInv, LeaderExited, Members, Starting, Handling, Leaving,
    InitialPoll, Poll, Reaped, PolledCode, kernelVars, resultVars, flowVars
<1>3. FlowInv'
  BY MembersAssumption DEF
    IInv, TypeOK, FlowInv, Ending, Starting, Handling, Leaving, InitialPoll, Poll,
    Reaped, PolledCode, LeaderExited, kernelVars, resultVars, flowVars
<1>4. QuietInv'
  BY MembersAssumption DEF
    IInv, TypeOK, QuietInv, KernelInv, FlowInv, Ending, AllGone, LeaderExited,
    DescendantsRemain, GroupExists, Running, Exists, Members, Starting, Handling,
    Leaving, InitialPoll, Poll, Reaped, PolledCode, kernelVars, resultVars, flowVars
<1>5. CodeInv'
  BY MembersAssumption DEF
    IInv, TypeOK, CodeInv, KernelInv, FlowInv, QuietInv, AllGone, LeaderExited, Ending,
    Members, Starting, Handling, Leaving, InitialPoll, Poll, Reaped, PolledCode,
    kernelVars, resultVars, flowVars
<1>6. ScanInv'
  BY MembersAssumption DEF
    IInv, TypeOK, ScanInv, KernelInv, FlowInv, Ending, LeaderExited, Running, Members,
    NewScan, NoScan, Starting, Handling, Leaving, InitialPoll, Poll, Reaped,
    PolledCode, kernelVars, resultVars, flowVars
<1>7. KillInv'
  BY MembersAssumption DEF
    IInv, TypeOK, KillInv, FlowInv, KernelInv, QuietInv, AllGone, LeaderExited,
    DescendantsRemain, GroupExists, Running, Exists, Ending, Members, Starting,
    Handling, Leaving, InitialPoll, Poll, Reaped, PolledCode, kernelVars, resultVars,
    flowVars
<1>8. ResultInv'
  BY MembersAssumption DEF
    IInv, TypeOK, ResultInv, KernelInv, FlowInv, QuietInv, CodeInv, AllGone,
    LeaderExited, DescendantsRemain, GroupExists, Exists, Members, Ending, MinSamples,
    Starting, Handling, Leaving, InitialPoll, Poll, Reaped, PolledCode, kernelVars,
    resultVars, flowVars
<1>9. QED
  BY <1>1, <1>2, <1>3, <1>4, <1>5, <1>6, <1>7, <1>8 DEF IInv

LEMMA InitialWriteStep ==
    ASSUME IInv, InitialWrite PROVE IInv'
<1>1. TypeOK'
  BY MembersAssumption DEF
    IInv, TypeOK, Members, Codes, MinSamples, Starting, Handling, Leaving,
    InitialWrite, Stop, kernelVars, resultVars, flowVars
<1>2. KernelInv'
  BY MembersAssumption DEF
    IInv, TypeOK, KernelInv, LeaderExited, Members, Starting, Handling, Leaving,
    InitialWrite, Stop, kernelVars, resultVars, flowVars
<1>3. FlowInv'
  BY MembersAssumption DEF
    IInv, TypeOK, FlowInv, Ending, Starting, Handling, Leaving, InitialWrite, Stop,
    kernelVars, resultVars, flowVars
<1>4. QuietInv'
  BY MembersAssumption DEF
    IInv, TypeOK, QuietInv, KernelInv, FlowInv, Ending, AllGone, LeaderExited,
    DescendantsRemain, GroupExists, Running, Exists, Members, Starting, Handling,
    Leaving, InitialWrite, Stop, kernelVars, resultVars, flowVars
<1>5. CodeInv'
  BY MembersAssumption DEF
    IInv, TypeOK, CodeInv, KernelInv, FlowInv, QuietInv, AllGone, LeaderExited, Ending,
    Members, Starting, Handling, Leaving, InitialWrite, Stop, kernelVars, resultVars,
    flowVars
<1>6. ScanInv'
  BY MembersAssumption DEF
    IInv, TypeOK, ScanInv, KernelInv, FlowInv, Ending, LeaderExited, Running, Members,
    NewScan, NoScan, Starting, Handling, Leaving, InitialWrite, Stop, kernelVars,
    resultVars, flowVars
<1>7. KillInv'
  BY MembersAssumption DEF
    IInv, TypeOK, KillInv, FlowInv, KernelInv, QuietInv, AllGone, LeaderExited,
    DescendantsRemain, GroupExists, Running, Exists, Ending, Members, Starting,
    Handling, Leaving, InitialWrite, Stop, kernelVars, resultVars, flowVars
<1>8. ResultInv'
  BY MembersAssumption DEF
    IInv, TypeOK, ResultInv, KernelInv, FlowInv, QuietInv, CodeInv, AllGone,
    LeaderExited, DescendantsRemain, GroupExists, Exists, Members, Ending, MinSamples,
    Starting, Handling, Leaving, InitialWrite, Stop, kernelVars, resultVars, flowVars
<1>9. QED
  BY <1>1, <1>2, <1>3, <1>4, <1>5, <1>6, <1>7, <1>8 DEF IInv

LEMMA CheckpointStep ==
    ASSUME IInv, Checkpoint PROVE IInv'
<1>1. TypeOK'
  BY MembersAssumption DEF
    IInv, TypeOK, Members, Codes, MinSamples, Starting, Handling, Leaving, Checkpoint,
    kernelVars, resultVars, flowVars
<1>2. KernelInv'
  BY MembersAssumption DEF
    IInv, TypeOK, KernelInv, LeaderExited, Members, Starting, Handling, Leaving,
    Checkpoint, kernelVars, resultVars, flowVars
<1>3. FlowInv'
  BY MembersAssumption DEF
    IInv, TypeOK, FlowInv, Ending, Starting, Handling, Leaving, Checkpoint, kernelVars,
    resultVars, flowVars
<1>4. QuietInv'
  BY MembersAssumption DEF
    IInv, TypeOK, QuietInv, KernelInv, FlowInv, Ending, AllGone, LeaderExited,
    DescendantsRemain, GroupExists, Running, Exists, Members, Starting, Handling,
    Leaving, Checkpoint, kernelVars, resultVars, flowVars
<1>5. CodeInv'
  BY MembersAssumption DEF
    IInv, TypeOK, CodeInv, KernelInv, FlowInv, QuietInv, AllGone, LeaderExited, Ending,
    Members, Starting, Handling, Leaving, Checkpoint, kernelVars, resultVars, flowVars
<1>6. ScanInv'
  BY MembersAssumption DEF
    IInv, TypeOK, ScanInv, KernelInv, FlowInv, Ending, LeaderExited, Running, Members,
    NewScan, NoScan, Starting, Handling, Leaving, Checkpoint, kernelVars, resultVars,
    flowVars
<1>7. KillInv'
  BY MembersAssumption DEF
    IInv, TypeOK, KillInv, FlowInv, KernelInv, QuietInv, AllGone, LeaderExited,
    DescendantsRemain, GroupExists, Running, Exists, Ending, Members, Starting,
    Handling, Leaving, Checkpoint, kernelVars, resultVars, flowVars
<1>8. ResultInv'
  BY MembersAssumption DEF
    IInv, TypeOK, ResultInv, KernelInv, FlowInv, QuietInv, CodeInv, AllGone,
    LeaderExited, DescendantsRemain, GroupExists, Exists, Members, Ending, MinSamples,
    Starting, Handling, Leaving, Checkpoint, kernelVars, resultVars, flowVars
<1>9. QED
  BY <1>1, <1>2, <1>3, <1>4, <1>5, <1>6, <1>7, <1>8 DEF IInv

LEMMA LoopPollStep ==
    ASSUME IInv, LoopPoll PROVE IInv'
<1>1. TypeOK'
  BY MembersAssumption DEF
    IInv, TypeOK, Members, Codes, MinSamples, Starting, Handling, Leaving, LoopPoll,
    Poll, Reaped, PolledCode, LeaderExited, DescendantsRemain, Exists, kernelVars,
    resultVars, flowVars
<1>2. KernelInv'
  BY MembersAssumption DEF
    IInv, TypeOK, KernelInv, LeaderExited, Members, Starting, Handling, Leaving,
    LoopPoll, Poll, Reaped, PolledCode, DescendantsRemain, Exists, kernelVars,
    resultVars, flowVars
<1>3. FlowInv'
  BY MembersAssumption DEF
    IInv, TypeOK, FlowInv, Ending, Starting, Handling, Leaving, LoopPoll, Poll, Reaped,
    PolledCode, LeaderExited, DescendantsRemain, Exists, kernelVars, resultVars,
    flowVars
<1>4. QuietInv'
  BY MembersAssumption DEF
    IInv, TypeOK, QuietInv, KernelInv, FlowInv, Ending, AllGone, LeaderExited,
    DescendantsRemain, GroupExists, Running, Exists, Members, Starting, Handling,
    Leaving, LoopPoll, Poll, Reaped, PolledCode, kernelVars, resultVars, flowVars
<1>5. CodeInv'
  BY MembersAssumption DEF
    IInv, TypeOK, CodeInv, KernelInv, FlowInv, QuietInv, AllGone, LeaderExited, Ending,
    Members, Starting, Handling, Leaving, LoopPoll, Poll, Reaped, PolledCode,
    DescendantsRemain, Exists, kernelVars, resultVars, flowVars
<1>6. ScanInv'
  BY MembersAssumption DEF
    IInv, TypeOK, ScanInv, KernelInv, FlowInv, Ending, LeaderExited, Running, Members,
    NewScan, NoScan, Starting, Handling, Leaving, LoopPoll, Poll, Reaped, PolledCode,
    DescendantsRemain, Exists, kernelVars, resultVars, flowVars
<1>7. KillInv'
  BY MembersAssumption DEF
    IInv, TypeOK, KillInv, FlowInv, KernelInv, QuietInv, AllGone, LeaderExited,
    DescendantsRemain, GroupExists, Running, Exists, Ending, Members, Starting,
    Handling, Leaving, LoopPoll, Poll, Reaped, PolledCode, kernelVars, resultVars,
    flowVars
<1>8. ResultInv'
  BY MembersAssumption DEF
    IInv, TypeOK, ResultInv, KernelInv, FlowInv, QuietInv, CodeInv, AllGone,
    LeaderExited, DescendantsRemain, GroupExists, Exists, Members, Ending, MinSamples,
    Starting, Handling, Leaving, LoopPoll, Poll, Reaped, PolledCode, kernelVars,
    resultVars, flowVars
<1>9. QED
  BY <1>1, <1>2, <1>3, <1>4, <1>5, <1>6, <1>7, <1>8 DEF IInv

LEMMA CheckDeadlineStep ==
    ASSUME IInv, CheckDeadline PROVE IInv'
<1>1. TypeOK'
  <2>1. timers' \in [{"initial", "termination", "grace", "kill"} -> {"off", "running", "expired"}]
    BY DEF IInv, TypeOK, CheckDeadline, Kill, GroupExists, NewScan, NoScan, Members, Exists, kernelVars, resultVars, flowVars
  <2>2. scan' \in [unread : SUBSET Members, seen : SUBSET Members,
                  resident : BOOLEAN, compiler : BOOLEAN]
    BY NewScanFacts DEF IInv, TypeOK, CheckDeadline, kernelVars, Kill
  <2>3. member' \in [Members -> {"absent", "running", "zombie", "gone"}]
    BY DEF IInv, TypeOK, Members, CheckDeadline, Kill, GroupExists, NewScan, NoScan, Members, Exists, kernelVars, resultVars, flowVars
  <2>4. killed' \in BOOLEAN /\ raising' \in BOOLEAN /\ forcedKill' \in BOOLEAN
    BY DEF IInv, TypeOK, CheckDeadline, Kill, GroupExists, NewScan, NoScan, Members, Exists, kernelVars, resultVars, flowVars
  <2>5. pc' \in Starting \union Handling \union Leaving
    BY DEF IInv, TypeOK, FlowInv, Ending, Starting, Handling, Leaving, CheckDeadline, Kill, GroupExists, NewScan, NoScan, Members, Exists, kernelVars, resultVars, flowVars
  <2>6. childCode' \in Codes /\ leaderCode' \in Codes
    BY DEF IInv, TypeOK, Codes, CheckDeadline, Kill, GroupExists, NewScan, NoScan, Members, Exists, kernelVars, resultVars, flowVars
  <2>7. QED
    BY <2>1, <2>2, <2>3, <2>4, <2>5, <2>6 DEF IInv, TypeOK, CheckDeadline, Kill, GroupExists, NewScan, NoScan, Members, Exists, kernelVars, resultVars, flowVars
<1>2. KernelInv'
  BY MembersAssumption DEF
    IInv, TypeOK, KernelInv, LeaderExited, Members, Starting, Handling, Leaving,
    CheckDeadline, Kill, GroupExists, NewScan, NoScan, Exists, kernelVars, resultVars,
    flowVars
<1>3. FlowInv'
  BY MembersAssumption DEF
    IInv, TypeOK, FlowInv, Ending, Starting, Handling, Leaving, CheckDeadline, Kill,
    GroupExists, NewScan, NoScan, Members, Exists, kernelVars, resultVars, flowVars
<1>4. QuietInv'
  BY MembersAssumption DEF
    IInv, TypeOK, QuietInv, KernelInv, FlowInv, Ending, AllGone, LeaderExited,
    DescendantsRemain, GroupExists, Running, Exists, Members, Starting, Handling,
    Leaving, CheckDeadline, Kill, NewScan, NoScan, kernelVars, resultVars, flowVars
<1>5. CodeInv'
  BY MembersAssumption DEF
    IInv, TypeOK, CodeInv, KernelInv, FlowInv, QuietInv, AllGone, LeaderExited, Ending,
    Members, Starting, Handling, Leaving, CheckDeadline, Kill, GroupExists, NewScan,
    NoScan, Exists, kernelVars, resultVars, flowVars
<1>6. ScanInv'
  BY MembersAssumption DEF
    IInv, TypeOK, ScanInv, KernelInv, FlowInv, Ending, LeaderExited, Running, Members,
    NewScan, NoScan, Starting, Handling, Leaving, CheckDeadline, Kill, GroupExists,
    Exists, kernelVars, resultVars, flowVars
<1>7. KillInv'
  BY MembersAssumption DEF
    IInv, TypeOK, KillInv, FlowInv, KernelInv, QuietInv, AllGone, LeaderExited,
    DescendantsRemain, GroupExists, Running, Exists, Ending, Members, Starting,
    Handling, Leaving, CheckDeadline, Kill, NewScan, NoScan, kernelVars, resultVars,
    flowVars
<1>8. ResultInv'
  BY MembersAssumption DEF
    IInv, TypeOK, ResultInv, KernelInv, FlowInv, QuietInv, CodeInv, AllGone,
    LeaderExited, DescendantsRemain, GroupExists, Exists, Members, Ending, MinSamples,
    Starting, Handling, Leaving, CheckDeadline, Kill, NewScan, NoScan, kernelVars,
    resultVars, flowVars
<1>9. QED
  BY <1>1, <1>2, <1>3, <1>4, <1>5, <1>6, <1>7, <1>8 DEF IInv

LEMMA RepollStep ==
    ASSUME IInv, Repoll PROVE IInv'
<1>1. TypeOK'
  BY MembersAssumption DEF
    IInv, TypeOK, Members, Codes, MinSamples, Starting, Handling, Leaving, Repoll,
    Poll, Reaped, PolledCode, LeaderExited, DescendantsRemain, Exists, kernelVars,
    resultVars, flowVars
<1>2. KernelInv'
  BY MembersAssumption DEF
    IInv, TypeOK, KernelInv, LeaderExited, Members, Starting, Handling, Leaving,
    Repoll, Poll, Reaped, PolledCode, DescendantsRemain, Exists, kernelVars,
    resultVars, flowVars
<1>3. FlowInv'
  BY MembersAssumption DEF
    IInv, TypeOK, FlowInv, Ending, Starting, Handling, Leaving, Repoll, Poll, Reaped,
    PolledCode, LeaderExited, DescendantsRemain, Exists, kernelVars, resultVars,
    flowVars
<1>4. QuietInv'
  BY MembersAssumption DEF
    IInv, TypeOK, QuietInv, KernelInv, FlowInv, Ending, AllGone, LeaderExited,
    DescendantsRemain, GroupExists, Running, Exists, Members, Starting, Handling,
    Leaving, Repoll, Poll, Reaped, PolledCode, kernelVars, resultVars, flowVars
<1>5. CodeInv'
  BY MembersAssumption DEF
    IInv, TypeOK, CodeInv, KernelInv, FlowInv, QuietInv, AllGone, LeaderExited, Ending,
    Members, Starting, Handling, Leaving, Repoll, Poll, Reaped, PolledCode,
    DescendantsRemain, Exists, kernelVars, resultVars, flowVars
<1>6. ScanInv'
  BY MembersAssumption DEF
    IInv, TypeOK, ScanInv, KernelInv, FlowInv, Ending, LeaderExited, Running, Members,
    NewScan, NoScan, Starting, Handling, Leaving, Repoll, Poll, Reaped, PolledCode,
    DescendantsRemain, Exists, kernelVars, resultVars, flowVars
<1>7. KillInv'
  BY MembersAssumption DEF
    IInv, TypeOK, KillInv, FlowInv, KernelInv, QuietInv, AllGone, LeaderExited,
    DescendantsRemain, GroupExists, Running, Exists, Ending, Members, Starting,
    Handling, Leaving, Repoll, Poll, Reaped, PolledCode, kernelVars, resultVars,
    flowVars
<1>8. ResultInv'
  BY MembersAssumption DEF
    IInv, TypeOK, ResultInv, KernelInv, FlowInv, QuietInv, CodeInv, AllGone,
    LeaderExited, DescendantsRemain, GroupExists, Exists, Members, Ending, MinSamples,
    Starting, Handling, Leaving, Repoll, Poll, Reaped, PolledCode, kernelVars,
    resultVars, flowVars
<1>9. QED
  BY <1>1, <1>2, <1>3, <1>4, <1>5, <1>6, <1>7, <1>8 DEF IInv

LEMMA GraceLoopStep ==
    ASSUME IInv, GraceLoop PROVE IInv'
<1>1. TypeOK'
  <2>1. timers' \in [{"initial", "termination", "grace", "kill"} -> {"off", "running", "expired"}]
    BY DEF IInv, TypeOK, GraceLoop, Kill, GroupExists, Returns, Stop, Poll, Reaped, LeaderExited, DescendantsRemain, Exists, kernelVars, resultVars, flowVars
  <2>2. scan' \in [unread : SUBSET Members, seen : SUBSET Members,
                  resident : BOOLEAN, compiler : BOOLEAN]
    BY DEF IInv, TypeOK, Members, NoScan, NewScan, GraceLoop, Kill, GroupExists, Returns, Stop, Poll, Reaped, LeaderExited, DescendantsRemain, Exists, kernelVars, resultVars, flowVars
  <2>3. member' \in [Members -> {"absent", "running", "zombie", "gone"}]
    BY DEF IInv, TypeOK, Members, GraceLoop, Kill, GroupExists, Returns, Stop, Poll, Reaped, LeaderExited, DescendantsRemain, Exists, kernelVars, resultVars, flowVars
  <2>4. killed' \in BOOLEAN /\ raising' \in BOOLEAN /\ forcedKill' \in BOOLEAN
    BY DEF IInv, TypeOK, GraceLoop, Kill, GroupExists, Returns, Stop, Poll, Reaped, LeaderExited, DescendantsRemain, Exists, kernelVars, resultVars, flowVars
  <2>5. pc' \in Starting \union Handling \union Leaving
    BY DEF IInv, TypeOK, FlowInv, Ending, Starting, Handling, Leaving, GraceLoop, Kill, GroupExists, Returns, Stop, Poll, Reaped, LeaderExited, DescendantsRemain, Exists, kernelVars, resultVars, flowVars
  <2>6. childCode' \in Codes /\ leaderCode' \in Codes
    BY DEF IInv, TypeOK, Codes, GraceLoop, Kill, GroupExists, Returns, Stop, Poll, Reaped, LeaderExited, DescendantsRemain, Exists, kernelVars, resultVars, flowVars
  <2>7. QED
    BY <2>1, <2>2, <2>3, <2>4, <2>5, <2>6 DEF IInv, TypeOK, GraceLoop, Kill, GroupExists, Returns, Stop, Poll, Reaped, LeaderExited, DescendantsRemain, Exists, kernelVars, resultVars, flowVars
<1>2. KernelInv'
  BY MembersAssumption DEF
    IInv, TypeOK, KernelInv, LeaderExited, Members, Starting, Handling, Leaving,
    GraceLoop, Kill, GroupExists, Returns, Stop, Poll, Reaped, DescendantsRemain,
    Exists, kernelVars, resultVars, flowVars
<1>3. FlowInv'
  BY MembersAssumption DEF
    IInv, TypeOK, FlowInv, Ending, Starting, Handling, Leaving, GraceLoop, Kill,
    GroupExists, Returns, Stop, Poll, Reaped, LeaderExited, DescendantsRemain, Exists,
    kernelVars, resultVars, flowVars
<1>4. QuietInv'
  <2>1. CASE Expired("grace") /\ Kill /\ UNCHANGED returnTo
    <3>1. killed' \/ \A p \in Members : ~Running(p)'
      BY <2>1 DEF Kill, GroupExists, Exists, Running
    <3>2. QED
      BY <2>1, <3>1 DEF Kill, QuietInv, Leaving
  <2>2. CASE LeaderExited /\ ~DescendantsRemain /\ Returns(FALSE) /\ UNCHANGED returnTo
    <3>1. AllGone' /\ ~GroupExists'
      BY <2>2, MembersAssumption DEF IInv, TypeOK, Returns, Poll, Reaped, AllGone, LeaderExited,
        DescendantsRemain, GroupExists, Exists, Members
    <3>2. \A p \in Members : ~Running(p)'
      BY <3>1 DEF GroupExists, Exists, Running
    <3>3. QED
      BY <3>1, <3>2 DEF QuietInv
  <2>3. QED
    BY <2>1, <2>2 DEF GraceLoop
<1>5. CodeInv'
  BY MembersAssumption DEF
    IInv, TypeOK, CodeInv, KernelInv, FlowInv, QuietInv, AllGone, LeaderExited, Ending,
    Members, Starting, Handling, Leaving, GraceLoop, Kill, GroupExists, Returns, Stop,
    Poll, Reaped, DescendantsRemain, Exists, kernelVars, resultVars, flowVars
<1>6. ScanInv'
  BY MembersAssumption DEF
    IInv, TypeOK, ScanInv, KernelInv, FlowInv, Ending, LeaderExited, Running, Members,
    NewScan, NoScan, Starting, Handling, Leaving, GraceLoop, Kill, GroupExists,
    Returns, Stop, Poll, Reaped, DescendantsRemain, Exists, kernelVars, resultVars,
    flowVars
<1>7. KillInv'
  BY MembersAssumption DEF
    IInv, TypeOK, KillInv, FlowInv, KernelInv, QuietInv, AllGone, LeaderExited,
    DescendantsRemain, GroupExists, Running, Exists, Ending, Members, Starting,
    Handling, Leaving, GraceLoop, Kill, Returns, Stop, Poll, Reaped, kernelVars,
    resultVars, flowVars
<1>8. ResultInv'
  BY MembersAssumption DEF
    IInv, TypeOK, ResultInv, KernelInv, FlowInv, QuietInv, CodeInv, AllGone,
    LeaderExited, DescendantsRemain, GroupExists, Exists, Members, Ending, MinSamples,
    Starting, Handling, Leaving, GraceLoop, Kill, Returns, Stop, Poll, Reaped,
    kernelVars, resultVars, flowVars
<1>9. QED
  BY <1>1, <1>2, <1>3, <1>4, <1>5, <1>6, <1>7, <1>8 DEF IInv

LEMMA KillLeaderStep ==
    ASSUME IInv, KillLeader PROVE IInv'
<1>1. TypeOK'
  <2>1. timers' \in [{"initial", "termination", "grace", "kill"} -> {"off", "running", "expired"}]
    BY DEF IInv, TypeOK, KillLeader, Poll, Reaped, Start, Stop, Raise, LeaderExited, kernelVars, resultVars, flowVars
  <2>2. scan' \in [unread : SUBSET Members, seen : SUBSET Members,
                  resident : BOOLEAN, compiler : BOOLEAN]
    BY DEF IInv, TypeOK, Members, NoScan, NewScan, KillLeader, Poll, Reaped, Start, Stop, Raise, LeaderExited, kernelVars, resultVars, flowVars
  <2>3. member' \in [Members -> {"absent", "running", "zombie", "gone"}]
    BY DEF IInv, TypeOK, Members, KillLeader, Poll, Reaped, Start, Stop, Raise, LeaderExited, kernelVars, resultVars, flowVars
  <2>4. killed' \in BOOLEAN /\ raising' \in BOOLEAN /\ forcedKill' \in BOOLEAN
    BY DEF IInv, TypeOK, KillLeader, Poll, Reaped, Start, Stop, Raise, LeaderExited, kernelVars, resultVars, flowVars
  <2>5. pc' \in Starting \union Handling \union Leaving
    BY DEF IInv, TypeOK, FlowInv, Ending, Starting, Handling, Leaving, KillLeader, Poll, Reaped, Start, Stop, Raise, LeaderExited, kernelVars, resultVars, flowVars
  <2>6. childCode' \in Codes /\ leaderCode' \in Codes
    BY DEF IInv, TypeOK, Codes, KillLeader, Poll, Reaped, Start, Stop, Raise, LeaderExited, kernelVars, resultVars, flowVars
  <2>7. QED
    BY <2>1, <2>2, <2>3, <2>4, <2>5, <2>6 DEF IInv, TypeOK, KillLeader, Poll, Reaped, Start, Stop, Raise, LeaderExited, kernelVars, resultVars, flowVars
<1>2. KernelInv'
  BY MembersAssumption DEF
    IInv, TypeOK, KernelInv, LeaderExited, Members, Starting, Handling, Leaving,
    KillLeader, Poll, Reaped, Start, Stop, Raise, kernelVars, resultVars, flowVars
<1>3. FlowInv'
  BY MembersAssumption DEF
    IInv, TypeOK, FlowInv, Ending, Starting, Handling, Leaving, KillLeader, Poll,
    Reaped, Start, Stop, Raise, LeaderExited, kernelVars, resultVars, flowVars
<1>4. QuietInv'
  BY MembersAssumption DEF
    IInv, TypeOK, QuietInv, KernelInv, FlowInv, Ending, AllGone, LeaderExited,
    DescendantsRemain, GroupExists, Running, Exists, Members, Starting, Handling,
    Leaving, KillLeader, Poll, Reaped, Start, Stop, Raise, kernelVars, resultVars,
    flowVars
<1>5. CodeInv'
  BY MembersAssumption DEF
    IInv, TypeOK, CodeInv, KernelInv, FlowInv, QuietInv, AllGone, LeaderExited, Ending,
    Members, Starting, Handling, Leaving, KillLeader, Poll, Reaped, Start, Stop, Raise,
    kernelVars, resultVars, flowVars
<1>6. ScanInv'
  BY MembersAssumption DEF
    IInv, TypeOK, ScanInv, KernelInv, FlowInv, Ending, LeaderExited, Running, Members,
    NewScan, NoScan, Starting, Handling, Leaving, KillLeader, Poll, Reaped, Start,
    Stop, Raise, kernelVars, resultVars, flowVars
<1>7. KillInv'
  BY MembersAssumption DEF
    IInv, TypeOK, KillInv, FlowInv, KernelInv, QuietInv, AllGone, LeaderExited,
    DescendantsRemain, GroupExists, Running, Exists, Ending, Members, Starting,
    Handling, Leaving, KillLeader, Poll, Reaped, Start, Stop, Raise, kernelVars,
    resultVars, flowVars
<1>8. ResultInv'
  BY MembersAssumption DEF
    IInv, TypeOK, ResultInv, KernelInv, FlowInv, QuietInv, CodeInv, AllGone,
    LeaderExited, DescendantsRemain, GroupExists, Exists, Members, Ending, MinSamples,
    Starting, Handling, Leaving, KillLeader, Poll, Reaped, Start, Stop, Raise,
    kernelVars, resultVars, flowVars
<1>9. QED
  BY <1>1, <1>2, <1>3, <1>4, <1>5, <1>6, <1>7, <1>8 DEF IInv

LEMMA KillGroupStep ==
    ASSUME IInv, KillGroup PROVE IInv'
<1>1. TypeOK'
  <2>1. timers' \in [{"initial", "termination", "grace", "kill"} -> {"off", "running", "expired"}]
    BY DEF IInv, TypeOK, KillGroup, Poll, Reaped, Stop, Raise, Returns, GroupExists, LeaderExited, Exists, kernelVars, resultVars, flowVars
  <2>2. scan' \in [unread : SUBSET Members, seen : SUBSET Members,
                  resident : BOOLEAN, compiler : BOOLEAN]
    BY DEF IInv, TypeOK, Members, NoScan, NewScan, KillGroup, Poll, Reaped, Stop, Raise, Returns, GroupExists, LeaderExited, Exists, kernelVars, resultVars, flowVars
  <2>3. member' \in [Members -> {"absent", "running", "zombie", "gone"}]
    BY DEF IInv, TypeOK, Members, KillGroup, Poll, Reaped, Stop, Raise, Returns, GroupExists, LeaderExited, Exists, kernelVars, resultVars, flowVars
  <2>4. killed' \in BOOLEAN /\ raising' \in BOOLEAN /\ forcedKill' \in BOOLEAN
    BY DEF IInv, TypeOK, KillGroup, Poll, Reaped, Stop, Raise, Returns, GroupExists, LeaderExited, Exists, kernelVars, resultVars, flowVars
  <2>5. pc' \in Starting \union Handling \union Leaving
    BY DEF IInv, TypeOK, FlowInv, Ending, Starting, Handling, Leaving, KillGroup, Poll, Reaped, Stop, Raise, Returns, GroupExists, LeaderExited, Exists, kernelVars, resultVars, flowVars
  <2>6. childCode' \in Codes /\ leaderCode' \in Codes
    BY DEF IInv, TypeOK, Codes, KillGroup, Poll, Reaped, Stop, Raise, Returns, GroupExists, LeaderExited, Exists, kernelVars, resultVars, flowVars
  <2>7. QED
    BY <2>1, <2>2, <2>3, <2>4, <2>5, <2>6 DEF IInv, TypeOK, KillGroup, Poll, Reaped, Stop, Raise, Returns, GroupExists, LeaderExited, Exists, kernelVars, resultVars, flowVars
<1>2. KernelInv'
  BY MembersAssumption DEF
    IInv, TypeOK, KernelInv, LeaderExited, Members, Starting, Handling, Leaving,
    KillGroup, Poll, Reaped, Stop, Raise, Returns, GroupExists, Exists, kernelVars,
    resultVars, flowVars
<1>3. FlowInv'
  BY MembersAssumption DEF
    IInv, TypeOK, FlowInv, Ending, Starting, Handling, Leaving, KillGroup, Poll,
    Reaped, Stop, Raise, Returns, GroupExists, LeaderExited, Exists, kernelVars,
    resultVars, flowVars
<1>4. QuietInv'
  BY MembersAssumption DEF
    IInv, TypeOK, QuietInv, KernelInv, FlowInv, Ending, AllGone, LeaderExited,
    DescendantsRemain, GroupExists, Running, Exists, Members, Starting, Handling,
    Leaving, KillGroup, Poll, Reaped, Stop, Raise, Returns, kernelVars, resultVars,
    flowVars
<1>5. CodeInv'
  BY MembersAssumption DEF
    IInv, TypeOK, CodeInv, KernelInv, FlowInv, QuietInv, AllGone, LeaderExited, Ending,
    Members, Starting, Handling, Leaving, KillGroup, Poll, Reaped, Stop, Raise,
    Returns, GroupExists, Exists, kernelVars, resultVars, flowVars
<1>6. ScanInv'
  BY MembersAssumption DEF
    IInv, TypeOK, ScanInv, KernelInv, FlowInv, Ending, LeaderExited, Running, Members,
    NewScan, NoScan, Starting, Handling, Leaving, KillGroup, Poll, Reaped, Stop, Raise,
    Returns, GroupExists, Exists, kernelVars, resultVars, flowVars
<1>7. KillInv'
  BY MembersAssumption DEF
    IInv, TypeOK, KillInv, FlowInv, KernelInv, QuietInv, AllGone, LeaderExited,
    DescendantsRemain, GroupExists, Running, Exists, Ending, Members, Starting,
    Handling, Leaving, KillGroup, Poll, Reaped, Stop, Raise, Returns, kernelVars,
    resultVars, flowVars
<1>8. ResultInv'
  BY MembersAssumption DEF
    IInv, TypeOK, ResultInv, KernelInv, FlowInv, QuietInv, CodeInv, AllGone,
    LeaderExited, DescendantsRemain, GroupExists, Exists, Members, Ending, MinSamples,
    Starting, Handling, Leaving, KillGroup, Poll, Reaped, Stop, Raise, Returns,
    kernelVars, resultVars, flowVars
<1>9. QED
  BY <1>1, <1>2, <1>3, <1>4, <1>5, <1>6, <1>7, <1>8 DEF IInv

LEMMA IoFailsStep ==
    ASSUME IInv, IoFails PROVE IInv'
<1>1. TypeOK'
  BY MembersAssumption DEF
    IInv, TypeOK, Members, Codes, MinSamples, Starting, Handling, Leaving, IoFails,
    Raise, NoScan, kernelVars, resultVars, flowVars
<1>2. KernelInv'
  BY MembersAssumption DEF
    IInv, TypeOK, KernelInv, LeaderExited, Members, Starting, Handling, Leaving,
    IoFails, Raise, NoScan, kernelVars, resultVars, flowVars
<1>3. FlowInv'
  BY MembersAssumption DEF
    IInv, TypeOK, FlowInv, Ending, Starting, Handling, Leaving, IoFails, Raise, NoScan,
    kernelVars, resultVars, flowVars
<1>4. QuietInv'
  BY MembersAssumption DEF
    IInv, TypeOK, QuietInv, KernelInv, FlowInv, Ending, AllGone, LeaderExited,
    DescendantsRemain, GroupExists, Running, Exists, Members, Starting, Handling,
    Leaving, IoFails, Raise, NoScan, kernelVars, resultVars, flowVars
<1>5. CodeInv'
  BY MembersAssumption DEF
    IInv, TypeOK, CodeInv, KernelInv, FlowInv, QuietInv, AllGone, LeaderExited, Ending,
    Members, Starting, Handling, Leaving, IoFails, Raise, NoScan, kernelVars,
    resultVars, flowVars
<1>6. ScanInv'
  BY MembersAssumption DEF
    IInv, TypeOK, ScanInv, KernelInv, FlowInv, Ending, LeaderExited, Running, Members,
    NewScan, NoScan, Starting, Handling, Leaving, IoFails, Raise, kernelVars,
    resultVars, flowVars
<1>7. KillInv'
  BY MembersAssumption DEF
    IInv, TypeOK, KillInv, FlowInv, KernelInv, QuietInv, AllGone, LeaderExited,
    DescendantsRemain, GroupExists, Running, Exists, Ending, Members, Starting,
    Handling, Leaving, IoFails, Raise, NoScan, kernelVars, resultVars, flowVars
<1>8. ResultInv'
  BY MembersAssumption DEF
    IInv, TypeOK, ResultInv, KernelInv, FlowInv, QuietInv, CodeInv, AllGone,
    LeaderExited, DescendantsRemain, GroupExists, Exists, Members, Ending, MinSamples,
    Starting, Handling, Leaving, IoFails, Raise, NoScan, kernelVars, resultVars,
    flowVars
<1>9. QED
  BY <1>1, <1>2, <1>3, <1>4, <1>5, <1>6, <1>7, <1>8 DEF IInv

LEMMA ExceptStep ==
    ASSUME IInv, Except PROVE IInv'
<1>1. TypeOK'
  BY MembersAssumption DEF
    IInv, TypeOK, Members, Codes, MinSamples, Starting, Handling, Leaving, Except,
    Poll, Reaped, Terminate, Start, LeaderExited, DescendantsRemain, Exists,
    kernelVars, resultVars, flowVars
<1>2. KernelInv'
  BY MembersAssumption DEF
    IInv, TypeOK, KernelInv, LeaderExited, Members, Starting, Handling, Leaving,
    Except, Poll, Reaped, Terminate, Start, DescendantsRemain, Exists, kernelVars,
    resultVars, flowVars
<1>3. FlowInv'
  BY MembersAssumption DEF
    IInv, TypeOK, FlowInv, Ending, Starting, Handling, Leaving, Except, Poll, Reaped,
    Terminate, Start, LeaderExited, DescendantsRemain, Exists, kernelVars, resultVars,
    flowVars
<1>4. QuietInv'
  BY MembersAssumption DEF
    IInv, TypeOK, QuietInv, KernelInv, FlowInv, Ending, AllGone, LeaderExited,
    DescendantsRemain, GroupExists, Running, Exists, Members, Starting, Handling,
    Leaving, Except, Poll, Reaped, Terminate, Start, kernelVars, resultVars, flowVars
<1>5. CodeInv'
  BY MembersAssumption DEF
    IInv, TypeOK, CodeInv, KernelInv, FlowInv, QuietInv, AllGone, LeaderExited, Ending,
    Members, Starting, Handling, Leaving, Except, Poll, Reaped, Terminate, Start,
    DescendantsRemain, Exists, kernelVars, resultVars, flowVars
<1>6. ScanInv'
  BY MembersAssumption DEF
    IInv, TypeOK, ScanInv, KernelInv, FlowInv, Ending, LeaderExited, Running, Members,
    NewScan, NoScan, Starting, Handling, Leaving, Except, Poll, Reaped, Terminate,
    Start, DescendantsRemain, Exists, kernelVars, resultVars, flowVars
<1>7. KillInv'
  BY MembersAssumption DEF
    IInv, TypeOK, KillInv, FlowInv, KernelInv, QuietInv, AllGone, LeaderExited,
    DescendantsRemain, GroupExists, Running, Exists, Ending, Members, Starting,
    Handling, Leaving, Except, Poll, Reaped, Terminate, Start, kernelVars, resultVars,
    flowVars
<1>8. ResultInv'
  BY MembersAssumption DEF
    IInv, TypeOK, ResultInv, KernelInv, FlowInv, QuietInv, CodeInv, AllGone,
    LeaderExited, DescendantsRemain, GroupExists, Exists, Members, Ending, MinSamples,
    Starting, Handling, Leaving, Except, Poll, Reaped, Terminate, Start, kernelVars,
    resultVars, flowVars
<1>9. QED
  BY <1>1, <1>2, <1>3, <1>4, <1>5, <1>6, <1>7, <1>8 DEF IInv

LEMMA AfterLoopStep ==
    ASSUME IInv, AfterLoop PROVE IInv'
<1>1. TypeOK'
  BY MembersAssumption DEF
    IInv, TypeOK, Members, Codes, MinSamples, Starting, Handling, Leaving, AfterLoop,
    Poll, Reaped, Terminate, Start, LeaderExited, DescendantsRemain, Exists,
    kernelVars, resultVars, flowVars
<1>2. KernelInv'
  BY MembersAssumption DEF
    IInv, TypeOK, KernelInv, LeaderExited, Members, Starting, Handling, Leaving,
    AfterLoop, Poll, Reaped, Terminate, Start, DescendantsRemain, Exists, kernelVars,
    resultVars, flowVars
<1>3. FlowInv'
  BY MembersAssumption DEF
    IInv, TypeOK, FlowInv, Ending, Starting, Handling, Leaving, AfterLoop, Poll,
    Reaped, Terminate, Start, LeaderExited, DescendantsRemain, Exists, kernelVars,
    resultVars, flowVars
<1>4. QuietInv'
  BY MembersAssumption DEF
    IInv, TypeOK, QuietInv, KernelInv, FlowInv, Ending, AllGone, LeaderExited,
    DescendantsRemain, GroupExists, Running, Exists, Members, Starting, Handling,
    Leaving, AfterLoop, Poll, Reaped, Terminate, Start, kernelVars, resultVars, flowVars
<1>5. CodeInv'
  BY MembersAssumption DEF
    IInv, TypeOK, CodeInv, KernelInv, FlowInv, QuietInv, AllGone, LeaderExited, Ending,
    Members, Starting, Handling, Leaving, AfterLoop, Poll, Reaped, Terminate, Start,
    DescendantsRemain, Exists, kernelVars, resultVars, flowVars
<1>6. ScanInv'
  BY MembersAssumption DEF
    IInv, TypeOK, ScanInv, KernelInv, FlowInv, Ending, LeaderExited, Running, Members,
    NewScan, NoScan, Starting, Handling, Leaving, AfterLoop, Poll, Reaped, Terminate,
    Start, DescendantsRemain, Exists, kernelVars, resultVars, flowVars
<1>7. KillInv'
  BY MembersAssumption DEF
    IInv, TypeOK, KillInv, FlowInv, KernelInv, QuietInv, AllGone, LeaderExited,
    DescendantsRemain, GroupExists, Running, Exists, Ending, Members, Starting,
    Handling, Leaving, AfterLoop, Poll, Reaped, Terminate, Start, kernelVars,
    resultVars, flowVars
<1>8. ResultInv'
  BY MembersAssumption DEF
    IInv, TypeOK, ResultInv, KernelInv, FlowInv, QuietInv, CodeInv, AllGone,
    LeaderExited, DescendantsRemain, GroupExists, Exists, Members, Ending, MinSamples,
    Starting, Handling, Leaving, AfterLoop, Poll, Reaped, Terminate, Start, kernelVars,
    resultVars, flowVars
<1>9. QED
  BY <1>1, <1>2, <1>3, <1>4, <1>5, <1>6, <1>7, <1>8 DEF IInv

LEMMA RemainsStep ==
    ASSUME IInv, Remains PROVE IInv'
<1>1. TypeOK'
  BY MembersAssumption DEF
    IInv, TypeOK, Members, Codes, MinSamples, Starting, Handling, Leaving, Remains,
    Terminate, Start, GroupExists, Exists, kernelVars, resultVars, flowVars
<1>2. KernelInv'
  BY MembersAssumption DEF
    IInv, TypeOK, KernelInv, LeaderExited, Members, Starting, Handling, Leaving,
    Remains, Terminate, Start, GroupExists, Exists, kernelVars, resultVars, flowVars
<1>3. FlowInv'
  BY MembersAssumption DEF
    IInv, TypeOK, FlowInv, Ending, Starting, Handling, Leaving, Remains, Terminate,
    Start, GroupExists, Exists, kernelVars, resultVars, flowVars
<1>4. QuietInv'
  BY MembersAssumption DEF
    IInv, TypeOK, QuietInv, KernelInv, FlowInv, Ending, AllGone, LeaderExited,
    DescendantsRemain, GroupExists, Running, Exists, Members, Starting, Handling,
    Leaving, Remains, Terminate, Start, kernelVars, resultVars, flowVars
<1>5. CodeInv'
  BY MembersAssumption DEF
    IInv, TypeOK, CodeInv, KernelInv, FlowInv, QuietInv, AllGone, LeaderExited, Ending,
    Members, Starting, Handling, Leaving, Remains, Terminate, Start, GroupExists,
    Exists, kernelVars, resultVars, flowVars
<1>6. ScanInv'
  BY MembersAssumption DEF
    IInv, TypeOK, ScanInv, KernelInv, FlowInv, Ending, LeaderExited, Running, Members,
    NewScan, NoScan, Starting, Handling, Leaving, Remains, Terminate, Start,
    GroupExists, Exists, kernelVars, resultVars, flowVars
<1>7. KillInv'
  BY MembersAssumption DEF
    IInv, TypeOK, KillInv, FlowInv, KernelInv, QuietInv, AllGone, LeaderExited,
    DescendantsRemain, GroupExists, Running, Exists, Ending, Members, Starting,
    Handling, Leaving, Remains, Terminate, Start, kernelVars, resultVars, flowVars
<1>8. ResultInv'
  BY MembersAssumption DEF
    IInv, TypeOK, ResultInv, KernelInv, FlowInv, QuietInv, CodeInv, AllGone,
    LeaderExited, DescendantsRemain, GroupExists, Exists, Members, Ending, MinSamples,
    Starting, Handling, Leaving, Remains, Terminate, Start, kernelVars, resultVars,
    flowVars
<1>9. QED
  BY <1>1, <1>2, <1>3, <1>4, <1>5, <1>6, <1>7, <1>8 DEF IInv

LEMMA VerdictStep ==
    ASSUME IInv, Verdict PROVE IInv'
<1>1. TypeOK'
  BY MembersAssumption DEF
    IInv, TypeOK, Members, Codes, MinSamples, Starting, Handling, Leaving, Verdict,
    kernelVars, resultVars, flowVars
<1>2. KernelInv'
  BY MembersAssumption DEF
    IInv, TypeOK, KernelInv, LeaderExited, Members, Starting, Handling, Leaving,
    Verdict, MinSamples, kernelVars, resultVars, flowVars
<1>3. FlowInv'
  BY MembersAssumption DEF
    IInv, TypeOK, FlowInv, Ending, Starting, Handling, Leaving, Verdict, MinSamples,
    kernelVars, resultVars, flowVars
<1>4. QuietInv'
  BY MembersAssumption DEF
    IInv, TypeOK, QuietInv, KernelInv, FlowInv, Ending, AllGone, LeaderExited,
    DescendantsRemain, GroupExists, Running, Exists, Members, Starting, Handling,
    Leaving, Verdict, MinSamples, kernelVars, resultVars, flowVars
<1>5. CodeInv'
  BY MembersAssumption DEF
    IInv, TypeOK, CodeInv, KernelInv, FlowInv, QuietInv, AllGone, LeaderExited, Ending,
    Members, Starting, Handling, Leaving, Verdict, MinSamples, kernelVars, resultVars,
    flowVars
<1>6. ScanInv'
  BY MembersAssumption DEF
    IInv, TypeOK, ScanInv, KernelInv, FlowInv, Ending, LeaderExited, Running, Members,
    NewScan, NoScan, Starting, Handling, Leaving, Verdict, MinSamples, kernelVars,
    resultVars, flowVars
<1>7. KillInv'
  BY MembersAssumption DEF
    IInv, TypeOK, KillInv, FlowInv, KernelInv, QuietInv, AllGone, LeaderExited,
    DescendantsRemain, GroupExists, Running, Exists, Ending, Members, Starting,
    Handling, Leaving, Verdict, MinSamples, kernelVars, resultVars, flowVars
<1>8. ResultInv'
  BY MembersAssumption DEF
    IInv, TypeOK, ResultInv, KernelInv, FlowInv, QuietInv, CodeInv, AllGone,
    LeaderExited, DescendantsRemain, GroupExists, Exists, Members, Ending, MinSamples,
    Starting, Handling, Leaving, Verdict, kernelVars, resultVars, flowVars
<1>9. QED
  BY <1>1, <1>2, <1>3, <1>4, <1>5, <1>6, <1>7, <1>8 DEF IInv

LEMMA ExitStep ==
    ASSUME IInv, Exit PROVE IInv'
<1>1. TypeOK'
  BY MembersAssumption DEF
    IInv, TypeOK, Members, Codes, MinSamples, Starting, Handling, Leaving, Exit,
    kernelVars, resultVars, flowVars
<1>2. KernelInv'
  BY MembersAssumption DEF
    IInv, TypeOK, KernelInv, LeaderExited, Members, Starting, Handling, Leaving, Exit,
    kernelVars, resultVars, flowVars
<1>3. FlowInv'
  BY MembersAssumption DEF
    IInv, TypeOK, FlowInv, Ending, Starting, Handling, Leaving, Exit, kernelVars,
    resultVars, flowVars
<1>4. QuietInv'
  BY MembersAssumption DEF
    IInv, TypeOK, QuietInv, KernelInv, FlowInv, Ending, AllGone, LeaderExited,
    DescendantsRemain, GroupExists, Running, Exists, Members, Starting, Handling,
    Leaving, Exit, kernelVars, resultVars, flowVars
<1>5. CodeInv'
  BY MembersAssumption DEF
    IInv, TypeOK, CodeInv, KernelInv, FlowInv, QuietInv, AllGone, LeaderExited, Ending,
    Members, Starting, Handling, Leaving, Exit, kernelVars, resultVars, flowVars
<1>6. ScanInv'
  BY MembersAssumption DEF
    IInv, TypeOK, ScanInv, KernelInv, FlowInv, Ending, LeaderExited, Running, Members,
    NewScan, NoScan, Starting, Handling, Leaving, Exit, kernelVars, resultVars, flowVars
<1>7. KillInv'
  BY MembersAssumption DEF
    IInv, TypeOK, KillInv, FlowInv, KernelInv, QuietInv, AllGone, LeaderExited,
    DescendantsRemain, GroupExists, Running, Exists, Ending, Members, Starting,
    Handling, Leaving, Exit, kernelVars, resultVars, flowVars
<1>8. ResultInv'
  BY MembersAssumption DEF
    IInv, TypeOK, ResultInv, KernelInv, FlowInv, QuietInv, CodeInv, AllGone,
    LeaderExited, DescendantsRemain, GroupExists, Exists, Members, Ending, MinSamples,
    Starting, Handling, Leaving, Exit, kernelVars, resultVars, flowVars
<1>9. QED
  BY <1>1, <1>2, <1>3, <1>4, <1>5, <1>6, <1>7, <1>8 DEF IInv

LEMMA InitInv == Init => IInv
<1> SUFFICES ASSUME Init PROVE IInv
  OBVIOUS
<1>1. TypeOK
  <2>1. scan \in [unread : SUBSET Members, seen : SUBSET Members,
                  resident : BOOLEAN, compiler : BOOLEAN]
    BY DEF Init, NoScan
  <2>2. stats \in [samples : 0 .. MinSamples, leader : BOOLEAN, compiler : BOOLEAN,
                   several : BOOLEAN]
    BY DEF Init, NoStats, MinSamples
  <2>3. /\ timers \in [{"initial", "termination", "grace", "kill"} -> {"off", "running", "expired"}]
        /\ member \in [Members -> {"absent", "running", "zombie", "gone"}]
    BY DEF Init
  <2>4. QED
    BY <2>1, <2>2, <2>3 DEF Init, TypeOK, Codes, Starting
<1>2. KernelInv /\ FlowInv
  BY MembersAssumption DEF Init, KernelInv, FlowInv, LeaderExited, Members, Starting, Handling,
    Leaving, Ending
<1>3. QuietInv /\ CodeInv /\ ScanInv /\ KillInv /\ ResultInv
  BY DEF Init, QuietInv, CodeInv, ScanInv, KillInv, ResultInv, Leaving
<1>4. QED
  BY <1>1, <1>2, <1>3 DEF IInv

(* A step that changes no variable of the supervisor preserves its invariant. *)
LEMMA StutterInv == IInv /\ UNCHANGED vars => IInv'
BY DEF IInv, TypeOK, KernelInv, FlowInv, QuietInv, CodeInv, ScanInv, KillInv, ResultInv, vars,
  kernelVars, resultVars, flowVars, AllGone, LeaderExited, DescendantsRemain, GroupExists,
  Exists, Running

LEMMA NextInv == IInv /\ [SupervisorNext]_vars => IInv'
<1> SUFFICES ASSUME IInv, [SupervisorNext]_vars PROVE IInv'
  OBVIOUS
<1>1. CASE Launch
  BY <1>1, LaunchStep
<1>2. CASE SupervisorStep
  BY <1>2, InstallHandlersStep, PopenStep, CheckSignalStep, ReadProcessStep, EndScanStep,
    InitialPollStep, InitialWriteStep, CheckpointStep, LoopPollStep, CheckDeadlineStep,
    RepollStep, GraceLoopStep, KillLeaderStep, KillGroupStep, IoFailsStep, ExceptStep,
    AfterLoopStep, RemainsStep, VerdictStep, ExitStep DEF SupervisorStep
<1>3. CASE Environment
  BY <1>3, ForkStep, DescendantExitsStep, DescendantReapedStep, LeaderExitsStep,
    TimeoutExpiresStep DEF Environment
<1>4. ASSUME NEW s \in Signals, DirectSignal(s) PROVE IInv'
  BY <1>4, DirectSignalStep
<1>5. CASE UNCHANGED vars
  BY <1>5, StutterInv
<1>6. QED
  BY <1>1, <1>2, <1>3, <1>4, <1>5 DEF SupervisorNext

-----------------------------------------------------------------------------
(* The shell. *)

(* What the shell knows at each of its steps.                                *)
ShellInv ==
    /\ shellPc \in ShellPcs /\ supervisorPid \in BOOLEAN
    /\ pendingSignal \in Signals \union {"none"}
    /\ commandStatus \in Codes /\ arrived \in 0 .. MaxSignals
    /\ shellPc = "spawn" <=> pc = "absent"
    /\ supervisorPid \/ shellPc \in {"relay", "wait", "interrupted", "waited"}
          => shellPc # "spawn"
    /\ shellPc \in {"waited", "evidence", "accepted", "failed"} => pc = "exited"
    /\ shellPc \in {"interrupted", "waited"} => commandStatus # "none"
    /\ commandStatus = "zero" => pc = "exited" /\ exitStatus = "zero"
    /\ shellPc \in {"evidence", "accepted"} => commandStatus = "zero" /\ pendingSignal = "none"
    /\ shellPc = "failed" /\ pendingSignal # "none" => commandStatus = "nonzero"
    /\ shellPc = "accepted" => EvidenceAccepted

(* A signal relayed by the shell is one that reaches the supervisor.         *)
LEMMA DeliveredIsSupervisorStep ==
    ASSUME NEW s \in Signals, Deliver(s), UNCHANGED deliveredOnly
    PROVE  [SupervisorNext]_vars
<1>1. CASE pc \in {"absent", "exited"}
  BY <1>1 DEF Deliver, deliveredOnly, vars, Handling
<1>2. CASE pc \notin {"absent", "exited"}
  BY <1>2 DEF DirectSignal, SupervisorNext, deliveredOnly
<1>3. QED
  BY <1>1, <1>2

LEMMA ShellImplementsSupervisor ==
    ASSUME ShellInv, [ShellNext]_allVars PROVE [SupervisorNext]_vars
<1>1. CASE ShellStep
  <2>1. CASE Spawn
    BY <2>1 DEF Spawn, SupervisorNext
  <2>2. CASE RelayPending
    BY <2>2, DeliveredIsSupervisorStep DEF RelayPending, ShellInv
  <2>3. CASE RecordPid \/ Wait \/ CheckAlive \/ Finish \/ CheckEvidence
    BY <2>3 DEF RecordPid, Wait, CheckAlive, Finish, CheckEvidence
  <2>4. QED
    BY <1>1, <2>1, <2>2, <2>3 DEF ShellStep
<1>2. ASSUME NEW s \in Signals, Trap(s) PROVE [SupervisorNext]_vars
  BY <1>2, DeliveredIsSupervisorStep DEF Trap
<1>3. ASSUME NEW s \in Signals, ShellDies(s) PROVE [SupervisorNext]_vars
  BY <1>3 DEF ShellDies
<1>4. ASSUME NEW s \in Signals, DirectSignal(s) PROVE [SupervisorNext]_vars
  BY <1>4 DEF SupervisorNext
<1>5. CASE SupervisorStep \/ Environment
  BY <1>5 DEF SupervisorNext
<1>6. CASE Done \/ UNCHANGED allVars
  BY <1>6 DEF Done, allVars
<1>7. QED
  BY <1>1, <1>2, <1>3, <1>4, <1>5, <1>6 DEF ShellNext

(* A supervisor that has exited changes nothing any more; one that has not    *)
(* been started takes no step of its own.                                    *)
finalVars == <<pc, exitStatus, evidence, forwarded, stats, resultVars>>

LEMMA ExitedIsFinal ==
    ASSUME pc = "exited", [SupervisorNext]_vars PROVE UNCHANGED finalVars
<1>1. ~SupervisorStep /\ ~Launch
  BY DEF SupervisorStep, Launch, InstallHandlers, Popen, CheckSignal, ReadProcess, EndScan,
    InitialPoll, InitialWrite, Checkpoint, LoopPoll, CheckDeadline, Repoll, GraceLoop,
    KillLeader, KillGroup, IoFails, Except, AfterLoop, Remains, Verdict, Exit
<1>2. CASE Environment
  BY <1>2 DEF Environment, Fork, DescendantExits, DescendantReaped, LeaderExits,
    TimeoutExpires, groupOnly, finalVars
<1>3. ASSUME NEW s \in Signals, DirectSignal(s) PROVE FALSE
  BY <1>3 DEF DirectSignal
<1>4. QED
  BY <1>1, <1>2, <1>3 DEF SupervisorNext, vars, finalVars

LEMMA StartedStays ==
    ASSUME TypeOK, SupervisorStep \/ Environment \/ \E s \in Signals : DirectSignal(s)
    PROVE  pc = "absent" <=> pc' = "absent"
<1>1. CASE SupervisorStep
  BY <1>1 DEF TypeOK, SupervisorStep, InstallHandlers, Popen, CheckSignal, ReadProcess, EndScan,
    InitialPoll, InitialWrite, Checkpoint, LoopPoll, CheckDeadline, Repoll, GraceLoop,
    KillLeader, KillGroup, IoFails, Except, AfterLoop, Remains, Verdict, Exit, Kill, Returns,
    Raise, Terminate
<1>2. CASE Environment
  BY <1>2 DEF Environment, Fork, DescendantExits, DescendantReaped, LeaderExits,
    TimeoutExpires, groupOnly
<1>3. ASSUME NEW s \in Signals, DirectSignal(s) PROVE pc = "absent" <=> pc' = "absent"
  BY <1>3 DEF DirectSignal, Deliver, Handling
<1>4. QED
  BY <1>1, <1>2, <1>3

(* The supervisor moves while the shell stands still. *)
LEMMA ShellWaits ==
    ASSUME IInv, ShellInv, UNCHANGED shellVars,
           SupervisorStep \/ Environment \/ \E s \in Signals : DirectSignal(s)
    PROVE  ShellInv'
<1>1. pc = "absent" <=> pc' = "absent"
  BY StartedStays DEF IInv
<1>2. pc = "exited" => UNCHANGED finalVars
  BY ExitedIsFinal DEF SupervisorNext
<1>3. EvidenceAccepted /\ pc = "exited" => EvidenceAccepted'
  BY <1>2 DEF finalVars, resultVars, EvidenceAccepted
<1>4. QED
  BY <1>1, <1>2, <1>3 DEF ShellInv, shellVars, finalVars

LEMMA ShellStutters ==
    ASSUME ShellInv, UNCHANGED allVars PROVE ShellInv'
BY DEF ShellInv, allVars, vars, shellVars, resultVars, EvidenceAccepted

(* A signal is relayed. *)
LEMMA DeliverKeeps ==
    ASSUME NEW s \in Signals, Deliver(s), UNCHANGED deliveredOnly
    PROVE  /\ pc = "absent" <=> pc' = "absent"
           /\ pc = "exited" => UNCHANGED finalVars
BY DEF Deliver, Handling, deliveredOnly, finalVars

LEMMA TrapStep ==
    ASSUME IInv, ShellInv, NEW s \in Signals, Trap(s) PROVE ShellInv'
<1>1. /\ pc = "absent" <=> pc' = "absent"
      /\ pc = "exited" => UNCHANGED finalVars
  <2>1. CASE supervisorPid /\ Deliver(s) /\ UNCHANGED deliveredOnly
    BY <2>1, DeliverKeeps
  <2>2. CASE UNCHANGED vars
    BY <2>2 DEF vars, finalVars
  <2>3. QED
    BY <2>1, <2>2 DEF Trap
<1>2. arrived' \in 0 .. MaxSignals
  BY SignalsAssumption DEF Trap, ShellInv
<1>3. QED
  BY <1>1, <1>2 DEF Trap, Trapping, ShellInv, ShellPcs, Codes, finalVars

LEMMA RelayPendingStep ==
    ASSUME IInv, ShellInv, RelayPending PROVE ShellInv'
<1>1. /\ pc = "absent" <=> pc' = "absent"
      /\ pc = "exited" => UNCHANGED finalVars
  <2>1. CASE pendingSignal # "none" /\ Deliver(pendingSignal) /\ UNCHANGED deliveredOnly
    <3>1. pendingSignal \in Signals
      BY <2>1 DEF ShellInv
    <3>2. QED
      BY <2>1, <3>1, DeliverKeeps
  <2>2. CASE UNCHANGED vars
    BY <2>2 DEF vars, finalVars
  <2>3. QED
    BY <2>1, <2>2 DEF RelayPending
<1>2. QED
  BY <1>1 DEF RelayPending, ShellInv, ShellPcs, finalVars

(* The other steps of the shell. *)
LEMMA ShellStepInv ==
    ASSUME IInv, ShellInv, ShellStep PROVE ShellInv'
<1>1. CASE Spawn
  BY <1>1 DEF Spawn, Launch, ShellInv, ShellPcs
<1>2. CASE RecordPid
  BY <1>2 DEF RecordPid, ShellInv, ShellPcs, vars
<1>3. CASE RelayPending
  BY <1>3, RelayPendingStep
<1>4. CASE Wait
  BY <1>4 DEF Wait, ShellInv, ShellPcs, vars, IInv, TypeOK, ResultInv
<1>5. CASE CheckAlive
  BY <1>5 DEF CheckAlive, ShellInv, ShellPcs, vars
<1>6. CASE Finish
  BY <1>6 DEF Finish, ShellInv, ShellPcs, Codes, vars
<1>7. CASE CheckEvidence
  BY <1>7 DEF CheckEvidence, ShellInv, ShellPcs, EvidenceAccepted, vars, resultVars
<1>8. QED
  BY <1>1, <1>2, <1>3, <1>4, <1>5, <1>6, <1>7 DEF ShellStep

FullInv == IInv /\ ShellInv

LEMMA ShellNextInv == FullInv /\ [ShellNext]_allVars => FullInv'
<1> SUFFICES ASSUME FullInv, [ShellNext]_allVars PROVE FullInv'
  OBVIOUS
<1>1. IInv'
  BY ShellImplementsSupervisor, NextInv DEF FullInv
<1>2. ShellInv'
  <2>1. CASE ShellStep
    BY <2>1, ShellStepInv DEF FullInv
  <2>2. ASSUME NEW s \in Signals, Trap(s) PROVE ShellInv'
    BY <2>2, TrapStep DEF FullInv
  <2>3. ASSUME NEW s \in Signals, ShellDies(s) PROVE ShellInv'
    BY <2>3 DEF ShellDies, FullInv, ShellInv, ShellPcs, vars
  <2>4. CASE (SupervisorStep \/ Environment \/ \E s \in Signals : DirectSignal(s)) /\ UNCHANGED shellVars
    BY <2>4, ShellWaits DEF FullInv
  <2>5. CASE UNCHANGED allVars
    BY <2>5, ShellStutters DEF FullInv
  <2>6. QED
    BY <2>1, <2>2, <2>3, <2>4, <2>5 DEF ShellNext, Done
<1>3. QED
  BY <1>1, <1>2 DEF FullInv

LEMMA ShellInitInv == ShellInit => FullInv
<1> SUFFICES ASSUME ShellInit PROVE FullInv
  OBVIOUS
<1>1. IInv
  BY InitInv DEF ShellInit
<1>2. arrived \in 0 .. MaxSignals
  BY SignalsAssumption DEF ShellInit
<1>3. ShellInv
  BY <1>2 DEF ShellInit, Init, ShellInv, ShellPcs, Codes
<1>4. QED
  BY <1>1, <1>3 DEF FullInv

LEMMA AlwaysFullInv == Spec => []FullInv
BY ShellInitInv, ShellNextInv, PTL DEF Spec

-----------------------------------------------------------------------------
(* The theorems. *)

(* Every variable keeps its type, for every set of descendants and signals.  *)
THEOREM TypeCorrect == Spec => []ShellTypeOK
<1>1. FullInv => ShellTypeOK
  BY DEF FullInv, IInv, ShellInv, ShellTypeOK
<1>2. QED
  BY <1>1, AlwaysFullInv, PTL

(* No process of the build outlives its supervisor, but for one that has      *)
(* been sent SIGKILL.                                                        *)
THEOREM NoStraysTheorem == Spec => []NoStrays
<1>1. FullInv => NoStrays
  BY DEF FullInv, IInv, QuietInv, NoStrays, Leaving
<1>2. QED
  BY <1>1, AlwaysFullInv, PTL

(* The supervisor's status is known, and status 0 is proved by the evidence. *)
THEOREM StatusTheorem == Spec => []StatusIsHonest
<1>1. FullInv => StatusIsHonest
  BY DEF FullInv, IInv, ResultInv, StatusIsHonest
<1>2. QED
  BY <1>1, AlwaysFullInv, PTL

(* Complete evidence describes a build that is over, with its own status.    *)
THEOREM CompleteTheorem == Spec => []CompleteIsFinal
<1>1. FullInv => CompleteIsFinal
  BY DEF FullInv, IInv, ResultInv, KernelInv, CompleteIsFinal
<1>2. QED
  BY <1>1, AlwaysFullInv, PTL

(* Neither the status nor the evidence says more than is so.                 *)
THEOREM VerdictTheorem == Spec => []VerdictIsHonest
<1>1. StatusIsHonest /\ CompleteIsFinal => VerdictIsHonest
  BY DEF VerdictIsHonest
<1>2. QED
  BY <1>1, StatusTheorem, CompleteTheorem, PTL

(* run_rss_supervised_command does not return before its supervisor.         *)
THEOREM ShellOutlivesTheorem == Spec => []ShellOutlivesBuild
<1>1. FullInv => ShellOutlivesBuild
  BY DEF FullInv, IInv, ShellInv, QuietInv, Leaving, ShellOutlivesBuild
<1>2. QED
  BY <1>1, AlwaysFullInv, PTL

(* A caught signal makes the status of the function nonzero.                 *)
THEOREM SignalTheorem == Spec => []SignalMeansFailure
<1>1. FullInv => SignalMeansFailure
  BY DEF FullInv, ShellInv, ShellPcs, Trapping, SignalMeansFailure
<1>2. QED
  BY <1>1, AlwaysFullInv, PTL

(* The script accepts only a build that succeeded by itself, was sampled,    *)
(* was not interrupted and has left nothing running.                         *)
THEOREM AcceptedTheorem == Spec => []AcceptedBuildIsClean
<1>1. FullInv => AcceptedBuildIsClean
  <2> SUFFICES ASSUME FullInv, shellPc = "accepted" PROVE AcceptedBuildIsClean
    BY DEF AcceptedBuildIsClean
  <2>1. EvidenceAccepted /\ pendingSignal = "none" /\ pc = "exited"
    BY DEF FullInv, ShellInv
  <2>2. leaderCode = "zero" /\ ~GroupExists /\ ~raising
    BY <2>1 DEF FullInv, IInv, ResultInv, EvidenceAccepted
  <2>3. ~killed
    BY <2>1, <2>2 DEF FullInv, IInv, KillInv, EvidenceAccepted
  <2>4. QED
    BY <2>1, <2>2, <2>3 DEF AcceptedBuildIsClean, EvidenceAccepted
<1>2. QED
  BY <1>1, AlwaysFullInv, PTL

-----------------------------------------------------------------------------
(* The relay of signals. *)

(* A TERM that the shell has relayed is recorded by the supervisor's handler, *)
(* or has ended a supervisor that had none.                                  *)
ForwardInv ==
    /\ shellPc \in {"relay", "wait", "interrupted"} => supervisorPid
    /\ shellPc \in {"wait", "interrupted"} /\ pendingSignal = "TERM"
          => requested # "none" \/ pc = "exited"

(* What has been recorded or has exited stays so. *)
LEMMA RecordedStays ==
    ASSUME [SupervisorNext]_vars, requested # "none" \/ pc = "exited"
    PROVE  requested' # "none" \/ pc' = "exited"
<1>1. pc = "exited" => pc' = "exited"
  BY ExitedIsFinal DEF finalVars
<1>2. requested # "none" => requested' = requested
  <2>1. CASE SupervisorStep \/ Launch
    BY <2>1 DEF SupervisorStep, Launch, InstallHandlers, Popen, CheckSignal, ReadProcess,
      EndScan, InitialPoll, InitialWrite, Checkpoint, LoopPoll, CheckDeadline, Repoll,
      GraceLoop, KillLeader, KillGroup, IoFails, Except, AfterLoop, Remains, Verdict, Exit,
      Kill, envOnly
  <2>2. CASE Environment
    BY <2>2 DEF Environment, Fork, DescendantExits, DescendantReaped, LeaderExits,
      TimeoutExpires, groupOnly
  <2>3. ASSUME NEW s \in Signals, DirectSignal(s)
        PROVE  requested # "none" => requested' = requested
    BY <2>3 DEF DirectSignal, Deliver
  <2>4. QED
    BY <2>1, <2>2, <2>3 DEF SupervisorNext, vars
<1>3. QED
  BY <1>1, <1>2

LEMMA TermIsTaken ==
    ASSUME TypeOK, pc # "absent", Deliver("TERM")
    PROVE  requested' # "none" \/ pc' = "exited"
BY DEF Deliver, Handling

LEMMA ForwardStep ==
    ASSUME FullInv, ForwardInv, [ShellNext]_allVars PROVE ForwardInv'
<1>1. [SupervisorNext]_vars
  BY ShellImplementsSupervisor DEF FullInv
<1>2. requested # "none" \/ pc = "exited" => requested' # "none" \/ pc' = "exited"
  BY <1>1, RecordedStays
<1>3. CASE ShellStep
  <2>1. CASE RelayPending
    <3>1. pc # "absent" /\ TypeOK
      BY <2>1 DEF RelayPending, FullInv, IInv, ShellInv
    <3>2. pendingSignal = "TERM" => requested' # "none" \/ pc' = "exited"
      BY <2>1, <3>1, TermIsTaken DEF RelayPending
    <3>3. QED
      BY <2>1, <3>2 DEF RelayPending, ForwardInv
  <2>2. CASE Spawn \/ RecordPid \/ Wait \/ CheckAlive \/ Finish \/ CheckEvidence
    BY <1>2, <2>2 DEF Spawn, RecordPid, Wait, CheckAlive, Finish, CheckEvidence, ForwardInv
  <2>3. QED
    BY <1>3, <2>1, <2>2 DEF ShellStep
<1>4. ASSUME NEW s \in Signals, Trap(s) PROVE ForwardInv'
  <2>1. supervisorPid' = supervisorPid /\ pendingSignal' = s
    BY <1>4, Zenon DEF Trap
  <2>2. shellPc' = shellPc \/ (shellPc = "wait" /\ shellPc' = "interrupted")
    BY <1>4 DEF Trap
  <2>3. ASSUME shellPc \in {"wait", "interrupted"}, s = "TERM"
        PROVE  requested' # "none" \/ pc' = "exited"
    <3>1. Deliver("TERM")
      BY <1>4, <2>3 DEF Trap, ForwardInv
    <3>2. pc # "absent" /\ TypeOK
      BY <2>3 DEF FullInv, IInv, ShellInv
    <3>3. QED
      BY <3>1, <3>2, TermIsTaken
  <2>4. QED
    BY <2>1, <2>2, <2>3 DEF ForwardInv
<1>5. ASSUME NEW s \in Signals, ShellDies(s) PROVE ForwardInv'
  BY <1>5 DEF ShellDies, ForwardInv
<1>6. CASE UNCHANGED shellVars
  BY <1>2, <1>6 DEF shellVars, ForwardInv
<1>7. QED
  BY <1>3, <1>4, <1>5, <1>6 DEF ShellNext, Done, allVars

(* While the shell waits and the build runs, a TERM to the shell has reached  *)
(* the supervisor, or the build has been sent SIGKILL.                       *)
THEOREM ForwardTheorem == Spec => []TerminationIsForwarded
<1>1. ShellInit => ForwardInv
  BY DEF ShellInit, ForwardInv
<1>2. FullInv /\ ForwardInv /\ [ShellNext]_allVars => ForwardInv'
  BY ForwardStep
<1>3. FullInv /\ ForwardInv => TerminationIsForwarded
  BY MembersAssumption DEF FullInv, IInv, QuietInv, ForwardInv, Leaving, Members,
    TerminationIsForwarded
<1>4. QED
  BY <1>1, <1>2, <1>3, AlwaysFullInv, PTL DEF Spec

-----------------------------------------------------------------------------
(* The refinement. *)

(* Nothing of the build is at work once its supervisor has exited. *)
LEMMA NothingAtWork ==
    ASSUME FullInv, pc = "exited" PROVE AtWork = {}
BY DEF FullInv, IInv, QuietInv, Leaving, AtWork

LEMMA VerdictIsFinal ==
    ASSUME FullInv, [ShellNext]_allVars, FinalVerdict # "pending"
    PROVE  UNCHANGED shellVars /\ pc = "exited" /\ FinalVerdict = shellPc
<1>1. shellPc \in {"accepted", "failed"} /\ FinalVerdict = shellPc
  BY DEF FinalVerdict
<1>2. pc = "exited"
  BY <1>1 DEF FullInv, ShellInv
<1>3. UNCHANGED shellVars
  BY <1>1, <1>2 DEF ShellNext, ShellStep, Spawn, RecordPid, RelayPending, Wait, CheckAlive,
    Finish, CheckEvidence, Trap, Trapping, ShellDies, Done, allVars
<1>4. QED
  BY <1>1, <1>2, <1>3

(* The leader's wait status is set once. *)
LEMMA LeaderExitsOnce ==
    ASSUME FullInv, [SupervisorNext]_vars PROVE leaderCode = "none" \/ leaderCode' = leaderCode
<1>1. CASE SupervisorStep \/ Launch
  BY <1>1 DEF SupervisorStep, Launch, InstallHandlers, Popen, CheckSignal, ReadProcess, EndScan,
    InitialPoll, InitialWrite, Checkpoint, LoopPoll, CheckDeadline, Repoll, GraceLoop,
    KillLeader, KillGroup, IoFails, Except, AfterLoop, Remains, Verdict, Exit, Kill, Returns,
    Poll, envOnly, kernelVars
<1>2. CASE Environment
  BY <1>2 DEF FullInv, IInv, KernelInv, LeaderExited, Running, Environment, Fork,
    DescendantExits, DescendantReaped, LeaderExits, TimeoutExpires, kernelVars
<1>3. ASSUME NEW s \in Signals, DirectSignal(s)
      PROVE  leaderCode = "none" \/ leaderCode' = leaderCode
  BY <1>3 DEF DirectSignal, kernelVars
<1>4. QED
  BY <1>1, <1>2, <1>3 DEF SupervisorNext, vars, kernelVars

(* A shell step that gives the verdict leaves the supervisor's variables     *)
(* alone.                                                                    *)
LEMMA GivesVerdict ==
    ASSUME FullInv, [ShellNext]_allVars, FinalVerdict = "pending", FinalVerdict' # "pending"
    PROVE  /\ UNCHANGED vars /\ pc = "exited" /\ FinalVerdict' \in {"accepted", "failed"}
           /\ FinalVerdict' = "accepted" => leaderCode = "zero"
<1>1. shellPc \notin {"accepted", "failed"} /\ shellPc' \in {"accepted", "failed"}
  <2>1. shellPc \in {"accepted", "failed"} => shellPc # "pending"
    OBVIOUS
  <2>2. shellPc \notin {"accepted", "failed"}
    BY <2>1 DEF FinalVerdict
  <2>3. shellPc' \in {"accepted", "failed"}
    BY DEF FinalVerdict
  <2>4. QED
    BY <2>2, <2>3
<1>2. /\ UNCHANGED vars /\ shellPc \in {"waited", "evidence"}
      /\ shellPc' = "accepted" => EvidenceAccepted
  BY <1>1 DEF ShellNext, ShellStep, Spawn, RecordPid, RelayPending, Wait, CheckAlive,
    Finish, CheckEvidence, Trap, Trapping, ShellDies, Done, allVars, shellVars
<1>3. pc = "exited"
  BY <1>2 DEF FullInv, ShellInv
<1>4. EvidenceAccepted => leaderCode = "zero"
  BY DEF EvidenceAccepted, FullInv, IInv, ResultInv
<1>5. QED
  BY <1>1, <1>2, <1>3, <1>4 DEF FinalVerdict

LEMMA RefinedInit == ShellInit => Build!BuildInit
BY DEF ShellInit, Init, Build!BuildInit, AtWork, FinalVerdict, Running

LEMMA RefinedNext ==
    ASSUME FullInv, FullInv', [ShellNext]_allVars
    PROVE  [Build!Work \/ Build!Accept \/ Build!Fail \/ Build!Bury]_(Build!buildVars)
<1>1. leaderCode = "none" \/ leaderCode' = leaderCode
  BY ShellImplementsSupervisor, LeaderExitsOnce DEF FullInv
<1>2. leaderCode' \in {"none", "zero", "nonzero"}
  BY DEF FullInv, IInv, TypeOK, Codes
<1>3. CASE FinalVerdict = "pending" /\ FinalVerdict' = "pending"
  <2>1. AtWork' \in SUBSET Members
    BY DEF AtWork, Members
  <2>2. QED
    BY <1>1, <1>2, <1>3, <2>1 DEF Build!Work
<1>4. CASE FinalVerdict = "pending" /\ FinalVerdict' # "pending"
  <2>1. /\ UNCHANGED vars /\ pc = "exited" /\ FinalVerdict' \in {"accepted", "failed"}
        /\ FinalVerdict' = "accepted" => leaderCode = "zero"
    BY <1>4, GivesVerdict
  <2>2. AtWork = {} /\ AtWork' = {}
    <3>1. pc' = "exited"
      BY <2>1 DEF vars
    <3>2. AtWork' = {}
      BY <3>1 DEF FullInv, IInv, QuietInv, Leaving, AtWork, Running
    <3>3. QED
      BY <2>1, <3>2, NothingAtWork
  <2>3. leaderCode' = leaderCode
    BY <2>1 DEF vars, kernelVars
  <2>4. QED
    BY <1>4, <2>1, <2>2, <2>3 DEF Build!Accept, Build!Fail
<1>5. CASE FinalVerdict # "pending"
  <2>1. UNCHANGED shellVars /\ pc = "exited" /\ FinalVerdict = shellPc
    BY <1>5, VerdictIsFinal
  <2>2. FinalVerdict' = FinalVerdict
    BY <2>1 DEF shellVars, FinalVerdict
  <2>3. pc' = "exited"
    BY <2>1, ShellImplementsSupervisor, ExitedIsFinal DEF FullInv, finalVars
  <2>4. AtWork = {} /\ AtWork' = {}
    <3>1. AtWork' = {}
      BY <2>3 DEF FullInv, IInv, QuietInv, Leaving, AtWork, Running
    <3>2. QED
      BY <2>1, <3>1, NothingAtWork
  <2>5. CASE leaderCode' = leaderCode
    BY <2>2, <2>4, <2>5 DEF Build!buildVars
  <2>6. CASE leaderCode = "none" /\ leaderCode' # "none"
    <3>1. FinalVerdict # "accepted"
      BY <2>1, <2>6 DEF FullInv, ShellInv, EvidenceAccepted, IInv, ResultInv
    <3>2. FinalVerdict = "failed"
      BY <1>5, <3>1 DEF FinalVerdict
    <3>3. QED
      BY <1>2, <2>2, <2>4, <2>6, <3>2 DEF Build!Bury
  <2>7. QED
    BY <1>1, <2>5, <2>6
<1>6. QED
  BY <1>3, <1>4, <1>5

(* The script with its supervisor, the kernel and the signals implements      *)
(* SupervisedBuild: one verdict, when nothing of the build is at work.       *)
THEOREM BuildTheorem == Spec => ImplementsSupervisedBuild
<1>1. FullInv /\ FullInv' /\ [ShellNext]_allVars
        => [Build!Work \/ Build!Accept \/ Build!Fail \/ Build!Bury]_(Build!buildVars)
  BY RefinedNext
<1>2. QED
  BY <1>1, RefinedInit, AlwaysFullInv, PTL DEF Spec, ImplementsSupervisedBuild, Build!BuildSpec

-----------------------------------------------------------------------------
(* The races of the scan. *)

LEMMA NoAlarmStep ==
    ASSUME ProcReadable, IInv, [SupervisorNext]_vars, monitorError' # monitorError,
           monitorError' \in {"unobservable", "outlived", "disappeared", "remained"}
    PROVE  LeaderExited /\ DescendantsRemain
<1>1. InitialPoll \/ LoopPoll \/ Repoll \/ Remains
  <2>1. ~Launch /\ ~Environment /\ ~UNCHANGED vars
    BY DEF Launch, Environment, Fork, DescendantExits, DescendantReaped, LeaderExits,
      TimeoutExpires, groupOnly, resultVars, vars
  <2>2. ASSUME NEW s \in Signals, DirectSignal(s) PROVE FALSE
    BY <2>2 DEF DirectSignal, resultVars
  <2>3. SupervisorStep
    BY <2>1, <2>2 DEF SupervisorNext
  <2>4. QED
    BY <2>3 DEF SupervisorStep, InstallHandlers, Popen, CheckSignal, ReadProcess, EndScan,
      InitialWrite, Checkpoint, CheckDeadline, GraceLoop, KillLeader, KillGroup, IoFails,
      Except, AfterLoop, Verdict, Exit, resultVars
<1>2. CASE InitialPoll
  BY <1>2 DEF IInv, ScanInv, InitialPoll
<1>3. CASE LoopPoll
  BY <1>3 DEF LoopPoll
<1>4. CASE Repoll
  BY <1>4 DEF IInv, ScanInv, Repoll
<1>5. CASE Remains
  BY <1>5 DEF IInv, QuietInv, Remains
<1>6. QED
  BY <1>1, <1>2, <1>3, <1>4, <1>5

(* Where /proc can be read, the monitor reports a group that outlived its     *)
(* leader or vanished only when a descendant has in fact outlived it.        *)
THEOREM NoFalseAlarmTheorem == ASSUME ProcReadable PROVE Spec => NoFalseAlarm
<1>1. FullInv /\ [ShellNext]_allVars
        => [monitorError' # monitorError
            /\ monitorError' \in {"unobservable", "outlived", "disappeared", "remained"}
            => LeaderExited /\ DescendantsRemain]_vars
  BY NoAlarmStep, ShellImplementsSupervisor DEF FullInv
<1>2. QED
  BY <1>1, AlwaysFullInv, PTL DEF Spec, NoFalseAlarm

-----------------------------------------------------------------------------
(* Escalation.  What RelayedSignalEndsBuild rests on besides fairness: once   *)
(* a signal has been requested or the command has exited, every step of the   *)
(* supervisor brings its end closer, except that its two loops go round while *)
(* the clock of the loop still runs; and every wait has its clock.            *)

InitialPcs == {"initial_signal", "initial_scan", "initial_poll", "initial_write"}
LoopPcs    == {"signal", "poll", "deadline", "scan", "repoll", "checkpoint"}

(* The stages of the supervisor, numbered down to its exit.  No              *)
(* step whatever returns to an earlier one.                                  *)
Ends(next) == pc \in Ending /\ returnTo = next

Stage ==
    CASE pc = "absent"      -> 15
      [] pc = "starting"    -> 14
      [] pc = "popen"       -> 13
      [] pc \in InitialPcs  -> 12
      [] pc \in LoopPcs     -> IF timers["termination"] = "off" THEN 11 ELSE 10
      [] Ends("after_loop") -> 9
      [] pc = "after_loop"  -> 8
      [] Ends("remains")    -> 7
      [] pc = "remains"     -> 6
      [] Ends("verdict")    -> 5
      [] pc = "verdict"     -> 4
      [] pc = "exception"   -> 3
      [] Ends("restored")   -> 2
      [] pc = "restored"    -> 1
      [] OTHER              -> 0

(* The steps left in a stage whose clock, if it has one, has expired.  Until  *)
(* a signal is forwarded the loop ends at its head, by forwarding it, or, if  *)
(* the command has exited without one, at the poll; then it ends at the       *)
(* deadline.                                                                  *)
Forwarding == timers["termination"] = "off" /\ requested # "none"
Polling    == timers["termination"] = "off" /\ requested = "none"

Position ==
    CASE pc = "initial_signal" -> 3
      [] pc = "initial_scan"   -> 2
      [] pc = "initial_poll"   -> 1
      [] pc = "poll"       -> IF Forwarding THEN 4 ELSE IF Polling THEN 0 ELSE 1
      [] pc = "deadline"   -> IF Forwarding THEN 3 ELSE IF Polling THEN 4 ELSE 0
      [] pc = "scan"       -> IF Forwarding THEN 2 ELSE IF Polling THEN 3 ELSE 4
      [] pc \in {"repoll", "checkpoint"}
                           -> IF Forwarding THEN 1 ELSE IF Polling THEN 2 ELSE 3
      [] pc = "signal"     -> IF Forwarding THEN 0 ELSE IF Polling THEN 1 ELSE 2
      [] pc = "grace"       -> 3
      [] pc = "kill_leader" -> 2
      [] pc = "kill_group"  -> 1
      [] OTHER             -> 0

(* A loop goes round because its clock still runs.                           *)
GoesRound ==
    \/ pc = "initial_poll" /\ timers["initial"] = "running"
    \/ pc = "deadline" /\ timers["termination"] = "running"

Reads == scan'.unread \subseteq scan.unread /\ scan'.unread # scan.unread

Nearer ==
    \/ Stage' < Stage
    \/ Stage' = Stage /\ Position' < Position
    \/ Stage' = Stage /\ Position' = Position /\ Reads

Asked == requested # "none" \/ LeaderExited

Escalation ==
    /\ Stage' <= Stage
    /\ SupervisorStep /\ Asked => Nearer \/ GoesRound

(* Every wait has its clock.                                                 *)
TimerInv ==
    /\ pc \in InitialPcs => timers["initial"] # "off"
    /\ pc = "grace" => timers["grace"] # "off"
    /\ pc \in {"kill_leader", "kill_group"} => timers["kill"] # "off"
    /\ forwarded # "none" => timers["termination"] # "off"

TimersOK == timers \in [{"initial", "termination", "grace", "kill"} -> {"off", "running", "expired"}]

Progress == Stage' <= Stage /\ (Asked => Nearer \/ GoesRound)

USE DEF Stage, Position, Ends, Ending, Forwarding, Polling, GoesRound, Nearer, Asked, InitialPcs, LoopPcs,
        TimersOK, TimerInv, Progress

LEMMA LoopProgress ==
    ASSUME IInv, TimerInv,
           \/ InstallHandlers \/ Popen \/ CheckSignal \/ EndScan \/ InitialPoll
           \/ InitialWrite \/ Checkpoint \/ LoopPoll \/ CheckDeadline \/ Repoll
    PROVE  Progress /\ TimerInv'
<1>0. TimersOK /\ pc \in Starting \union Handling \union Leaving
  BY DEF IInv, TypeOK
<1>. USE DEF Starting, Handling, Leaving
<1>1. CASE InstallHandlers
  BY <1>0, <1>1 DEF InstallHandlers, resultVars, flowVars
<1>2. CASE Popen
  BY <1>0, <1>2 DEF Popen, Start, envOnly, resultVars, flowVars
<1>3. CASE CheckSignal
  BY <1>0, <1>3 DEF CheckSignal, Start, resultVars, flowVars
<1>4. CASE EndScan
  BY <1>0, <1>4 DEF EndScan, resultVars, flowVars
<1>5. CASE InitialPoll
  BY <1>0, <1>5 DEF InitialPoll, Expired, resultVars, flowVars
<1>6. CASE InitialWrite
  BY <1>0, <1>6 DEF InitialWrite, Stop, resultVars, flowVars
<1>7. CASE Checkpoint
  BY <1>0, <1>7 DEF Checkpoint, resultVars, flowVars
<1>8. CASE LoopPoll
  BY <1>0, <1>8 DEF LoopPoll, Poll, resultVars, flowVars
<1>9. CASE CheckDeadline
  BY <1>0, <1>9 DEF CheckDeadline, Expired, Kill, resultVars, flowVars
<1>10. CASE Repoll
  BY <1>0, <1>10 DEF Repoll, resultVars, flowVars
<1>. QED  BY <1>1, <1>2, <1>3, <1>4, <1>5, <1>6, <1>7, <1>8, <1>9, <1>10

LEMMA EndProgress ==
    ASSUME IInv, TimerInv,
           \/ GraceLoop \/ KillLeader \/ KillGroup \/ IoFails \/ Except
           \/ AfterLoop \/ Remains \/ Verdict \/ Exit
    PROVE  Progress /\ TimerInv'
<1>0. TimersOK /\ pc \in Starting \union Handling \union Leaving
  BY DEF IInv, TypeOK
<1>. USE DEF Starting, Handling, Leaving
<1>00. /\ pc \in Ending => returnTo \in {"after_loop", "remains", "verdict", "restored"}
       /\ returnTo = "restored" => pc \in Ending \cup Leaving
  BY DEF IInv, TypeOK, FlowInv
<1>1. CASE GraceLoop
  BY <1>0, <1>00, <1>1 DEF GraceLoop, Expired, Kill, Returns, Stop, resultVars, flowVars
<1>2. CASE KillLeader
  BY <1>0, <1>00, <1>2 DEF KillLeader, Start, Stop, Raise, resultVars, flowVars
<1>3. CASE KillGroup
  BY <1>0, <1>00, <1>3 DEF KillGroup, Returns, Stop, Raise, resultVars, flowVars
<1>4. CASE IoFails
  BY <1>0, <1>00, <1>4 DEF IoFails, Raise, resultVars, flowVars
<1>5. CASE Except
  BY <1>0, <1>00, <1>5 DEF Except, Terminate, Start, resultVars, flowVars
<1>6. CASE AfterLoop
  BY <1>0, <1>00, <1>6 DEF AfterLoop, Terminate, Start, resultVars, flowVars
<1>7. CASE Remains
  BY <1>0, <1>00, <1>7 DEF Remains, Terminate, Start, resultVars, flowVars
<1>8. CASE Verdict
  BY <1>0, <1>00, <1>8 DEF Verdict, resultVars, flowVars
<1>9. CASE Exit
  BY <1>0, <1>00, <1>9 DEF Exit, resultVars, flowVars
<1>. QED  BY <1>1, <1>2, <1>3, <1>4, <1>5, <1>6, <1>7, <1>8, <1>9

LEMMA ReadProgress ==
    ASSUME IInv, TimerInv, NEW p \in Members, ReadProcess(p)
    PROVE  Progress /\ TimerInv'
<1>1. Reads
  <2>1. \/ scan'.unread = scan.unread \ {p}
        \/ scan' = [scan EXCEPT !.unread = @ \ {p}]
    BY DEF ReadProcess
  <2>2. scan \in [unread : SUBSET Members, seen : SUBSET Members, resident : BOOLEAN, compiler : BOOLEAN]
    BY DEF IInv, TypeOK
  <2>3. scan'.unread = scan.unread \ {p}
    BY <2>1, <2>2
  <2>. QED  BY <2>3 DEF ReadProcess, Reads
<1>. QED  BY <1>1 DEF ReadProcess, flowVars

LEMMA SupervisorProgress ==
    ASSUME IInv, TimerInv, SupervisorStep
    PROVE  Progress /\ TimerInv'
BY LoopProgress, EndProgress, ReadProgress DEF SupervisorStep

(* What is no step of the supervisor itself leaves its place and its clocks   *)
(* alone, but for a signal that ends it and a clock that expires.            *)
LEMMA OtherProgress ==
    ASSUME IInv, TimerInv, [SupervisorNext]_vars, ~SupervisorStep
    PROVE  Stage' <= Stage /\ TimerInv'
<1>0. TimersOK /\ pc \in Starting \union Handling \union Leaving
  BY DEF IInv, TypeOK
<1>. USE DEF Starting, Handling, Leaving
<1>1. CASE Launch
  BY <1>0, <1>1 DEF Launch, flowVars
<1>2. CASE \E t \in DOMAIN timers : TimeoutExpires(t)
  BY <1>0, <1>2 DEF TimeoutExpires, flowVars
<1>3. CASE Environment /\ ~\E t \in DOMAIN timers : TimeoutExpires(t)
  BY <1>0, <1>3 DEF Environment, Fork, DescendantExits, DescendantReaped, LeaderExits, groupOnly, flowVars
<1>4. CASE \E s \in Signals : DirectSignal(s)
  BY <1>0, <1>4 DEF DirectSignal, Deliver, flowVars
<1>5. CASE UNCHANGED vars
  BY <1>0, <1>5 DEF vars, flowVars
<1>. QED  BY <1>1, <1>2, <1>3, <1>4, <1>5 DEF SupervisorNext

(* The script's supervisor is the one that RssSupervisor describes on its     *)
(* own: the shell starts it once and sends it signals.                       *)
THEOREM SupervisorTheorem == Spec => SupervisorSpec
<1>1. ShellInit => Init
  BY DEF ShellInit
<1>2. FullInv /\ [ShellNext]_allVars => [SupervisorNext]_vars
  BY ShellImplementsSupervisor DEF FullInv
<1>3. QED
  BY <1>1, <1>2, AlwaysFullInv, PTL DEF Spec, SupervisorSpec

(* Every wait of the supervisor has its clock, no stage is gone back to, and  *)
(* a signal or the command's exit ends the build after finitely many further  *)
(* steps, once the clocks have expired: no race of the scan, of poll and      *)
(* killpg or of an exception keeps it in a loop.                              *)
THEOREM EscalationTheorem == Spec => []TimerInv /\ [][Escalation]_vars
<1>1. Init => TimerInv
  BY DEF Init
<1>2. IInv /\ TimerInv /\ [SupervisorNext]_vars => TimerInv' /\ Escalation
  <2>1. SUFFICES ASSUME IInv, TimerInv, [SupervisorNext]_vars PROVE TimerInv' /\ Escalation
    OBVIOUS
  <2>2. CASE SupervisorStep
    BY <2>1, <2>2, SupervisorProgress DEF Escalation
  <2>3. CASE ~SupervisorStep
    BY <2>1, <2>3, OtherProgress DEF Escalation
  <2>. QED  BY <2>2, <2>3
<1>3. FullInv => IInv
  BY DEF FullInv
<1>4. QED
  BY <1>1, <1>2, <1>3, SupervisorTheorem, AlwaysFullInv, PTL DEF SupervisorSpec

=============================================================================
