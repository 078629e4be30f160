-------------------------- MODULE RunpodJobProofs --------------------------
(***************************************************************************)
(* Theorems about run_job, for any number of Pods, candidates, commands and *)
(* placement rounds, any timeouts and any number of signals.  The liveness  *)
(* properties need fairness and stay with TLC; their safety halves, that a  *)
(* rank advances and that what is due stays due, are RunEndsTheorem and     *)
(* ReclaimTheorem.                                                          *)
(***************************************************************************)
EXTENDS RunpodLease, FiniteSetTheorems, TLAPS

-----------------------------------------------------------------------------
(* The inductive invariant.                                                 *)

HoldingPcs == WaitingPcs \cup RejectPcs \cup WorkPcs \cup DownloadPcs \cup CleanupPcs

\* While a Pod is being placed none exists; nothing is accepted before the
\* verification, and a Pod is held from its creation to the end.
PhaseInv ==
    /\ pc \in PlacingPcs => podId = None /\ \A p \in Pods : ~Live(p)
    /\ pc \in PlacingPcs \cup WaitingPcs \cup RejectPcs =>
         selected = None /\ assignment = None /\ ~uploaded
    /\ pc \in HoldingPcs => podId # None
    /\ pc \in {"verify"} \cup WorkPcs \cup DownloadPcs => endpoint = podId

\* The Pod the repository was sent to, or will be, was accepted.
AcceptedInv ==
    pc \in WorkPcs \cup DownloadPcs \/ uploaded =>
        podId # None /\ endpoint = podId /\ Verdict = "verified"

\* A Pod whose create reply was lost ends the job at once.
KnownInv ==
    /\ \A p \in Pods : Live(p) => p = podId \/ p \in orphans
    /\ orphans # {} => pc \notin TryPcs /\ podId = None
    /\ \A p, q \in orphans : p = q

PodInv ==
    /\ \A p \in Pods : podState[p] # "none" => details[p] \in DetailsSet
    /\ podId # None => podState[podId] # "none"

CountInv ==
    /\ pc \in {"rejectPause", "cleanupPause"} => attempt < DeleteAttempts
    /\ pc \in {"untar", "put", "mkdir"} => cmd = 0
    /\ pc \in PlacingPcs \cup WaitingPcs \cup RejectPcs => cmd = 0
    /\ pc = "command" => cmd < NCommands

IInv == TypeOK /\ PhaseInv /\ AcceptedInv /\ KnownInv /\ PodInv /\ CountInv

-----------------------------------------------------------------------------
(* What the building blocks of the actions do to pc, opEnd and primary.      *)

USE DEF ActivePcs, EndPcs, TryPcs, PlacingPcs, WaitingPcs, RejectPcs, WorkPcs,
        DownloadPcs, CleanupPcs

ClockOK == now \in Nat /\ opEnd \in Nat

PrimaryOK == primary \in Errors \cup {None}

LEMMA RaiseEffect ==
    ASSUME TypeOK, NEW error \in Errors, Raise(error)
    PROVE  /\ pc' = "finally"
           /\ opEnd' \in Nat
           /\ PrimaryOK'
BY DEF TypeOK, Raise, Enter, PrimaryOK

LEMMA CallEffect ==
    ASSUME TypeOK, NEW p, NEW cap \in Nat \ {0}, NEW slack \in Nat, Call(p, cap, slack)
    PROVE  /\ pc' \in {p, "finally"}
           /\ opEnd' \in Nat
           /\ PrimaryOK'
BY TimeAssumption DEF TypeOK, Call, Raise, Enter, MinOf, SecondsLeft, PrimaryOK, Errors

LEMMA StartCreateEffect ==
    ASSUME TypeOK, StartCreate
    PROVE  /\ pc' \in {"create", "finally"}
           /\ opEnd' \in Nat
           /\ PrimaryOK'
BY TimeAssumption, CallEffect DEF TypeOK, StartCreate, Raise, Enter, PrimaryOK, Errors

LEMMA NextCandidateEffect ==
    ASSUME TypeOK, NEW only \in BOOLEAN, NextCandidate(only)
    PROVE  /\ pc' \in {"create", "backoff", "finally"}
           /\ opEnd' \in Nat
           /\ PrimaryOK'
           /\ round' \in 1 .. PlacementRounds
           /\ cand' \in 1 .. Len(Candidates)
           /\ capacityOnly' \in BOOLEAN
<1> Len(Candidates) \in Nat \ {0}
  BY CandidatesAssumption DEF IsGpu
<1>1. CASE cand < Len(Candidates)
  BY <1>1, StartCreateEffect DEF NextCandidate, TypeOK
<1>2. CASE ~(cand < Len(Candidates)) /\ only /\ round < PlacementRounds
  BY <1>2, CallEffect, TimeAssumption, CountAssumption DEF NextCandidate, TypeOK
<1>3. CASE ~(cand < Len(Candidates)) /\ ~(only /\ round < PlacementRounds)
  BY <1>3, RaiseEffect DEF NextCandidate, TypeOK, Errors
<1> QED
  BY <1>1, <1>2, <1>3

LEMMA InitIInv == Init => IInv
<1> SUFFICES ASSUME Init PROVE IInv
  OBVIOUS
<1> Len(Candidates) \in Nat \ {0}
  BY CandidatesAssumption DEF IsGpu
<1>1. TypeOK
  <2>1. opEnd \in Nat
    BY TimeAssumption DEF Init, MinOf
  <2>2. podState \in [Pods -> PodStates] /\ details \in [Pods -> DetailsSet \cup {None}]
        /\ wdLeft \in [Pods -> 0 .. 3] /\ wdAt \in [Pods -> Nat]
    BY DEF Init, PodStates
  <2>3. failures \in Seq(Failure) /\ round \in 1 .. PlacementRounds
        /\ cand \in 1 .. Len(Candidates) /\ cmd \in 0 .. NCommands
        /\ attempt \in 0 .. DeleteAttempts /\ signals \in 0 .. MaxSignals
    BY CountAssumption DEF Init
  <2> QED
    BY <2>1, <2>2, <2>3 DEF Init, TypeOK
<1>2. PhaseInv /\ AcceptedInv /\ KnownInv /\ PodInv /\ CountInv
  BY CountAssumption DEF Init, PhaseInv, AcceptedInv, KnownInv, PodInv, CountInv, Live, HoldingPcs
<1> QED
  BY <1>1, <1>2 DEF IInv

-----------------------------------------------------------------------------
(* The invariant is preserved: one lemma per action.                        *)

USE DEF placement, lease, progress, errors, podVars, Live, HoldingPcs, PrimaryOK, Verdict

RestInv == PhaseInv /\ AcceptedInv /\ KnownInv /\ PodInv /\ CountInv

LEMMA CheckAuthInv ==
    ASSUME IInv, CheckAuth
    PROVE  IInv'
<1>1. TypeOK'
  BY StartCreateEffect, TimeAssumption DEF IInv, TypeOK, CheckAuth, SelfTerminateSeconds
<1>2. RestInv'
  BY StartCreateEffect, TimeAssumption DEF IInv, TypeOK, RestInv, PhaseInv, AcceptedInv, KnownInv, PodInv,
     CountInv, CheckAuth, SelfTerminateSeconds
<1> QED
  BY <1>1, <1>2 DEF IInv, RestInv

LEMMA OperationFailsInv ==
    ASSUME IInv, OperationFails
    PROVE  IInv'
<1>1. TypeOK'
  BY RaiseEffect DEF IInv, TypeOK, OperationFails, FailingCalls, Errors
<1>2. RestInv'
  BY RaiseEffect DEF IInv, TypeOK, RestInv, PhaseInv, AcceptedInv, KnownInv, PodInv,
     CountInv, OperationFails, FailingCalls, Errors
<1> QED
  BY <1>1, <1>2 DEF IInv, RestInv

LEMMA CreateNoCapacityInv ==
    ASSUME IInv, CreateNoCapacity
    PROVE  IInv'
<1>1. TypeOK'
  <2>1. failures' \in Seq(Failure)
    BY CandidatesAssumption, CountAssumption
    DEF IInv, TypeOK, CreateNoCapacity, PlacementFailure, Failure, IsGpu
  <2> QED
    BY SMTT(40), <2>1, NextCandidateEffect DEF IInv, TypeOK, CreateNoCapacity
<1>2. RestInv'
  BY NextCandidateEffect DEF IInv, TypeOK, RestInv, PhaseInv, AcceptedInv, KnownInv, PodInv,
     CountInv, CreateNoCapacity, PlacementFailure, Failure
<1> QED
  BY <1>1, <1>2 DEF IInv, RestInv

LEMMA PollEndpointInv ==
    ASSUME IInv, PollEndpoint
    PROVE  IInv'
<1>1. TypeOK'
  BY CallEffect, TimeAssumption DEF IInv, TypeOK, PollEndpoint
<1>2. RestInv'
  BY CallEffect, TimeAssumption DEF IInv, TypeOK, RestInv, PhaseInv, AcceptedInv, KnownInv, PodInv,
     CountInv, PollEndpoint
<1> QED
  BY <1>1, <1>2 DEF IInv, RestInv

LEMMA NotReadyInv ==
    ASSUME IInv, NotReady
    PROVE  IInv'
<1>1. TypeOK'
  BY CallEffect, TimeAssumption DEF IInv, TypeOK, NotReady
<1>2. RestInv'
  BY CallEffect, TimeAssumption DEF IInv, TypeOK, RestInv, PhaseInv, AcceptedInv, KnownInv, PodInv,
     CountInv, NotReady
<1> QED
  BY <1>1, <1>2 DEF IInv, RestInv

LEMMA ProbeReadyInv ==
    ASSUME IInv, ProbeReady
    PROVE  IInv'
<1>1. TypeOK'
  BY CallEffect, TimeAssumption DEF IInv, TypeOK, ProbeReady
<1>2. RestInv'
  BY SMTT(40), CallEffect, TimeAssumption DEF IInv, TypeOK, RestInv, PhaseInv, AcceptedInv, KnownInv, PodInv,
     CountInv, ProbeReady
<1> QED
  BY <1>1, <1>2 DEF IInv, RestInv

LEMMA VerifyAcceptsInv ==
    ASSUME IInv, VerifyAccepts
    PROVE  IInv'
<1>1. TypeOK'
  <2>1. selected' \in GpuIds \cup {None}
    BY CandidatesAssumption DEF IInv, TypeOK, VerifyAccepts, IsGpu
  <2>2. details[podId] \in DetailsSet
    BY DEF IInv, TypeOK, PhaseInv, PodInv, VerifyAccepts
  <2>3. details[podId].vcpuCount.milli \in Int /\ details[podId].memoryInGb.milli \in Int
    BY <2>2, DetailsAssumption
  <2>4. assignment' \in Assignments \cup {None}
    BY <2>3 DEF VerifyAccepts, VerifiedBuildAssignment, Assignments
  <2> QED
    BY <2>1, <2>4, CallEffect, TimeAssumption DEF IInv, TypeOK, VerifyAccepts
<1>2. RestInv'
  BY SMTT(40), CallEffect, TimeAssumption DEF IInv, TypeOK, RestInv, PhaseInv, AcceptedInv, KnownInv, PodInv,
     CountInv, VerifyAccepts
<1> QED
  BY <1>1, <1>2 DEF IInv, RestInv

LEMMA VerifyRejectsInv ==
    ASSUME IInv, VerifyRejects
    PROVE  IInv'
<1>1. TypeOK'
  <2>1. failures' \in Seq(Failure)
    BY CandidatesAssumption, CountAssumption
    DEF IInv, TypeOK, VerifyRejects, PlacementFailure, Failure, IsGpu
  <2>2. opEnd' \in Nat /\ attempt' \in 0 .. DeleteAttempts
    BY TimeAssumption, CountAssumption DEF IInv, TypeOK, VerifyRejects, StartDelete, Enter
  <2> QED
    BY <2>1, <2>2 DEF IInv, TypeOK, VerifyRejects, StartDelete, Enter
<1>2. RestInv'
  BY TimeAssumption, CountAssumption DEF IInv, TypeOK, RestInv, PhaseInv, AcceptedInv, KnownInv, PodInv,
     CountInv, VerifyRejects, PlacementFailure, Failure, StartDelete, Enter
<1> QED
  BY <1>1, <1>2 DEF IInv, RestInv

LEMMA VerifyRefusesInv ==
    ASSUME IInv, VerifyRefuses
    PROVE  IInv'
<1>1. TypeOK'
  BY RaiseEffect DEF IInv, TypeOK, VerifyRefuses, Errors
<1>2. RestInv'
  BY RaiseEffect DEF IInv, TypeOK, RestInv, PhaseInv, AcceptedInv, KnownInv, PodInv,
     CountInv, VerifyRefuses, Errors
<1> QED
  BY <1>1, <1>2 DEF IInv, RestInv

LEMMA PauseEndsInv ==
    ASSUME IInv, PauseEnds
    PROVE  IInv'
<1>1. TypeOK'
  BY CallEffect, StartCreateEffect, TimeAssumption DEF IInv, TypeOK, PauseEnds
<1>2. RestInv'
  BY SMTT(40), CallEffect, StartCreateEffect, TimeAssumption DEF IInv, TypeOK, RestInv, PhaseInv, AcceptedInv, KnownInv, PodInv,
     CountInv, PauseEnds
<1> QED
  BY <1>1, <1>2 DEF IInv, RestInv

LEMMA MkdirDoneInv ==
    ASSUME IInv, MkdirDone
    PROVE  IInv'
<1>1. TypeOK'
  BY CallEffect, TimeAssumption DEF IInv, TypeOK, MkdirDone, RemoteSucceeds
<1>2. RestInv'
  BY SMTT(40), CallEffect, TimeAssumption DEF IInv, TypeOK, RestInv, PhaseInv, AcceptedInv, KnownInv, PodInv,
     CountInv, MkdirDone, RemoteSucceeds
<1> QED
  BY <1>1, <1>2 DEF IInv, RestInv

LEMMA PutDoneInv ==
    ASSUME IInv, PutDone
    PROVE  IInv'
<1>1. TypeOK'
  BY CallEffect, TimeAssumption DEF IInv, TypeOK, PutDone, RemoteSucceeds
<1>2. RestInv'
  BY SMTT(40), CallEffect, TimeAssumption DEF IInv, TypeOK, RestInv, PhaseInv, AcceptedInv, KnownInv, PodInv,
     CountInv, PutDone, RemoteSucceeds
<1> QED
  BY <1>1, <1>2 DEF IInv, RestInv

LEMMA UntarDoneInv ==
    ASSUME IInv, UntarDone
    PROVE  IInv'
<1>1. TypeOK'
  BY CallEffect, TimeAssumption, CountAssumption DEF IInv, TypeOK, UntarDone, RemoteSucceeds
<1>2. RestInv'
  BY CallEffect, TimeAssumption, CountAssumption DEF IInv, TypeOK, RestInv, PhaseInv, AcceptedInv, KnownInv, PodInv,
     CountInv, UntarDone, RemoteSucceeds
<1> QED
  BY <1>1, <1>2 DEF IInv, RestInv

LEMMA CommandDoneInv ==
    ASSUME IInv, CommandDone
    PROVE  IInv'
<1>1. TypeOK'
  <2>1. cmd' \in 0 .. NCommands
    BY CountAssumption DEF IInv, TypeOK, CountInv, CommandDone, RemoteSucceeds
  <2> QED
    BY SMTT(40), <2>1, CallEffect, TimeAssumption DEF IInv, TypeOK, CommandDone, RemoteSucceeds, Enter
<1>2. RestInv'
  BY CallEffect, TimeAssumption, CountAssumption DEF IInv, TypeOK, RestInv, PhaseInv, AcceptedInv, KnownInv, PodInv,
     CountInv, CommandDone, RemoteSucceeds, Enter
<1> QED
  BY <1>1, <1>2 DEF IInv, RestInv

LEMMA FinallyInv ==
    ASSUME IInv, Finally
    PROVE  IInv'
<1>1. TypeOK'
  BY TimeAssumption, CountAssumption DEF IInv, TypeOK, Finally, WorthDownloading, Enter, StartCleanup, StartDelete, Return, MinOf, SecondsLeft
<1>2. RestInv'
  BY TimeAssumption, CountAssumption DEF IInv, TypeOK, RestInv, PhaseInv, AcceptedInv, KnownInv, PodInv,
     CountInv, Finally, WorthDownloading, Enter, StartCleanup, StartDelete, Return, MinOf, SecondsLeft
<1> QED
  BY <1>1, <1>2 DEF IInv, RestInv

LEMMA TarDoneInv ==
    ASSUME IInv, TarDone
    PROVE  IInv'
<1>1. TypeOK'
  BY TimeAssumption DEF IInv, TypeOK, TarDone, RemoteSucceeds, Enter, StartRm, MinOf, SecondsLeft, Errors
<1>2. RestInv'
  BY TimeAssumption DEF IInv, TypeOK, RestInv, PhaseInv, AcceptedInv, KnownInv, PodInv,
     CountInv, TarDone, RemoteSucceeds, Enter, StartRm, MinOf, SecondsLeft, Errors
<1> QED
  BY <1>1, <1>2 DEF IInv, RestInv

LEMMA GetDoneInv ==
    ASSUME IInv, GetDone
    PROVE  IInv'
<1>1. TypeOK'
  BY TimeAssumption DEF IInv, TypeOK, GetDone, RemoteSucceeds, Enter, StartRm, MinOf, SecondsLeft, Errors
<1>2. RestInv'
  BY TimeAssumption DEF IInv, TypeOK, RestInv, PhaseInv, AcceptedInv, KnownInv, PodInv,
     CountInv, GetDone, RemoteSucceeds, Enter, StartRm, MinOf, SecondsLeft, Errors
<1> QED
  BY <1>1, <1>2 DEF IInv, RestInv

LEMMA GetFailsInv ==
    ASSUME IInv, GetFails
    PROVE  IInv'
<1>1. TypeOK'
  BY TimeAssumption DEF IInv, TypeOK, GetFails, RemoteSucceeds, Enter, StartRm, MinOf, SecondsLeft, Errors
<1>2. RestInv'
  BY TimeAssumption DEF IInv, TypeOK, RestInv, PhaseInv, AcceptedInv, KnownInv, PodInv,
     CountInv, GetFails, RemoteSucceeds, Enter, StartRm, MinOf, SecondsLeft, Errors
<1> QED
  BY <1>1, <1>2 DEF IInv, RestInv

LEMMA RmDoneInv ==
    ASSUME IInv, RmDone
    PROVE  IInv'
<1>1. TypeOK'
  BY TimeAssumption, CountAssumption DEF IInv, TypeOK, RmDone, Enter, StartCleanup, StartDelete, Return
<1>2. RestInv'
  BY TimeAssumption, CountAssumption DEF IInv, TypeOK, RestInv, PhaseInv, AcceptedInv, KnownInv, PodInv,
     CountInv, RmDone, Enter, StartCleanup, StartDelete, Return
<1> QED
  BY <1>1, <1>2 DEF IInv, RestInv

LEMMA RejectDeletedInv ==
    ASSUME IInv, RejectDeleted
    PROVE  IInv'
<1>1. TypeOK'
  BY NextCandidateEffect DEF IInv, TypeOK, RejectDeleted, Deleted, PodStates
<1>2. RestInv'
  BY NextCandidateEffect DEF IInv, TypeOK, RestInv, PhaseInv, AcceptedInv, KnownInv, PodInv,
     CountInv, RejectDeleted, Deleted, PodStates
<1> QED
  BY <1>1, <1>2 DEF IInv, RestInv

LEMMA CleanupDeletedInv ==
    ASSUME IInv, CleanupDeleted
    PROVE  IInv'
<1>1. TypeOK'
  <2>1. podState' \in [Pods -> PodStates]
    BY DEF IInv, TypeOK, CleanupDeleted, Deleted, PodStates
  <2>2. opEnd' \in Nat /\ pc' \in ActivePcs \cup EndPcs /\ artifact' \in Errors \cup {None}
    BY DEF IInv, TypeOK, CleanupDeleted, Enter, Return
  <2> QED
    BY <2>1, <2>2 DEF IInv, TypeOK, CleanupDeleted
<1>2. RestInv'
  BY TimeAssumption DEF IInv, TypeOK, RestInv, PhaseInv, AcceptedInv, KnownInv, PodInv,
     CountInv, CleanupDeleted, Deleted, Return, Enter, PodStates
<1> QED
  BY <1>1, <1>2 DEF IInv, RestInv

LEMMA RejectFailsInv ==
    ASSUME IInv, RejectFails
    PROVE  IInv'
<1>1. TypeOK'
  BY SMTT(40), RaiseEffect, TimeAssumption DEF IInv, TypeOK, RejectFails, DeleteEffectUnknown, Deleted, Enter, Errors, PodStates
<1>2. RestInv'
  BY RaiseEffect, TimeAssumption DEF IInv, TypeOK, RestInv, PhaseInv, AcceptedInv, KnownInv, PodInv,
     CountInv, RejectFails, DeleteEffectUnknown, Deleted, Enter, Errors, PodStates
<1> QED
  BY <1>1, <1>2 DEF IInv, RestInv

LEMMA CleanupFailsInv ==
    ASSUME IInv, CleanupFails
    PROVE  IInv'
<1>1. TypeOK'
  <2>1. podState' \in [Pods -> PodStates]
    BY DEF IInv, TypeOK, CleanupFails, DeleteEffectUnknown, Deleted, PodStates
  <2>2. opEnd' \in Nat /\ pc' \in ActivePcs \cup EndPcs
    BY SMTT(40), TimeAssumption DEF IInv, TypeOK, CleanupFails, Enter, Return
  <2>3. artifact' \in Errors \cup {None} /\ cleanupError' \in BOOLEAN
    BY DEF IInv, TypeOK, CleanupFails, Return
  <2> QED
    BY <2>1, <2>2, <2>3 DEF IInv, TypeOK, CleanupFails
<1>2. RestInv'
  BY TimeAssumption DEF IInv, TypeOK, RestInv, PhaseInv, AcceptedInv, KnownInv, PodInv,
     CountInv, CleanupFails, DeleteEffectUnknown, Deleted, Enter, Return, PodStates
<1> QED
  BY <1>1, <1>2 DEF IInv, RestInv

LEMMA DeleteAgainInv ==
    ASSUME IInv, DeleteAgain
    PROVE  IInv'
<1>1. TypeOK'
  BY TimeAssumption, CountAssumption DEF IInv, TypeOK, CountInv, DeleteAgain, StartDelete, Enter
<1>2. RestInv'
  BY TimeAssumption DEF IInv, TypeOK, RestInv, PhaseInv, AcceptedInv, KnownInv, PodInv,
     CountInv, DeleteAgain, StartDelete, Enter
<1> QED
  BY <1>1, <1>2 DEF IInv, RestInv

LEMMA CreateSucceedsInv ==
    ASSUME IInv, NEW p \in Pods, NEW d \in DetailsSet, CreateSucceeds(p, d)
    PROVE  IInv'
<1>1. TypeOK'
  <2>1. podState' \in [Pods -> PodStates] /\ details' \in [Pods -> DetailsSet \cup {None}]
    BY DEF IInv, TypeOK, CreateSucceeds, Created, PodStates
  <2>2. endpoint = None
    BY DEF IInv, TypeOK, PhaseInv, CreateSucceeds
  <2> QED
    BY <2>1, <2>2, CallEffect, TimeAssumption DEF IInv, TypeOK, CreateSucceeds, Created
<1>2. RestInv'
  BY CallEffect, TimeAssumption, PodsAssumption DEF IInv, TypeOK, RestInv, PhaseInv, AcceptedInv, KnownInv, PodInv,
     CountInv, CreateSucceeds, Created, PodStates
<1> QED
  BY <1>1, <1>2 DEF IInv, RestInv

LEMMA CreateLosesReplyInv ==
    ASSUME IInv, NEW p \in Pods, NEW d \in DetailsSet, CreateLosesReply(p, d)
    PROVE  IInv'
<1>1. TypeOK'
  BY RaiseEffect, PodsAssumption DEF IInv, TypeOK, CreateLosesReply, Created, PodStates, Errors
<1>2. RestInv'
  BY RaiseEffect, PodsAssumption DEF IInv, TypeOK, RestInv, PhaseInv, AcceptedInv, KnownInv, PodInv,
     CountInv, CreateLosesReply, Created, PodStates, Errors
<1> QED
  BY <1>1, <1>2 DEF IInv, RestInv

LEMMA TarFailsInv ==
    ASSUME IInv, NEW error \in {"missing", "JobError"}, TarFails(error)
    PROVE  IInv'
<1>1. TypeOK'
  BY TimeAssumption, CountAssumption DEF IInv, TypeOK, TarFails, StartDelete, Enter, Errors
<1>2. RestInv'
  BY TimeAssumption, CountAssumption DEF IInv, TypeOK, RestInv, PhaseInv, AcceptedInv, KnownInv, PodInv,
     CountInv, TarFails, StartDelete, Enter, Errors
<1> QED
  BY <1>1, <1>2 DEF IInv, RestInv

LEMMA SignalInTryInv ==
    ASSUME IInv, signals' \in 0 .. MaxSignals, UNCHANGED now, SignalInTry
    PROVE  IInv'
<1>1. TypeOK'
  <2>1. podState' \in [Pods -> PodStates] /\ details' \in [Pods -> DetailsSet \cup {None}]
        /\ orphans' \subseteq Pods /\ UNCHANGED <<wdLeft, wdAt>>
    <3>1. CASE UNCHANGED podVars
      BY <3>1 DEF IInv, TypeOK
    <3>2. CASE \E p \in Pods, d \in DetailsSet : Created(p, d) /\ orphans' = orphans \cup {p}
      <4>1. PICK p \in Pods, d \in DetailsSet : Created(p, d) /\ orphans' = orphans \cup {p}
        BY <3>2
      <4>2. podState \in [Pods -> PodStates] /\ details \in [Pods -> DetailsSet \cup {None}]
            /\ orphans \subseteq Pods /\ "starting" \in PodStates
        BY DEF IInv, TypeOK, PodStates
      <4> QED
        BY <4>1, <4>2 DEF Created
    <3> QED
      BY <3>1, <3>2 DEF SignalInTry
  <2>2. "signal" \in Errors
    BY DEF Errors
  <2> QED
    BY <2>1, <2>2, RaiseEffect DEF IInv, TypeOK, SignalInTry
<1>2. pc' = "finally" /\ UNCHANGED <<podId, endpoint, selected, assignment, uploaded, cmd, cand>>
  BY RaiseEffect DEF IInv, SignalInTry, Errors
<1>3. CASE UNCHANGED podVars
  <2>1. pc \in TryPcs
    BY DEF SignalInTry
  <2>2. PhaseInv' /\ CountInv'
    BY <1>2 DEF PhaseInv, CountInv
  <2>3. AcceptedInv'
    BY <1>2, <1>3 DEF IInv, AcceptedInv
  <2>4. KnownInv' /\ PodInv'
    BY <1>2, <1>3, <2>1 DEF IInv, KnownInv, PodInv
  <2> QED
    BY <1>1, <2>2, <2>3, <2>4 DEF IInv
<1>4. CASE /\ pc = "create"
           /\ \E p \in Pods, d \in DetailsSet : Created(p, d) /\ orphans' = orphans \cup {p}
  <2>1. podId = None /\ orphans = {} /\ ~uploaded /\ \A q \in Pods : ~Live(q)
    BY <1>4 DEF IInv, PhaseInv, KnownInv
  <2>2. PICK p \in Pods, d \in DetailsSet : Created(p, d) /\ orphans' = orphans \cup {p}
    BY <1>4
  <2>3. \A q \in Pods : q # p => podState'[q] = podState[q] /\ details'[q] = details[q]
    BY <2>2 DEF IInv, TypeOK, Created
  <2>4. podState'[p] = "starting" /\ details'[p] = d /\ orphans' = {p}
    BY <2>1, <2>2 DEF IInv, TypeOK, Created
  <2>5. KnownInv' /\ PodInv'
    BY <1>2, <2>1, <2>3, <2>4 DEF IInv, KnownInv, PodInv
  <2>6. PhaseInv' /\ CountInv'
    BY <1>2 DEF PhaseInv, CountInv
  <2>7. AcceptedInv'
    BY <1>2, <2>1 DEF AcceptedInv
  <2> QED
    BY <1>1, <2>5, <2>6, <2>7 DEF IInv
<1> QED
  BY <1>3, <1>4 DEF SignalInTry

LEMMA SignalInDeleteInv ==
    ASSUME IInv, signals' \in 0 .. MaxSignals, UNCHANGED now, SignalInDelete
    PROVE  IInv'
<1>1. TypeOK'
  <2>1. podState' \in [Pods -> PodStates]
    BY DEF IInv, TypeOK, SignalInDelete, DeleteEffectUnknown, Deleted, PodStates
  <2>2. opEnd' \in Nat /\ pc' \in ActivePcs \cup EndPcs
    BY TimeAssumption DEF IInv, TypeOK, SignalInDelete, Enter, Return, Raise
  <2>3. artifact' \in Errors \cup {None} /\ cleanupError' \in BOOLEAN
        /\ primary' \in Errors \cup {None}
    BY DEF IInv, TypeOK, SignalInDelete, Return, Raise, Errors
  <2> QED
    BY <2>1, <2>2, <2>3 DEF IInv, TypeOK, SignalInDelete
<1>2. RestInv'
  BY SMTT(40), RaiseEffect, TimeAssumption DEF IInv, TypeOK, RestInv, PhaseInv, AcceptedInv, KnownInv, PodInv,
     CountInv, SignalInDelete, DeleteEffectUnknown, Deleted, Enter, Return, Errors, PodStates
<1> QED
  BY <1>1, <1>2 DEF IInv, RestInv

LEMMA SignalInDownloadInv ==
    ASSUME IInv, signals' \in 0 .. MaxSignals, UNCHANGED now, SignalInDownload
    PROVE  IInv'
<1>1. TypeOK'
  BY TimeAssumption, CountAssumption DEF IInv, TypeOK, SignalInDownload, StartDelete, StartRm, StartCleanup, Return, Enter, MinOf, SecondsLeft, Errors
<1>2. RestInv'
  BY TimeAssumption, CountAssumption DEF IInv, TypeOK, RestInv, PhaseInv, AcceptedInv, KnownInv, PodInv,
     CountInv, SignalInDownload, StartDelete, StartRm, StartCleanup, Return, Enter, MinOf, SecondsLeft, Errors
<1> QED
  BY <1>1, <1>2 DEF IInv, RestInv

LEMMA SignalInFinallyInv ==
    ASSUME IInv, signals' \in 0 .. MaxSignals, UNCHANGED now, SignalInFinally
    PROVE  IInv'
<1>1. TypeOK'
  BY DEF IInv, TypeOK, SignalInFinally, Enter
<1>2. RestInv'
  BY DEF IInv, TypeOK, RestInv, PhaseInv, AcceptedInv, KnownInv, PodInv,
     CountInv, SignalInFinally, Enter
<1> QED
  BY <1>1, <1>2 DEF IInv, RestInv

LEMMA RunnerLostInv ==
    ASSUME IInv, RunnerLost
    PROVE  IInv'
<1>1. TypeOK'
  BY DEF IInv, TypeOK, RunnerLost, Enter, Active
<1>2. RestInv'
  BY DEF IInv, TypeOK, RestInv, PhaseInv, AcceptedInv, KnownInv, PodInv,
     CountInv, RunnerLost, Enter, Active
<1> QED
  BY <1>1, <1>2 DEF IInv, RestInv

LEMMA StartWatchdogInv ==
    ASSUME IInv, NEW p \in Pods, StartWatchdog(p)
    PROVE  IInv'
<1>1. TypeOK'
  BY SMTT(40), TimeAssumption DEF IInv, TypeOK, StartWatchdog, runner, PodStates, SelfTerminateSeconds
<1>2. RestInv'
  BY TimeAssumption DEF IInv, TypeOK, RestInv, PhaseInv, AcceptedInv, KnownInv, PodInv,
     CountInv, StartWatchdog, runner, PodStates, SelfTerminateSeconds
<1> QED
  BY <1>1, <1>2 DEF IInv, RestInv

LEMMA StartSshdInv ==
    ASSUME IInv, NEW p \in Pods, StartSshd(p)
    PROVE  IInv'
<1>1. TypeOK'
  BY SMTT(40), TimeAssumption DEF IInv, TypeOK, StartSshd, runner, PodStates, SelfTerminateSeconds
<1>2. RestInv'
  BY TimeAssumption DEF IInv, TypeOK, RestInv, PhaseInv, AcceptedInv, KnownInv, PodInv,
     CountInv, StartSshd, runner, PodStates, SelfTerminateSeconds
<1> QED
  BY <1>1, <1>2 DEF IInv, RestInv

LEMMA ContainerExitInv ==
    ASSUME IInv, NEW p \in Pods, ContainerExit(p)
    PROVE  IInv'
<1>1. TypeOK'
  BY DEF IInv, TypeOK, ContainerExit, runner, PodStates
<1>2. RestInv'
  BY DEF IInv, TypeOK, RestInv, PhaseInv, AcceptedInv, KnownInv, PodInv,
     CountInv, ContainerExit, runner, PodStates
<1> QED
  BY <1>1, <1>2 DEF IInv, RestInv

LEMMA PlatformTerminateInv ==
    ASSUME IInv, NEW p \in Pods, PlatformTerminate(p)
    PROVE  IInv'
<1>1. TypeOK'
  BY DEF IInv, TypeOK, PlatformTerminate, runner, PodStates, Deleted, TerminationDue
<1>2. RestInv'
  BY DEF IInv, TypeOK, RestInv, PhaseInv, AcceptedInv, KnownInv, PodInv,
     CountInv, PlatformTerminate, runner, PodStates, Deleted, TerminationDue
<1> QED
  BY <1>1, <1>2 DEF IInv, RestInv

LEMMA WatchdogDeletesInv ==
    ASSUME IInv, NEW p \in Pods, WatchdogDeletes(p)
    PROVE  IInv'
<1>1. TypeOK'
  BY DEF IInv, TypeOK, WatchdogDeletes, runner, PodStates, Deleted, WatchdogDue, Booted
<1>2. RestInv'
  BY DEF IInv, TypeOK, RestInv, PhaseInv, AcceptedInv, KnownInv, PodInv,
     CountInv, WatchdogDeletes, runner, PodStates, Deleted, WatchdogDue, Booted
<1> QED
  BY <1>1, <1>2 DEF IInv, RestInv

LEMMA WatchdogFailsInv ==
    ASSUME IInv, NEW p \in Pods, WatchdogFails(p)
    PROVE  IInv'
<1>1. TypeOK'
  BY TimeAssumption DEF IInv, TypeOK, WatchdogFails, runner, PodStates, WatchdogDue
<1>2. RestInv'
  BY TimeAssumption DEF IInv, TypeOK, RestInv, PhaseInv, AcceptedInv, KnownInv, PodInv,
     CountInv, WatchdogFails, runner, PodStates, WatchdogDue
<1> QED
  BY <1>1, <1>2 DEF IInv, RestInv

LEMMA TickInv ==
    ASSUME IInv, Tick
    PROVE  IInv'
<1>1. TypeOK'
  BY DEF IInv, TypeOK, Tick, runner
<1>2. RestInv'
  BY DEF IInv, TypeOK, RestInv, PhaseInv, AcceptedInv, KnownInv, PodInv,
     CountInv, Tick, runner
<1> QED
  BY <1>1, <1>2 DEF IInv, RestInv

-----------------------------------------------------------------------------
LEMMA StutterInv ==
    ASSUME IInv, UNCHANGED vars
    PROVE  IInv'
BY DEF IInv, TypeOK, PhaseInv, AcceptedInv, KnownInv, PodInv, CountInv, vars, runner

LEMMA NextInv == IInv /\ [Next]_vars => IInv'
<1> SUFFICES ASSUME IInv, [Next]_vars PROVE IInv'
  OBVIOUS
<1>1. CASE JobStep
  BY <1>1, CheckAuthInv, OperationFailsInv, CreateNoCapacityInv, PollEndpointInv,
     NotReadyInv, ProbeReadyInv, VerifyAcceptsInv, VerifyRejectsInv,
     VerifyRefusesInv, PauseEndsInv, MkdirDoneInv, PutDoneInv,
     UntarDoneInv, CommandDoneInv, FinallyInv, TarDoneInv,
     GetDoneInv, GetFailsInv, RmDoneInv, RejectDeletedInv,
     CleanupDeletedInv, RejectFailsInv, CleanupFailsInv, DeleteAgainInv,
     CreateSucceedsInv, CreateLosesReplyInv, TarFailsInv
  DEF JobStep
<1>2. CASE Signal
  <2>1. signals' \in 0 .. MaxSignals /\ UNCHANGED now
    BY <1>2, CountAssumption DEF Signal, IInv, TypeOK
  <2> QED
    BY <1>2, <2>1, SignalInTryInv, SignalInDeleteInv, SignalInDownloadInv, SignalInFinallyInv
    DEF Signal
<1>3. CASE RunnerLost
  BY <1>3, RunnerLostInv
<1>4. CASE \E p \in Pods : PodStep(p)
  BY <1>4, StartWatchdogInv, StartSshdInv, ContainerExitInv, PlatformTerminateInv, WatchdogDeletesInv,
     WatchdogFailsInv
  DEF PodStep
<1>5. CASE Tick
  BY <1>5, TickInv
<1>6. CASE Terminated \/ UNCHANGED vars
  BY <1>6, StutterInv DEF Terminated
<1> QED
  BY <1>1, <1>2, <1>3, <1>4, <1>5, <1>6 DEF Next

LEMMA AlwaysIInv == Spec => []IInv
BY InitIInv, NextInv, PTL DEF Spec

-----------------------------------------------------------------------------
(* Invariants.                                                              *)

\* The types of every variable hold in every run of the orchestrator.
THEOREM TypeCorrect == Spec => []TypeOK
BY AlwaysIInv, PTL DEF IInv

\* At no time does more than one Pod of the job exist, and none is forgotten.
THEOREM OneKnownPodTheorem == Spec => []OneKnownPod
<1>1. IInv => OneKnownPod
  BY PodsAssumption DEF IInv, TypeOK, KnownInv, OneKnownPod, LivePods
<1> QED
  BY <1>1, AlwaysIInv, PTL

\* What verify_pod_assignment accepts is what the request demands.
LEMMA VerifiedIsTrustworthy ==
    ASSUME NEW d \in DetailsSet, NEW gpuId, VerifyPodAssignment(d, gpuId) = "verified"
    PROVE  Trustworthy(d, gpuId)
<1>1. {d.vcpuCount, d.memoryInGb, d.containerDiskInGb, d.volumeInGb}
        \subseteq [finite : BOOLEAN, milli : Int]
  BY DetailsAssumption
<1>2. d.image = RequestImage
  BY DEF VerifyPodAssignment
<1>3. IsBuildJob => ResourcesMatch(d)
  BY DEF VerifyPodAssignment, IsGpu, IsBuildJob
<1>4. IsGpu => d.gpuTypeIds = {gpuId}
  BY DEF VerifyPodAssignment, GpuMatches
<1>5. ~IsGpu => d.cpuFlavorId \in CpuFlavorIds
  BY DEF VerifyPodAssignment
<1>6. ASSUME ResourcesMatch(d)
      PROVE  /\ \A f \in {d.vcpuCount, d.memoryInGb, d.containerDiskInGb, d.volumeInGb} : f.finite
             /\ d.vcpuCount.milli >= 1000 * MinVcpuCount
             /\ d.memoryInGb.milli >= 1000 * MinMemoryGb
             /\ d.containerDiskInGb.milli >= 1000 * ContainerDiskGb
             /\ d.volumeInGb.milli = 0
  BY <1>1, <1>6, RequestAssumption
  DEF ResourcesMatch, IntegerAtLeast, MemoryAtLeast, Number
<1> QED
  BY <1>2, <1>3, <1>4, <1>5, <1>6 DEF Trustworthy

\* The repository is sent, and commands run, only on a Pod that was verified.
THEOREM SourceTheorem == Spec => []SourceOnlyOnVerifiedPod
<1>1. IInv => SourceOnlyOnVerifiedPod
  BY VerifiedIsTrustworthy DEF IInv, TypeOK, AcceptedInv, PodInv, SourceOnlyOnVerifiedPod
<1> QED
  BY <1>1, AlwaysIInv, PTL

-----------------------------------------------------------------------------
(* Refinement: run_job implements PodLease.                                 *)

LEMMA InitLease == Init => Lease!Init
BY DEF Init, Lease!Init, LivePods, GonePods, AcceptedPod

\* A step that leaves the Pods and what was accepted alone, and does not go
\* back into the try body, is Close or a stutter.
LEMMA LeaseUntouched ==
    ASSUME IInv, UNCHANGED <<podId, selected, assignment, LivePods, GonePods>>,
           pc \notin TryPcs => pc' \notin TryPcs
    PROVE  [Lease!Next]_Lease!vars
BY DEF Lease!Next, Lease!Close, Lease!vars, AcceptedPod

\* A Pod that disappears is released, whoever deleted it.
LEMMA LeaseReleases ==
    ASSUME IInv, NEW p \in Pods, podState[p] # "none", Deleted(p), AcceptedPod' = AcceptedPod,
           pc \notin TryPcs => pc' \notin TryPcs
    PROVE  [Lease!Next]_Lease!vars
<1>1. CASE Live(p)
  <2>1. LivePods' = LivePods \ {p}
    BY <1>1 DEF IInv, TypeOK, LivePods, Deleted
  <2>2. GonePods' = GonePods \cup {p}
    BY <1>1 DEF IInv, TypeOK, GonePods, Deleted
  <2>3. Lease!Release(p)
    BY <1>1, <2>1, <2>2 DEF Lease!Release, Lease!MayClose, LivePods
  <2> QED
    BY <2>3 DEF Lease!Next
<1>2. CASE ~Live(p)
  <2>1. podState' = podState
    BY <1>2 DEF IInv, TypeOK, Deleted
  <2> QED
    BY <2>1 DEF Lease!Next, Lease!Close, Lease!vars, LivePods, GonePods
<1> QED
  BY <1>1, <1>2

\* A Pod is created while none exists, before anything was accepted.
LEMMA LeaseAcquires ==
    ASSUME IInv, pc = "create", NEW p \in Pods, NEW d \in DetailsSet, Created(p, d),
           AcceptedPod' = None
    PROVE  [Lease!Next]_Lease!vars
<1>1. LivePods = {} /\ AcceptedPod = None
  BY DEF IInv, PhaseInv, LivePods, AcceptedPod
<1>2. LivePods' = {p}
  BY <1>1 DEF IInv, TypeOK, Created, LivePods
<1>3. GonePods' = GonePods
  BY DEF IInv, TypeOK, GonePods, Created
<1>4. Lease!Acquire(p)
  BY <1>1, <1>2, <1>3 DEF Lease!Acquire, Lease!MayClose, Created, GonePods
<1> QED
  BY <1>4 DEF Lease!Next

\* The Pod is accepted while it is the only one that exists.
LEMMA LeaseAccepts ==
    ASSUME IInv, VerifyAccepts
    PROVE  [Lease!Next]_Lease!vars
<1>1. LivePods = {podId} /\ podId \in Pods
  BY DEF IInv, TypeOK, PhaseInv, KnownInv, PodInv, VerifyAccepts, LivePods
<1>2. AcceptedPod = None /\ UNCHANGED <<LivePods, GonePods>>
  BY DEF IInv, PhaseInv, VerifyAccepts, AcceptedPod, LivePods, GonePods
<1>3. AcceptedPod' = podId
  <2>1. CASE IsGpu
    BY <2>1, CandidatesAssumption DEF IInv, TypeOK, VerifyAccepts, AcceptedPod, IsGpu
  <2>2. CASE ~IsGpu
    <3>1. details[podId] \in DetailsSet
      BY <1>1, PodsAssumption DEF IInv, PodInv
    <3>2. VerifiedBuildAssignment(details[podId]) \in Assignments
      BY <2>2, <3>1, DetailsAssumption
      DEF VerifiedBuildAssignment, Assignments, IsBuildJob, IsGpu
    <3> QED
      BY <3>2, NoneAssumption DEF VerifyAccepts, AcceptedPod
  <2> QED
    BY <2>1, <2>2
<1>4. Lease!Accept(podId)
  BY <1>1, <1>2, <1>3 DEF Lease!Accept, Lease!MayClose, VerifyAccepts
<1> QED
  BY <1>1, <1>4 DEF Lease!Next

LEMMA LeaseStep == IInv /\ [Next]_vars => [Lease!Next]_Lease!vars
<1> SUFFICES ASSUME IInv, [Next]_vars PROVE [Lease!Next]_Lease!vars
  OBVIOUS
<1> USE DEF LivePods, GonePods
<1>1. CASE CheckAuth
  BY <1>1, LeaseUntouched DEF CheckAuth, StartCreate, Call, Enter, Raise
<1>2. CASE OperationFails
  BY <1>2, LeaseUntouched DEF OperationFails, FailingCalls, Raise, Enter
<1>3. CASE \E p \in Pods, d \in DetailsSet : CreateSucceeds(p, d)
  BY <1>3, LeaseAcquires DEF IInv, PhaseInv, CreateSucceeds, AcceptedPod
<1>4. CASE \E p \in Pods, d \in DetailsSet : CreateLosesReply(p, d)
  BY <1>4, LeaseAcquires DEF IInv, PhaseInv, CreateLosesReply, AcceptedPod
<1>5. CASE CreateNoCapacity
  BY <1>5, LeaseUntouched DEF CreateNoCapacity
<1>6. CASE PollEndpoint
  BY <1>6, LeaseUntouched DEF PollEndpoint
<1>7. CASE NotReady
  BY <1>7, LeaseUntouched DEF NotReady
<1>8. CASE ProbeReady
  BY <1>8, LeaseUntouched DEF ProbeReady
<1>9. CASE VerifyAccepts
  BY <1>9, LeaseAccepts
<1>10. CASE VerifyRejects
  BY <1>10, LeaseUntouched DEF VerifyRejects
<1>11. CASE VerifyRefuses
  BY <1>11, LeaseUntouched DEF VerifyRefuses
<1>12. CASE PauseEnds
  BY <1>12, LeaseUntouched DEF PauseEnds
<1>13. CASE MkdirDone
  BY <1>13, LeaseUntouched DEF MkdirDone, RemoteSucceeds
<1>14. CASE PutDone
  BY <1>14, LeaseUntouched DEF PutDone, RemoteSucceeds
<1>15. CASE UntarDone
  BY <1>15, LeaseUntouched DEF UntarDone, RemoteSucceeds
<1>16. CASE CommandDone
  BY <1>16, LeaseUntouched DEF CommandDone, RemoteSucceeds, Call, Raise, StartDelete, StartRm, StartCleanup, Return, Enter
<1>17. CASE TarDone
  BY <1>17, LeaseUntouched DEF TarDone, RemoteSucceeds, Call, Raise, StartDelete, StartRm, StartCleanup, Return, Enter
<1>18. CASE GetDone
  BY <1>18, LeaseUntouched DEF GetDone, RemoteSucceeds, Call, Raise, StartDelete, StartRm, StartCleanup, Return, Enter
<1>19. CASE Finally
  BY <1>19, LeaseUntouched DEF Finally, StartDelete, StartRm, StartCleanup, Return, Enter
<1>20. CASE GetFails
  BY <1>20, LeaseUntouched DEF GetFails, StartDelete, StartRm, StartCleanup, Return, Enter
<1>21. CASE RmDone
  BY <1>21, LeaseUntouched DEF RmDone, StartDelete, StartRm, StartCleanup, Return, Enter
<1>22. CASE \E error \in {"missing", "JobError"} : TarFails(error)
  BY <1>22, LeaseUntouched DEF TarFails, StartDelete, StartRm, StartCleanup, Return, Enter
<1>23. CASE RejectDeleted
  BY <1>23, LeaseReleases DEF IInv, TypeOK, PhaseInv, PodInv, RejectDeleted, AcceptedPod
<1>24. CASE CleanupDeleted
  BY <1>24, LeaseReleases DEF IInv, TypeOK, PhaseInv, PodInv, CleanupDeleted, AcceptedPod, Return, Enter
<1>25. CASE RejectFails
  BY <1>25, LeaseReleases, LeaseUntouched DEF IInv, TypeOK, PhaseInv, PodInv, RejectFails, DeleteEffectUnknown, AcceptedPod, Return, Enter, Raise
<1>26. CASE CleanupFails
  BY <1>26, LeaseReleases, LeaseUntouched DEF IInv, TypeOK, PhaseInv, PodInv, CleanupFails, DeleteEffectUnknown, AcceptedPod, Return, Enter, Raise
<1>27. CASE DeleteAgain
  BY <1>27, LeaseUntouched DEF DeleteAgain, StartDelete, StartRm, StartCleanup, Return, Enter
<1>28. CASE SignalInTry /\ UNCHANGED podVars
  BY <1>28, LeaseUntouched DEF SignalInTry
<1>29. CASE SignalInTry /\ ~UNCHANGED podVars
  BY <1>29, LeaseAcquires DEF IInv, PhaseInv, SignalInTry, AcceptedPod
<1>30. CASE SignalInDelete
  BY <1>30, LeaseReleases, LeaseUntouched DEF IInv, TypeOK, PhaseInv, PodInv, SignalInDelete, DeleteEffectUnknown, AcceptedPod, Return, Enter, Raise
<1>31. CASE SignalInDownload
  BY <1>31, LeaseUntouched DEF SignalInDownload, StartDelete, StartRm, StartCleanup, Return, Enter
<1>32. CASE SignalInFinally
  BY <1>32, LeaseUntouched DEF SignalInFinally, Enter
<1>33. CASE RunnerLost
  BY <1>33, LeaseUntouched DEF RunnerLost, Enter
<1>34. CASE \E p \in Pods : StartWatchdog(p) \/ StartSshd(p)
  BY <1>34, LeaseUntouched DEF IInv, TypeOK, StartWatchdog, StartSshd, runner
<1>35. CASE \E p \in Pods : ContainerExit(p)
  BY <1>35, LeaseUntouched DEF IInv, TypeOK, ContainerExit, runner
<1>36. CASE \E p \in Pods : PlatformTerminate(p)
  BY <1>36, LeaseReleases DEF PlatformTerminate, TerminationDue, runner, AcceptedPod
<1>37. CASE \E p \in Pods : WatchdogDeletes(p)
  BY <1>37, LeaseReleases DEF WatchdogDeletes, WatchdogDue, Booted, runner, AcceptedPod
<1>38. CASE \E p \in Pods : WatchdogFails(p)
  BY <1>38, LeaseUntouched DEF WatchdogFails, runner
<1>39. CASE Tick
  BY <1>39, LeaseUntouched DEF Tick, runner
<1>40. CASE Terminated \/ UNCHANGED vars
  BY <1>40, LeaseUntouched DEF Terminated, vars, runner
<1> QED
  BY <1>1, <1>2, <1>3, <1>4, <1>5, <1>6, <1>7, <1>8, <1>9, <1>10, <1>11, <1>12,
     <1>13, <1>14, <1>15, <1>16, <1>17, <1>18, <1>19, <1>20, <1>21, <1>22, <1>23,
     <1>24, <1>25, <1>26, <1>27, <1>28, <1>29, <1>30, <1>31, <1>32, <1>33, <1>34,
     <1>35, <1>36, <1>37, <1>38, <1>39, <1>40
  DEF Next, JobStep, Signal, PodStep

\* Every run of the orchestrator, its signals, its crash and the platform's
\* own deletions included, keeps the promises of PodLease.
THEOREM LeaseTheorem == Spec => ImplementsLease
BY InitLease, LeaseStep, AlwaysIInv, PTL DEF Spec, ImplementsLease, Lease!Spec

-----------------------------------------------------------------------------
(***************************************************************************)
(* How a run of run_job proceeds and ends: its time, the order in which    *)
(* candidates are tried, what the commands are told and what the result    *)
(* means.  Each invariant below is inductive together with IInv.           *)
(***************************************************************************)
HIDE DEF HoldingPcs, PrimaryOK, Verdict

(* Time.  Until the runner waits for a deletion it is bound by the hard    *)
(* deadline; then by the attempts it has spent.                            *)

LastCall == HardTimeout + RestSlack
Slice == DeleteTimeout + DeletePause

OpBound ==
    CASE pc \in TryPcs \ RejectPcs -> LastCall
      [] pc = "reject" -> LastCall + attempt * Slice - DeletePause
      [] pc = "rejectPause" -> LastCall + attempt * Slice
      [] pc = "finally" -> LastCall + CleanupWindow
      [] pc \in {"tar", "get"} -> HardTimeout
      [] pc = "rmtar" -> HardTimeout + 1
      [] pc = "cleanup" -> LastCall + CleanupWindow + attempt * Slice - DeletePause
      [] pc = "cleanupPause" -> LastCall + CleanupWindow + attempt * Slice
      [] OTHER -> opEnd

TimeInv == Active => now <= opEnd /\ opEnd <= OpBound

LEMMA WindowFact ==
    /\ CleanupWindow = DeleteAttempts * Slice - DeletePause
    /\ CleanupWindow \in Nat /\ CleanupWindow >= 1
    /\ LastCall \in Nat /\ Slice \in Nat
    /\ \A n \in Nat : n * Slice \in Nat /\ (n + 1) * Slice = n * Slice + Slice
    /\ \A n \in Nat : n <= DeleteAttempts => n * Slice <= DeleteAttempts * Slice
<1>1. /\ DeleteTimeout \in Nat \ {0} /\ DeletePause \in Nat /\ DeleteAttempts \in Nat \ {0}
      /\ HardTimeout \in Nat \ {0} /\ RestSlack \in Nat
  BY TimeAssumption, CountAssumption
<1>2. Slice \in Nat \ {0} /\ LastCall \in Nat /\ Slice = DeleteTimeout + DeletePause
  BY <1>1 DEF Slice, LastCall
<1>3. CleanupWindow = DeleteAttempts * Slice - DeletePause
  BY <1>1 DEF CleanupWindow, Slice
<1>4. \A n \in Nat : n * Slice \in Nat /\ (n + 1) * Slice = n * Slice + Slice
  BY <1>2
<1>5. \A n \in Nat : n <= DeleteAttempts => n * Slice <= DeleteAttempts * Slice
  BY <1>1, <1>2
<1>6. 1 * Slice <= DeleteAttempts * Slice /\ DeleteAttempts * Slice \in Nat
  BY <1>1, <1>4, <1>5
<1>7. CleanupWindow \in Nat /\ CleanupWindow >= 1
  BY <1>1, <1>2, <1>3, <1>6
<1>. QED  BY <1>2, <1>3, <1>4, <1>5, <1>7

LEMMA CallTime ==
    ASSUME now \in Nat, now <= opEnd, NEW p, NEW cap \in Nat \ {0}, NEW slack \in {0, RestSlack},
           Call(p, cap, slack)
    PROVE  \/ pc' = p /\ opEnd' \in Nat /\ now <= opEnd' /\ opEnd' <= LastCall
           \/ pc' = "finally" /\ opEnd' = now
BY TimeAssumption DEF Call, Raise, Enter, MinOf, SecondsLeft, LastCall

LEMMA CreateTime ==
    ASSUME now \in Nat, now <= opEnd, StartCreate
    PROVE  \/ pc' = "create" /\ opEnd' \in Nat /\ now <= opEnd' /\ opEnd' <= LastCall
           \/ pc' = "finally" /\ opEnd' = now
BY TimeAssumption, CallTime DEF StartCreate, Raise, Enter

LEMMA CandidateTime ==
    ASSUME now \in Nat, now <= opEnd, NEW only, NextCandidate(only)
    PROVE  \/ pc' \in {"create", "backoff"} /\ opEnd' \in Nat /\ now <= opEnd' /\ opEnd' <= LastCall
           \/ pc' = "finally" /\ opEnd' = now
<1>1. CASE cand < Len(Candidates)
  BY <1>1, CreateTime DEF NextCandidate
<1>2. CASE ~(cand < Len(Candidates)) /\ only /\ round < PlacementRounds
  BY <1>2, CallTime, TimeAssumption DEF NextCandidate
<1>3. CASE ~(cand < Len(Candidates)) /\ ~(only /\ round < PlacementRounds)
  BY <1>3 DEF NextCandidate, Raise, Enter
<1>. QED  BY <1>1, <1>2, <1>3

\* A step to another operation of the try body, or out of it.
LEMMA TryTime ==
    ASSUME IInv, TimeInv, UNCHANGED now, pc \in TryPcs,
           \/ /\ pc' \in TryPcs \ RejectPcs /\ opEnd' \in Nat
              /\ now <= opEnd' /\ opEnd' <= LastCall
           \/ pc' = "finally" /\ opEnd' = now
    PROVE  TimeInv'
<1>1. now \in Nat /\ opEnd \in Nat /\ attempt \in Nat /\ attempt <= DeleteAttempts
  BY CountAssumption DEF IInv, TypeOK
<1>2. /\ CleanupWindow \in Nat /\ LastCall \in Nat /\ DeletePause \in Nat
      /\ CleanupWindow = DeleteAttempts * Slice - DeletePause
      /\ attempt * Slice \in Nat /\ attempt * Slice <= DeleteAttempts * Slice
      /\ DeleteAttempts * Slice \in Nat
  BY <1>1, WindowFact, TimeAssumption, CountAssumption
<1>3. CASE pc' \in TryPcs \ RejectPcs
  BY <1>3 DEF TimeInv, OpBound
<1>4. CASE pc' = "finally"
  <2>1. now <= LastCall + CleanupWindow
    <3>1. CASE pc \in TryPcs \ RejectPcs
      BY <1>1, <1>2, <3>1 DEF TimeInv, OpBound, Active
    <3>2. CASE pc = "reject"
      BY <1>1, <1>2, <3>2 DEF TimeInv, OpBound, Active
    <3>3. CASE pc = "rejectPause"
      <4>1. attempt + 1 <= DeleteAttempts /\ attempt + 1 \in Nat
        BY <1>1, <3>3, CountAssumption DEF IInv, CountInv
      <4>2. attempt * Slice + Slice <= DeleteAttempts * Slice
        BY <1>1, <4>1, WindowFact
      <4>3. Slice \in Nat /\ Slice >= DeletePause
        BY TimeAssumption DEF Slice
      <4>. QED  BY <1>1, <1>2, <3>3, <4>2, <4>3 DEF TimeInv, OpBound, Active
    <3>. QED  BY <3>1, <3>2, <3>3
  <2>. QED  BY <1>1, <1>4, <2>1 DEF TimeInv, OpBound
<1>. QED  BY <1>3, <1>4

\* The bound does not change under an operation that goes on.
LEMMA StayTime ==
    ASSUME IInv, TimeInv, UNCHANGED <<pc, opEnd, attempt>>, now' \in Nat, Active => now' <= opEnd
    PROVE  TimeInv'
BY DEF TimeInv, OpBound, Active

LEMMA EndTime ==
    ASSUME pc' \in EndPcs
    PROVE  TimeInv'
BY DEF TimeInv, Active

\* What is known of the clock at every step.
LEMMA ClockFact ==
    ASSUME IInv, TimeInv, pc \in ActivePcs
    PROVE  /\ now \in Nat /\ opEnd \in Nat /\ attempt \in Nat /\ attempt <= DeleteAttempts
           /\ now <= opEnd /\ opEnd <= OpBound
           /\ attempt * Slice \in Nat
           /\ LastCall \in Nat /\ HardTimeout \in Nat /\ HardTimeout <= LastCall
           /\ CleanupWindow \in Nat /\ CleanupWindow >= 1
           /\ DeleteTimeout \in Nat /\ DeletePause \in Nat /\ Slice = DeleteTimeout + DeletePause
<1>1. now \in Nat /\ opEnd \in Nat /\ attempt \in Nat /\ attempt <= DeleteAttempts
  BY CountAssumption DEF IInv, TypeOK
<1>2. now <= opEnd /\ opEnd <= OpBound
  BY DEF TimeInv, Active
<1>3. HardTimeout \in Nat /\ HardTimeout <= LastCall
      /\ DeleteTimeout \in Nat /\ DeletePause \in Nat /\ Slice = DeleteTimeout + DeletePause
  BY TimeAssumption DEF LastCall, Slice
<1>. QED  BY <1>1, <1>2, <1>3, WindowFact

\* The first attempt of the deletion in the finally block.
LEMMA FirstDeleteTime ==
    ASSUME IInv, TimeInv, UNCHANGED now, pc \in {"finally"} \cup DownloadPcs,
           StartDelete("cleanup", 1)
    PROVE  TimeInv'
<1>1. now <= LastCall + CleanupWindow
  <2>1. CASE pc = "finally"
    BY <2>1, ClockFact DEF OpBound
  <2>2. CASE pc \in {"tar", "get"}
    BY <2>2, ClockFact DEF OpBound
  <2>3. CASE pc = "rmtar"
    BY <2>3, ClockFact DEF OpBound
  <2>. QED  BY <2>1, <2>2, <2>3
<1>2. pc' = "cleanup" /\ opEnd' = now + DeleteTimeout /\ attempt' = 1 /\ now' = now
  BY DEF StartDelete, Enter
<1>3. OpBound' = LastCall + CleanupWindow + DeleteTimeout
  <2>1. OpBound' = LastCall + CleanupWindow + 1 * Slice - DeletePause
    BY <1>2 DEF OpBound
  <2>. QED  BY <2>1, ClockFact
<1>. QED  BY <1>1, <1>2, <1>3, ClockFact DEF TimeInv

\* An attempt that failed, and that is not the last one.
LEMMA PauseTime ==
    ASSUME IInv, TimeInv, UNCHANGED <<now, attempt>>,
           \/ pc = "reject" /\ Enter("rejectPause", now + DeletePause)
           \/ pc = "cleanup" /\ Enter("cleanupPause", now + DeletePause)
    PROVE  TimeInv'
<1>1. CASE pc = "reject"
  BY <1>1, ClockFact DEF OpBound, Enter, TimeInv
<1>2. CASE pc = "cleanup"
  BY <1>2, ClockFact DEF OpBound, Enter, TimeInv
<1>. QED  BY <1>1, <1>2

\* The next attempt.
LEMMA AgainTime ==
    ASSUME IInv, TimeInv, DeleteAgain
    PROVE  TimeInv'
<1>1. (attempt + 1) * Slice = attempt * Slice + Slice /\ pc \in ActivePcs
  BY ClockFact, WindowFact DEF DeleteAgain
<1>2. opEnd' = now + DeleteTimeout /\ now' = now /\ attempt' = attempt + 1
  BY DEF DeleteAgain, StartDelete, Enter
<1>3. CASE pc = "rejectPause"
  <2>1. pc' = "reject" /\ opEnd <= LastCall + attempt * Slice
    BY <1>3, ClockFact DEF DeleteAgain, StartDelete, Enter, OpBound
  <2>2. OpBound' = LastCall + (attempt + 1) * Slice - DeletePause
    BY <1>2, <2>1 DEF OpBound
  <2>. QED  BY <1>1, <1>2, <2>1, <2>2, ClockFact DEF TimeInv
<1>4. CASE pc = "cleanupPause"
  <2>1. pc' = "cleanup" /\ opEnd <= LastCall + CleanupWindow + attempt * Slice
    BY <1>4, ClockFact DEF DeleteAgain, StartDelete, Enter, OpBound
  <2>2. OpBound' = LastCall + CleanupWindow + (attempt + 1) * Slice - DeletePause
    BY <1>2, <2>1 DEF OpBound
  <2>. QED  BY <1>1, <1>2, <2>1, <2>2, ClockFact DEF TimeInv
<1>. QED  BY <1>3, <1>4 DEF DeleteAgain

\* A rejection starts the deletion of the rejected Pod.
LEMMA RejectTime ==
    ASSUME IInv, TimeInv, VerifyRejects
    PROVE  TimeInv'
<1>1. pc' = "reject" /\ opEnd' = now + DeleteTimeout /\ attempt' = 1 /\ now' = now
  BY DEF VerifyRejects, StartDelete, Enter
<1>2. now <= LastCall
  BY ClockFact DEF VerifyRejects, OpBound
<1>3. OpBound' = LastCall + 1 * Slice - DeletePause
  BY <1>1 DEF OpBound
<1>. QED  BY <1>1, <1>2, <1>3, ClockFact DEF TimeInv, VerifyRejects

\* A call of the download, which is cut at the deadline, or the remote rm.
LEMMA DownloadTime ==
    ASSUME IInv, TimeInv, UNCHANGED now, pc \in {"finally", "tar", "get"},
           pc = "finally" => SecondsLeft > 1,
           \/ /\ pc' \in {"tar", "get"} /\ SecondsLeft > 0
              /\ opEnd' = now + MinOf(SecondsLeft, TransferCap)
           \/ pc # "finally" /\ StartRm
    PROVE  TimeInv'
<1>1. pc \in {"tar", "get"} => now <= HardTimeout
  BY ClockFact DEF OpBound
<1>2. CASE /\ pc' \in {"tar", "get"} /\ SecondsLeft > 0
           /\ opEnd' = now + MinOf(SecondsLeft, TransferCap)
  BY <1>2, ClockFact, TimeAssumption DEF SecondsLeft, MinOf, OpBound, TimeInv
<1>3. CASE pc # "finally" /\ StartRm
  BY <1>1, <1>3, ClockFact, TimeAssumption DEF StartRm, Enter, SecondsLeft, MinOf, OpBound, TimeInv
<1>. QED  BY <1>2, <1>3

\* A step of the try body that enters a call, fails or gives up.
LEMMA TryStepTime ==
    ASSUME IInv, TimeInv, IInv',
           \/ CheckAuth \/ OperationFails \/ CreateNoCapacity \/ PollEndpoint \/ NotReady
           \/ ProbeReady \/ VerifyAccepts \/ VerifyRefuses \/ PauseEnds \/ MkdirDone
           \/ PutDone \/ UntarDone \/ CommandDone \/ RejectDeleted
           \/ \E p \in Pods, d \in DetailsSet : CreateSucceeds(p, d) \/ CreateLosesReply(p, d)
           \/ SignalInTry /\ UNCHANGED now
    PROVE  TimeInv'
<1>. USE TimeAssumption
<1>1. pc \in TryPcs /\ UNCHANGED now
  BY DEF CheckAuth, OperationFails, FailingCalls, CreateNoCapacity, PollEndpoint, NotReady,
         ProbeReady, VerifyAccepts, VerifyRefuses, PauseEnds, MkdirDone, PutDone, UntarDone,
         CommandDone, RejectDeleted, CreateSucceeds, CreateLosesReply, SignalInTry, RemoteSucceeds
<1>2. now \in Nat /\ now <= opEnd
  BY <1>1, ClockFact
<1>. DEFINE Goes == /\ pc' \in TryPcs \ RejectPcs /\ opEnd' \in Nat
                    /\ now <= opEnd' /\ opEnd' <= LastCall
            Ends == pc' = "finally" /\ opEnd' = now
<1>3. ASSUME CheckAuth \/ PauseEnds
      PROVE  Goes \/ Ends
  BY <1>2, <1>3, CreateTime, CallTime DEF CheckAuth, PauseEnds
<1>4. ASSUME PollEndpoint \/ NotReady \/ ProbeReady \/ VerifyAccepts
      PROVE  Goes \/ Ends
  BY <1>2, <1>4, CallTime DEF PollEndpoint, NotReady, ProbeReady, VerifyAccepts
<1>5. ASSUME MkdirDone \/ PutDone \/ UntarDone \/ CommandDone
      PROVE  Goes \/ Ends
  BY <1>2, <1>5, CallTime DEF MkdirDone, PutDone, UntarDone, CommandDone, Enter
<1>6. ASSUME CreateNoCapacity \/ RejectDeleted
      PROVE  Goes \/ Ends
  BY <1>2, <1>6, CandidateTime DEF CreateNoCapacity, RejectDeleted
<1>7. ASSUME OperationFails \/ VerifyRefuses \/ SignalInTry
      PROVE  Ends
  BY <1>7 DEF OperationFails, VerifyRefuses, SignalInTry, Raise, Enter
<1>8. ASSUME NEW p \in Pods, NEW d \in DetailsSet, CreateSucceeds(p, d) \/ CreateLosesReply(p, d)
      PROVE  Goes \/ Ends
  BY <1>2, <1>8, CallTime DEF CreateSucceeds, CreateLosesReply, Raise, Enter
<1>9. Goes \/ Ends
  BY <1>3, <1>4, <1>5, <1>6, <1>7, <1>8
<1>. QED  BY <1>1, <1>9, TryTime

\* A step of _terminate_strictly.
LEMMA DeleteStepTime ==
    ASSUME IInv, TimeInv,
           \/ RejectFails \/ CleanupFails \/ CleanupDeleted \/ DeleteAgain
           \/ SignalInDelete /\ UNCHANGED now
    PROVE  TimeInv'
<1>1. CASE RejectFails
  <2>1. CASE attempt < DeleteAttempts
    BY <1>1, <2>1, PauseTime DEF RejectFails
  <2>2. CASE ~(attempt < DeleteAttempts)
    BY <1>1, <2>2, TryTime DEF RejectFails, Raise, Enter
  <2>. QED  BY <2>1, <2>2
<1>2. CASE CleanupFails
  <2>1. CASE attempt < DeleteAttempts
    BY <1>2, <2>1, PauseTime DEF CleanupFails
  <2>2. CASE ~(attempt < DeleteAttempts)
    BY <1>2, <2>2, EndTime DEF CleanupFails, Return, Enter
  <2>. QED  BY <2>1, <2>2
<1>3. CASE CleanupDeleted
  BY <1>3, EndTime DEF CleanupDeleted, Return, Enter
<1>4. CASE DeleteAgain
  BY <1>4, AgainTime
<1>5. CASE SignalInDelete /\ UNCHANGED now
  <2>1. UNCHANGED <<now, attempt>> /\ pc \in {"reject", "cleanup"}
    BY <1>5 DEF SignalInDelete
  <2>2. CASE Enter(IF pc = "reject" THEN "rejectPause" ELSE "cleanupPause", now + DeletePause)
    BY <2>1, <2>2, PauseTime DEF Enter
  <2>3. CASE pc = "reject" /\ Raise("JobError")
    BY <2>1, <2>3, TryTime DEF Raise, Enter
  <2>4. CASE Return
    BY <2>4, EndTime DEF Return, Enter
  <2>. QED  BY <1>5, <2>2, <2>3, <2>4 DEF SignalInDelete
<1>. QED  BY <1>1, <1>2, <1>3, <1>4, <1>5

\* A step of the finally block before the deletion.
LEMMA FinallyStepTime ==
    ASSUME IInv, TimeInv,
           \/ Finally \/ TarDone \/ GetDone \/ GetFails \/ RmDone
           \/ \E error \in {"missing", "JobError"} : TarFails(error)
           \/ SignalInDownload /\ UNCHANGED now
    PROVE  TimeInv'
<1>1. ASSUME StartCleanup, UNCHANGED now, pc \in {"finally", "rmtar"}
      PROVE  TimeInv'
  BY <1>1, FirstDeleteTime, EndTime DEF StartCleanup, Return, Enter
<1>2. CASE Finally
  <2>1. CASE WorthDownloading
    BY <1>2, <2>1, DownloadTime, ClockFact DEF Finally, WorthDownloading, Enter, SecondsLeft
  <2>2. CASE ~WorthDownloading
    BY <1>1, <1>2, <2>2 DEF Finally
  <2>. QED  BY <2>1, <2>2
<1>3. CASE TarDone
  BY <1>3, DownloadTime DEF TarDone, RemoteSucceeds, Enter
<1>4. CASE GetDone \/ GetFails
  BY <1>4, DownloadTime DEF GetDone, GetFails, RemoteSucceeds
<1>5. CASE RmDone
  BY <1>1, <1>5 DEF RmDone
<1>6. CASE \E error \in {"missing", "JobError"} : TarFails(error)
  BY <1>6, FirstDeleteTime DEF TarFails
<1>7. CASE SignalInDownload /\ UNCHANGED now
  BY <1>1, <1>7, FirstDeleteTime, DownloadTime DEF SignalInDownload
<1>. QED  BY <1>2, <1>3, <1>4, <1>5, <1>6, <1>7

LEMMA TimeStep == IInv /\ TimeInv /\ [Next]_vars => TimeInv'
<1>. SUFFICES ASSUME IInv, TimeInv, [Next]_vars PROVE TimeInv'
  OBVIOUS
<1>1. IInv'
  BY NextInv
<1>2. CASE JobStep
  BY <1>1, <1>2, TryStepTime, DeleteStepTime, FinallyStepTime, RejectTime DEF JobStep
<1>3. CASE Signal
  BY <1>1, <1>3, TryStepTime, DeleteStepTime, FinallyStepTime, EndTime
  DEF Signal, SignalInFinally, Enter
<1>4. CASE RunnerLost
  BY <1>4, EndTime DEF RunnerLost, Enter
<1>5. CASE \E p \in Pods : PodStep(p)
  <2>1. UNCHANGED <<pc, opEnd, attempt, now>>
    BY <1>5 DEF PodStep, StartWatchdog, StartSshd, ContainerExit, PlatformTerminate, WatchdogDeletes, WatchdogFails, runner
  <2>. QED  BY <2>1, StayTime DEF IInv, TypeOK, TimeInv
<1>6. CASE Tick
  BY <1>6, StayTime DEF Tick, runner, IInv, TypeOK, TimeInv
<1>7. CASE Terminated \/ UNCHANGED vars
  BY <1>7, StayTime DEF Terminated, vars, runner, IInv, TypeOK, TimeInv
<1>. QED  BY <1>2, <1>3, <1>4, <1>5, <1>6, <1>7 DEF Next

LEMMA AlwaysTimeInv == Spec => [](IInv /\ TimeInv)
<1>1. Init => TimeInv
  BY TimeAssumption DEF Init, TimeInv, OpBound, MinOf, LastCall, Active
<1>. QED  BY <1>1, InitIInv, NextInv, TimeStep, PTL DEF Spec

\* The runner is done within the hard timeout and two deletions.
THEOREM RunBoundedTheorem == Spec => []RunBounded
<1>1. ASSUME IInv, TimeInv PROVE RunBounded
  <2>1. Active => now <= opEnd
    BY <1>1 DEF TimeInv
  <2>2. ASSUME Active PROVE opEnd <= RunBound
    <3>1. RunBound = LastCall + 2 * CleanupWindow /\ DeleteAttempts \in Nat \ {0}
      BY TimeAssumption, CountAssumption DEF RunBound, LastCall
    <3>2. opEnd <= OpBound /\ LastCall \in Nat /\ CleanupWindow \in Nat /\ CleanupWindow >= 1
      BY <1>1, <2>2, ClockFact DEF Active
    <3>3. attempt * Slice - DeletePause <= CleanupWindow
      BY <1>1, <2>2, ClockFact, WindowFact, CountAssumption DEF Active
    <3>4. pc \in {"rejectPause", "cleanupPause"} => attempt * Slice <= CleanupWindow
      <4>1. SUFFICES ASSUME attempt + 1 <= DeleteAttempts PROVE attempt * Slice <= CleanupWindow
        BY <1>1, <2>2, ClockFact, <3>1 DEF IInv, CountInv, Active
      <4>2. attempt \in Nat /\ (attempt + 1) * Slice <= DeleteAttempts * Slice
            /\ (attempt + 1) * Slice = attempt * Slice + Slice
        BY <1>1, <2>2, <3>1, <4>1, ClockFact, WindowFact DEF Active
      <4>. QED  BY <1>1, <2>2, <4>2, ClockFact, WindowFact, CountAssumption DEF Active
    <3>5. /\ attempt * Slice \in Nat /\ opEnd \in Nat /\ DeletePause \in Nat
          /\ HardTimeout \in Nat /\ HardTimeout <= LastCall
      BY <1>1, <2>2, ClockFact DEF Active
    <3>. QED  BY <2>2, <3>1, <3>2, <3>3, <3>4, <3>5 DEF OpBound, Active
  <2>3. DeadlineRespected
    <3>1. pc \in TryPcs \ RejectPcs => opEnd <= HardTimeout + RestSlack
      BY <1>1 DEF TimeInv, OpBound, LastCall, Active
    <3>2. pc \in DownloadPcs => opEnd <= HardTimeout + 1
      BY <1>1, ClockFact DEF OpBound
    <3>. QED  BY <3>1, <3>2 DEF DeadlineRespected
  <2>. QED  BY <2>1, <2>2, <2>3 DEF RunBounded
<1>. QED  BY <1>1, AlwaysTimeInv, PTL

-----------------------------------------------------------------------------
(* The backstops.  terminateAfter, and every watchdog, is set to a time    *)
(* that no operation of the runner reaches.                                *)

AuthEnd == MinOf(HardTimeout, CallCap)

BackstopInv ==
    /\ pc = "auth" => opEnd = AuthEnd
    /\ pc \in TryPcs \ {"auth"} \/ (\E p \in Pods : Live(p)) =>
         terminateAfter >= SelfTerminateSeconds /\ terminateAfter <= SelfTerminateSeconds + AuthEnd
    /\ \A p \in Pods : wdLeft[p] > 0 => wdAt[p] >= SelfTerminateSeconds
    /\ \A p \in Pods : ~IsGpu /\ podState[p] \in Booted =>
         wdLeft[p] = 3 \/ now >= SelfTerminateSeconds

\* A step that sets neither, and starts no container.
BackstopFrame ==
    /\ UNCHANGED <<terminateAfter, wdLeft, wdAt>>
    /\ now' \in {now, now + 1}
    /\ \A p \in Pods : podState'[p] \notin {"none", "gone"} => Live(p) \/ pc = "create"
    /\ \A p \in Pods : podState'[p] \in Booted => podState[p] \in Booted
    /\ pc' \in TryPcs \ {"auth"} => pc \in TryPcs \ {"auth"}
    /\ pc' = "auth" => pc = "auth" /\ opEnd' = opEnd

\* The account is looked up once: no step of the runner returns to it.
LEMMA AuthOnce ==
    ASSUME IInv, JobStep \/ Signal \/ RunnerLost
    PROVE  pc' # "auth"
<1>. USE TimeAssumption DEF IInv
<1>1. CASE CheckAuth \/ PauseEnds
  BY <1>1, CallEffect, StartCreateEffect DEF CheckAuth, PauseEnds
<1>2. CASE \/ PollEndpoint \/ NotReady \/ ProbeReady \/ VerifyAccepts \/ MkdirDone \/ PutDone \/ UntarDone
           \/ CommandDone \/ \E p \in Pods, d \in DetailsSet : CreateSucceeds(p, d)
  BY <1>2, CallEffect DEF PollEndpoint, NotReady, ProbeReady, VerifyAccepts, MkdirDone, PutDone, UntarDone,
     CommandDone, CreateSucceeds, Enter
<1>3. CASE CreateNoCapacity \/ RejectDeleted
  BY <1>3, NextCandidateEffect DEF CreateNoCapacity, RejectDeleted, TypeOK
<1>4. CASE OperationFails \/ VerifyRefuses \/ RejectFails \/ VerifyRejects \/ DeleteAgain
           \/ \E p \in Pods, d \in DetailsSet : CreateLosesReply(p, d)
  BY <1>4 DEF OperationFails, VerifyRefuses, RejectFails, VerifyRejects, DeleteAgain, CreateLosesReply,
     StartDelete, Raise, Enter
<1>5. CASE \/ Finally \/ TarDone \/ GetDone \/ GetFails \/ RmDone \/ CleanupDeleted \/ CleanupFails
           \/ \E error \in {"missing", "JobError"} : TarFails(error)
  BY <1>5 DEF Finally, TarDone, GetDone, GetFails, RmDone, CleanupDeleted, CleanupFails, TarFails,
     StartCleanup, StartDelete, StartRm, Return, Enter
<1>6. CASE Signal
  BY <1>6 DEF Signal, SignalInTry, SignalInDelete, SignalInDownload, SignalInFinally, StartCleanup,
     StartDelete, StartRm, Return, Raise, Enter
<1>7. CASE RunnerLost
  BY <1>7 DEF RunnerLost, Enter
<1>. QED  BY <1>1, <1>2, <1>3, <1>4, <1>5, <1>6, <1>7 DEF JobStep

LEMMA BackstopKept ==
    ASSUME IInv, BackstopInv, BackstopFrame
    PROVE  BackstopInv'
<1>1. now \in Nat /\ SelfTerminateSeconds \in Nat
  BY TimeAssumption DEF IInv, TypeOK, SelfTerminateSeconds
<1>2. (pc' \in TryPcs \ {"auth"} \/ \E p \in Pods : podState'[p] \notin {"none", "gone"}) =>
        terminateAfter >= SelfTerminateSeconds /\ terminateAfter <= SelfTerminateSeconds + AuthEnd
  BY DEF BackstopFrame, BackstopInv
<1>3. \A p \in Pods : ~IsGpu /\ podState'[p] \in Booted =>
        wdLeft[p] = 3 \/ now' >= SelfTerminateSeconds
  BY <1>1 DEF BackstopFrame, BackstopInv
<1>. QED  BY <1>2, <1>3 DEF BackstopFrame, BackstopInv

LEMMA DeleteFrame ==
    ASSUME IInv, NEW p \in Pods, Deleted(p)
    PROVE  /\ \A q \in Pods : podState'[q] \notin {"none", "gone"} => Live(q)
           /\ \A q \in Pods : podState'[q] \in Booted => podState[q] \in Booted
BY DEF IInv, TypeOK, Deleted, Booted

LEMMA CreateFrame ==
    ASSUME IInv, NEW p \in Pods, NEW d \in DetailsSet, Created(p, d)
    PROVE  \A q \in Pods : podState'[q] \in Booted => podState[q] \in Booted
BY DEF IInv, TypeOK, Created, Booted

LEMMA JobStepFrame ==
    ASSUME IInv, JobStep, ~CheckAuth
    PROVE  BackstopFrame
<1>0. pc' # "auth"
  BY AuthOnce
<1>1. CASE \E p \in Pods, d \in DetailsSet : CreateSucceeds(p, d) \/ CreateLosesReply(p, d)
  BY <1>0, <1>1, CreateFrame DEF CreateSucceeds, CreateLosesReply, Created, BackstopFrame
<1>2. CASE CreateNoCapacity
  BY <1>0, <1>2 DEF CreateNoCapacity, BackstopFrame
<1>3. CASE OperationFails \/ VerifyRefuses
  BY <1>0, <1>3 DEF OperationFails, VerifyRefuses, Raise, Enter, BackstopFrame
<1>4. CASE PollEndpoint \/ NotReady \/ ProbeReady \/ VerifyAccepts \/ VerifyRejects \/ PauseEnds
  BY <1>0, <1>4 DEF PollEndpoint, NotReady, ProbeReady, VerifyAccepts, VerifyRejects, PauseEnds, BackstopFrame
<1>5. CASE MkdirDone \/ PutDone \/ UntarDone \/ CommandDone
  BY <1>0, <1>5 DEF MkdirDone, PutDone, UntarDone, CommandDone, RemoteSucceeds, BackstopFrame
<1>6. CASE \/ Finally \/ TarDone \/ GetDone \/ GetFails \/ RmDone
           \/ \E error \in {"missing", "JobError"} : TarFails(error)
  BY <1>0, <1>6 DEF Finally, TarDone, GetDone, GetFails, RmDone, TarFails, RemoteSucceeds, StartCleanup,
     StartDelete, StartRm, Return, Enter, BackstopFrame
<1>7. CASE DeleteAgain
  BY <1>0, <1>7 DEF DeleteAgain, StartDelete, Enter, BackstopFrame
<1>8. CASE RejectDeleted \/ CleanupDeleted \/ RejectFails \/ CleanupFails
  <2>1. podId \in Pods
    BY <1>8 DEF IInv, TypeOK, PhaseInv, HoldingPcs, RejectDeleted, CleanupDeleted, RejectFails, CleanupFails
  <2>2. Deleted(podId) \/ UNCHANGED podState
    BY <1>8 DEF RejectDeleted, CleanupDeleted, RejectFails, CleanupFails, DeleteEffectUnknown
  <2>3. /\ \A q \in Pods : podState'[q] \notin {"none", "gone"} => Live(q)
        /\ \A q \in Pods : podState'[q] \in Booted => podState[q] \in Booted
    BY <2>1, <2>2, DeleteFrame
  <2>. QED  BY <1>0, <1>8, <2>3 DEF RejectDeleted, CleanupDeleted, RejectFails, CleanupFails,
              Return, Enter, Raise, BackstopFrame
<1>. QED  BY <1>1, <1>2, <1>3, <1>4, <1>5, <1>6, <1>7, <1>8 DEF JobStep

LEMMA SignalFrame ==
    ASSUME IInv, Signal
    PROVE  BackstopFrame
<1>0. pc' # "auth"
  BY AuthOnce
<1>1. CASE SignalInTry
  <2>1. \A q \in Pods : podState'[q] \in Booted => podState[q] \in Booted
    BY <1>1, CreateFrame DEF SignalInTry
  <2>. QED  BY <1>1, <2>1 DEF Signal, SignalInTry, Raise, Enter, Created, BackstopFrame
<1>2. CASE SignalInDelete
  <2>1. podId \in Pods /\ (Deleted(podId) \/ UNCHANGED podState)
    BY <1>2 DEF IInv, TypeOK, PhaseInv, HoldingPcs, SignalInDelete, DeleteEffectUnknown
  <2>2. /\ \A q \in Pods : podState'[q] \notin {"none", "gone"} => Live(q)
        /\ \A q \in Pods : podState'[q] \in Booted => podState[q] \in Booted
    BY <2>1, DeleteFrame
  <2>. QED  BY <1>2, <2>2 DEF Signal, SignalInDelete, Raise, Enter, Return, BackstopFrame
<1>3. CASE SignalInDownload \/ SignalInFinally
  BY <1>3 DEF Signal, SignalInDownload, SignalInFinally, StartCleanup, StartDelete, StartRm, Return,
     Enter, BackstopFrame
<1>. QED  BY <1>1, <1>2, <1>3 DEF Signal

LEMMA BackstopStep == IInv /\ TimeInv /\ BackstopInv /\ [Next]_vars => BackstopInv'
<1>. SUFFICES ASSUME IInv, TimeInv, BackstopInv, [Next]_vars PROVE BackstopInv'
  OBVIOUS
<1>0. now \in Nat /\ SelfTerminateSeconds \in Nat /\ wdLeft \in [Pods -> 0 .. 3] /\ wdAt \in [Pods -> Nat]
      /\ podState \in [Pods -> PodStates]
  BY TimeAssumption DEF IInv, TypeOK, SelfTerminateSeconds
<1>1. CASE CheckAuth
  <2>1. AuthEnd \in Nat /\ now <= AuthEnd
    BY <1>0, <1>1, TimeAssumption DEF CheckAuth, BackstopInv, TimeInv, Active, AuthEnd, MinOf
  <2>2. /\ terminateAfter' >= SelfTerminateSeconds /\ terminateAfter' <= SelfTerminateSeconds + AuthEnd
        /\ UNCHANGED <<now, podState, wdLeft, wdAt>>
    BY <1>0, <1>1, <2>1 DEF CheckAuth
  <2>3. pc' # "auth"
    BY <1>1, AuthOnce DEF JobStep
  <2>. QED  BY <2>2, <2>3 DEF BackstopInv
<1>2. CASE JobStep /\ ~CheckAuth
  BY <1>2, JobStepFrame, BackstopKept
<1>3. CASE Signal
  BY <1>3, SignalFrame, BackstopKept
<1>4. CASE RunnerLost
  BY <1>4, BackstopKept DEF RunnerLost, Enter, BackstopFrame
<1>5. CASE \E p \in Pods : PodStep(p)
  <2>. PICK p \in Pods : PodStep(p)
    BY <1>5
  <2>1. CASE StartWatchdog(p) \/ StartSshd(p)
    <3>1. terminateAfter' = terminateAfter /\ pc' = pc /\ opEnd' = opEnd /\ now' = now /\ Live(p)
          /\ \E s \in Booted : podState' = [podState EXCEPT ![p] = s]
      BY <2>1 DEF StartWatchdog, StartSshd, Booted, runner
    <3>2. \A q \in Pods : podState'[q] \notin {"none", "gone"} => Live(q)
      BY <1>0, <3>1
    <3>3. \A q \in Pods : wdLeft'[q] > 0 => wdAt'[q] >= SelfTerminateSeconds
      BY <1>0, <2>1 DEF StartWatchdog, StartSshd, BackstopInv
    <3>4. \A q \in Pods : ~IsGpu /\ podState'[q] \in Booted =>
            wdLeft'[q] = 3 \/ now >= SelfTerminateSeconds
      <4>1. CASE StartWatchdog(p)
        BY <1>0, <4>1 DEF StartWatchdog, BackstopInv
      <4>2. CASE StartSshd(p)
        BY <1>0, <4>2 DEF StartSshd, Booted, BackstopInv
      <4>. QED  BY <2>1, <4>1, <4>2
    <3>. QED  BY <3>1, <3>2, <3>3, <3>4 DEF BackstopInv
  <2>2. CASE ContainerExit(p)
    <3>1. terminateAfter' = terminateAfter /\ pc' = pc /\ opEnd' = opEnd /\ now' = now /\ wdAt' = wdAt
          /\ podState' = [podState EXCEPT ![p] = "exited"] /\ wdLeft' = [wdLeft EXCEPT ![p] = 0]
          /\ Live(p)
      BY <2>2 DEF ContainerExit, runner
    <3>2. \A q \in Pods : podState'[q] \notin {"none", "gone"} => Live(q)
      BY <1>0, <3>1
    <3>3. \A q \in Pods : wdLeft'[q] > 0 => wdLeft[q] > 0
      BY <1>0, <3>1
    <3>4. \A q \in Pods : podState'[q] \in Booted => podState[q] \in Booted /\ wdLeft'[q] = wdLeft[q]
      BY <1>0, <3>1 DEF Booted
    <3>. QED  BY <3>1, <3>2, <3>3, <3>4 DEF BackstopInv
  <2>3. CASE PlatformTerminate(p) \/ WatchdogDeletes(p)
    BY <2>3, DeleteFrame, BackstopKept DEF PlatformTerminate, WatchdogDeletes, runner, BackstopFrame
  <2>4. CASE WatchdogFails(p)
    <3>1. terminateAfter' = terminateAfter /\ pc' = pc /\ opEnd' = opEnd /\ now' = now /\ podState' = podState
          /\ wdLeft' = [wdLeft EXCEPT ![p] = wdLeft[p] - 1]
          /\ wdAt' = [wdAt EXCEPT ![p] = now + WatchdogPause]
      BY <2>4 DEF WatchdogFails, runner
    <3>2. now >= SelfTerminateSeconds
      BY <1>0, <2>4 DEF WatchdogFails, WatchdogDue, BackstopInv
    <3>3. \A q \in Pods : wdLeft'[q] > 0 => wdAt'[q] >= SelfTerminateSeconds
      BY <1>0, <3>1, <3>2, TimeAssumption DEF BackstopInv
    <3>. QED  BY <3>1, <3>2, <3>3 DEF BackstopInv
  <2>. QED  BY <2>1, <2>2, <2>3, <2>4 DEF PodStep
<1>6. CASE Tick \/ Terminated \/ UNCHANGED vars
  BY <1>6, BackstopKept DEF Tick, Terminated, vars, runner, BackstopFrame
<1>. QED  BY <1>1, <1>2, <1>3, <1>4, <1>5, <1>6 DEF Next

LEMMA AlwaysBackstopInv == Spec => []BackstopInv
<1>1. Init => BackstopInv
  BY DEF Init, BackstopInv, AuthEnd, Booted
<1>. QED  BY <1>1, AlwaysTimeInv, BackstopStep, PTL DEF Spec

\* With a long enough grace, neither --terminate-after nor the watchdog comes
\* before the runner is done; and --terminate-after comes no later than the
\* timeout, the grace and the one call before it was computed.
THEOREM BackstopTheorem == Spec => []BackstopIsLast
<1>1. ASSUME IInv, BackstopInv, RunBounded PROVE BackstopIsLast
  <2>0. ASSUME LivePods # {}
        PROVE  terminateAfter - HardTimeout \in TerminateGrace .. TerminateGrace + MinOf(HardTimeout, CallCap)
    <3>1. /\ terminateAfter \in Nat /\ AuthEnd \in Nat /\ HardTimeout \in Nat /\ TerminateGrace \in Nat
          /\ SelfTerminateSeconds = HardTimeout + TerminateGrace
      BY <1>1, TimeAssumption DEF IInv, TypeOK, SelfTerminateSeconds, AuthEnd, MinOf
    <3>2. \E p \in Pods : Live(p)
      BY <2>0 DEF LivePods
    <3>3. terminateAfter >= SelfTerminateSeconds /\ terminateAfter <= SelfTerminateSeconds + AuthEnd
      BY <1>1, <3>2 DEF BackstopInv
    <3>. QED  BY <3>1, <3>3 DEF AuthEnd
  <2>1. SUFFICES ASSUME TerminateGrace > RestSlack + 2 * CleanupWindow, Active, NEW p \in Pods
                 PROVE  ~TerminationDue(p) /\ ~WatchdogDue(p)
    BY <2>0 DEF BackstopIsLast
  <2>2. now \in Nat /\ opEnd \in Nat /\ terminateAfter \in Nat /\ wdAt[p] \in Nat /\ wdLeft[p] \in Int
    BY SMTT(40), <1>1 DEF IInv, TypeOK
  <2>3. RunBound \in Int /\ SelfTerminateSeconds \in Int /\ RunBound < SelfTerminateSeconds
    BY <2>1, TimeAssumption, WindowFact DEF RunBound, SelfTerminateSeconds
  <2>4. now < SelfTerminateSeconds
    BY <1>1, <2>1, <2>2, <2>3 DEF RunBounded
  <2>. QED  BY <1>1, <2>2, <2>3, <2>4 DEF BackstopInv, TerminationDue, WatchdogDue
<1>. QED  BY <1>1, AlwaysIInv, AlwaysBackstopInv, RunBoundedTheorem, PTL

\* A CPU Pod is only used while its watchdog is armed, and not yet due, where
\* the grace exceeds the overrun of a REST call.
THEOREM WatchdogTheorem ==
    ASSUME TerminateGrace > RestSlack
    PROVE  Spec => []WatchdogGuardsWork
<1>1. ASSUME IInv, BackstopInv, RunBounded PROVE WatchdogGuardsWork
  <2>1. SUFFICES ASSUME ~IsGpu, pc \in {"verify"} \cup WorkPcs, podState[podId] = "running"
                 PROVE  wdLeft[podId] = 3 /\ now < wdAt[podId]
    BY DEF WatchdogGuardsWork
  <2>2. podId \in Pods
    BY <1>1, <2>1 DEF IInv, TypeOK, PhaseInv, HoldingPcs
  <2>3. now \in Nat /\ opEnd \in Nat /\ wdAt[podId] \in Nat
    BY <1>1, <2>2 DEF IInv, TypeOK
  <2>4. now <= HardTimeout + RestSlack
    BY <1>1, <2>1, <2>3, TimeAssumption DEF RunBounded, DeadlineRespected, Active
  <2>5. SelfTerminateSeconds \in Nat /\ now < SelfTerminateSeconds
    BY <2>3, <2>4, TimeAssumption DEF SelfTerminateSeconds
  <2>. QED  BY <1>1, <2>1, <2>2, <2>3, <2>5 DEF BackstopInv, Booted
<1>. QED  BY <1>1, AlwaysIInv, AlwaysBackstopInv, RunBoundedTheorem, PTL

-----------------------------------------------------------------------------
(* Reclamation.  A Pod that exists exists until it is gone, and nothing the *)
(* runner does takes back a termination that is due.                        *)

\* What may become of Pod p in one step.
Onward(p) ==
    /\ podState[p] \notin {"none", "gone"} => podState'[p] # "none"
    /\ podState[p] = "gone" => podState'[p] = "gone"

LEMMA OnwardStep == IInv /\ [Next]_vars => \A p \in Pods : Onward(p)
<1>. SUFFICES ASSUME IInv, [Next]_vars, NEW q \in Pods PROVE Onward(q)
  OBVIOUS
<1>0. podState \in [Pods -> PodStates] /\ "starting" \in PodStates
  BY DEF IInv, TypeOK, PodStates
<1>1. ASSUME NEW p \in Pods, NEW s \in {"armed", "running", "exited"}, podState[p] # "gone",
             podState' = [podState EXCEPT ![p] = s]
      PROVE  Onward(q)
  BY <1>0, <1>1 DEF Onward
<1>2. ASSUME NEW p \in Pods, Deleted(p) PROVE Onward(q)
  BY <1>0, <1>2 DEF Onward, Deleted
<1>3. ASSUME NEW p \in Pods, NEW d \in DetailsSet, Created(p, d) PROVE Onward(q)
  BY <1>0, <1>3 DEF Onward, Created
<1>4. ASSUME podState' = podState PROVE Onward(q)
  BY <1>4 DEF Onward
<1>5. CASE \E p \in Pods, d \in DetailsSet : CreateSucceeds(p, d) \/ CreateLosesReply(p, d)
  BY <1>3, <1>5 DEF CreateSucceeds, CreateLosesReply
<1>6. CASE RejectDeleted \/ CleanupDeleted \/ RejectFails \/ CleanupFails \/ SignalInDelete
  <2>1. podId \in Pods /\ (Deleted(podId) \/ podState' = podState)
    BY <1>6 DEF IInv, TypeOK, PhaseInv, HoldingPcs, RejectDeleted, CleanupDeleted, RejectFails, CleanupFails,
       SignalInDelete, DeleteEffectUnknown
  <2>. QED  BY <1>2, <1>4, <2>1
<1>7. CASE \E p \in Pods : PodStep(p)
  BY <1>1, <1>2, <1>4, <1>7 DEF PodStep, StartWatchdog, StartSshd, ContainerExit, PlatformTerminate, WatchdogDeletes, WatchdogFails
<1>8. CASE SignalInTry
  BY <1>3, <1>4, <1>8 DEF SignalInTry
<1>9. CASE RunnerLost \/ SignalInDownload \/ SignalInFinally
  BY <1>4, <1>9 DEF RunnerLost, SignalInDownload, SignalInFinally
<1>10. CASE Tick \/ Terminated \/ UNCHANGED vars
  BY <1>4, <1>10 DEF Tick, Terminated, vars
<1>11. CASE \/ CheckAuth \/ OperationFails \/ CreateNoCapacity \/ PollEndpoint \/ NotReady \/ ProbeReady
            \/ VerifyAccepts \/ VerifyRejects \/ VerifyRefuses \/ PauseEnds \/ MkdirDone \/ PutDone \/ UntarDone
            \/ CommandDone \/ Finally \/ TarDone \/ GetDone \/ GetFails \/ RmDone \/ DeleteAgain
            \/ \E error \in {"missing", "JobError"} : TarFails(error)
  BY <1>4, <1>11 DEF CheckAuth, OperationFails, CreateNoCapacity, PollEndpoint, NotReady, ProbeReady, VerifyAccepts,
     VerifyRejects, VerifyRefuses, PauseEnds, MkdirDone, PutDone, UntarDone, CommandDone, Finally, TarDone, GetDone,
     GetFails, RmDone, DeleteAgain, TarFails
<1>. QED  BY <1>5, <1>6, <1>7, <1>8, <1>9, <1>10, <1>11 DEF Next, JobStep, Signal

\* While a Pod exists, its termination time stays what it was created with.
LEMMA DueTimeKept == IInv /\ [Next]_vars /\ LivePods # {} => terminateAfter' = terminateAfter
<1>. SUFFICES ASSUME IInv, [Next]_vars, LivePods # {} PROVE terminateAfter' = terminateAfter
  OBVIOUS
<1>1. ~CheckAuth
  BY DEF CheckAuth, IInv, PhaseInv, LivePods
<1>2. CASE JobStep \/ Signal
  BY <1>1, <1>2, JobStepFrame, SignalFrame DEF BackstopFrame
<1>3. CASE RunnerLost \/ (\E p \in Pods : PodStep(p)) \/ Tick \/ Terminated \/ UNCHANGED vars
  BY <1>3 DEF RunnerLost, PodStep, StartWatchdog, StartSshd, ContainerExit, PlatformTerminate, WatchdogDeletes, WatchdogFails, Tick,
     Terminated, vars, runner
<1>. QED  BY <1>2, <1>3 DEF Next

ReclamationKept ==
    \A p \in Pods :
        /\ Live(p) => podState'[p] # "none"
        /\ podState[p] = "gone" => podState'[p] = "gone"
        /\ TerminationDue(p) => TerminationDue(p)' \/ podState'[p] = "gone"

LEMMA ReclaimStep == IInv /\ [Next]_vars => ReclamationKept
<1>. SUFFICES ASSUME IInv, [Next]_vars, NEW p \in Pods, TerminationDue(p), podState'[p] # "gone"
     PROVE  TerminationDue(p)'
  BY OnwardStep DEF ReclamationKept, Onward
<1>1. Live(p)' /\ LivePods # {}
  BY OnwardStep DEF TerminationDue, Onward, LivePods
<1>2. terminateAfter' = terminateAfter
  BY <1>1, DueTimeKept
<1>3. now \in Nat /\ terminateAfter \in Nat /\ now' \in {now, now + 1}
  <2>1. now' \in {now, now + 1}
    <3>1. CASE CheckAuth \/ RunnerLost \/ (\E q \in Pods : PodStep(q)) \/ Tick \/ Terminated \/ UNCHANGED vars
      BY <3>1 DEF CheckAuth, RunnerLost, PodStep, StartWatchdog, StartSshd, ContainerExit, PlatformTerminate, WatchdogDeletes,
         WatchdogFails, Tick, Terminated, vars
    <3>. QED  BY <3>1, JobStepFrame, SignalFrame DEF Next, BackstopFrame
  <2>. QED  BY <2>1 DEF IInv, TypeOK
<1>. QED  BY <1>1, <1>2, <1>3 DEF TerminationDue

\* What PodsReclaimed rests on besides fairness: every GPU Pod that still
\* exists SelfTerminateSeconds after the first call is due for termination by
\* the platform, stays due until it is gone, and does not come back.
THEOREM ReclaimTheorem ==
    Spec => /\ [](\A p \in Pods : IsGpu /\ Live(p) /\ now >= SelfTerminateSeconds + MinOf(HardTimeout, CallCap) =>
                      TerminationDue(p))
            /\ [][ReclamationKept]_vars
<1>1. ASSUME IInv, BackstopInv, NEW p \in Pods, IsGpu, Live(p),
             now >= SelfTerminateSeconds + MinOf(HardTimeout, CallCap)
      PROVE  TerminationDue(p)
  <2>1. terminateAfter \in Nat /\ SelfTerminateSeconds \in Nat /\ AuthEnd \in Nat /\ now \in Nat
    BY <1>1, TimeAssumption DEF IInv, TypeOK, SelfTerminateSeconds, AuthEnd, MinOf
  <2>2. terminateAfter <= SelfTerminateSeconds + AuthEnd
    BY <1>1 DEF BackstopInv
  <2>. QED  BY <1>1, <2>1, <2>2 DEF TerminationDue, AuthEnd
<1>2. IInv /\ BackstopInv =>
        \A p \in Pods : IsGpu /\ Live(p) /\ now >= SelfTerminateSeconds + MinOf(HardTimeout, CallCap) =>
            TerminationDue(p)
  BY <1>1
<1>3. IInv /\ [Next]_vars => [ReclamationKept]_vars
  BY ReclaimStep
<1>. QED  BY <1>2, <1>3, AlwaysIInv, AlwaysBackstopInv, PTL DEF Spec

-----------------------------------------------------------------------------
(* The order of placement: the attempts before round r are r - 1 complete  *)
(* passes over the candidates.                                             *)

Before(r) == Len(Candidates) * (r - 1)

PlacedPcs == {"create", "backoff"} \cup WaitingPcs

\* The failures fs are complete up to attempt n, and in order.
InOrder(fs) ==
    \A i \in 1 .. Len(fs) : Before(fs[i].round) + fs[i].cand = i

OrderInv ==
    /\ InOrder(failures)
    /\ pc \in PlacedPcs => Len(failures) = Before(round) + cand - 1
    /\ pc \in RejectPcs => Len(failures) = Before(round) + cand /\ ~capacityOnly
    /\ Before(round) <= Len(failures)
    /\ capacityOnly => \A i \in 1 .. Len(failures) : failures[i].kind = "capacity"
    /\ \A i \in 1 .. Before(round) : failures[i].kind = "capacity"
    /\ pc = "auth" => failures = <<>> /\ round = 1 /\ cand = 1

LEMMA BeforeFact ==
    /\ Len(Candidates) \in Nat \ {0}
    /\ Before(1) = 0
    /\ \A r \in Nat \ {0} : Before(r) \in Nat /\ Before(r + 1) = Before(r) + Len(Candidates)
<1>1. Len(Candidates) \in Nat \ {0}
  BY CandidatesAssumption DEF IsGpu
<1>2. \A n \in Nat : Len(Candidates) * n \in Nat /\ Len(Candidates) * (n + 1) = Len(Candidates) * n + Len(Candidates)
  BY <1>1
<1>3. Before(1) = 0
  BY <1>1 DEF Before
<1>4. ASSUME NEW r \in Nat \ {0}
      PROVE  Before(r) \in Nat /\ Before(r + 1) = Before(r) + Len(Candidates)
  <2>1. r - 1 \in Nat /\ (r + 1) - 1 = (r - 1) + 1
    OBVIOUS
  <2>. QED  BY <1>2, <2>1 DEF Before
<1>. QED  BY <1>1, <1>3, <1>4

LEMMA RoundFact ==
    ASSUME IInv
    PROVE  /\ round \in Nat \ {0} /\ cand \in Nat \ {0} /\ cand <= Len(Candidates)
           /\ Before(round) \in Nat
           /\ failures \in Seq(Failure) /\ Len(failures) \in Nat
<1>1. round \in 1 .. PlacementRounds /\ cand \in 1 .. Len(Candidates) /\ failures \in Seq(Failure)
  BY DEF IInv, TypeOK
<1>2. round \in Nat \ {0} /\ cand \in Nat \ {0} /\ cand <= Len(Candidates)
  <2>1. Len(Candidates) \in Nat /\ PlacementRounds \in Nat
    BY BeforeFact, CountAssumption
  <2>. QED  BY <1>1, <2>1
<1>3. Len(failures) \in Nat
  BY <1>1
<1>. QED  BY <1>1, <1>2, <1>3, BeforeFact

\* A step that records no failure.
LEMMA OrderKept ==
    ASSUME IInv, OrderInv, UNCHANGED placement,
           pc' \in PlacedPcs => pc \in PlacedPcs \cup {"auth"},
           pc' \in RejectPcs => pc \in RejectPcs,
           pc' = "auth" => pc = "auth"
    PROVE  OrderInv'
<1>1. ASSUME pc = "auth" PROVE Len(failures) = Before(round) + cand - 1
  <2>1. failures = <<>> /\ round = 1 /\ cand = 1
    BY <1>1 DEF OrderInv
  <2>2. Len(failures) = 0 /\ Before(round) = 0
    BY <2>1, BeforeFact
  <2>. QED  BY <2>1, <2>2
<1>. QED  BY <1>1 DEF OrderInv, InOrder

\* What a failure recorded in its turn leaves.
LEMMA Recorded ==
    ASSUME IInv, OrderInv, pc \in PlacedPcs, NEW kind \in {"capacity", "rejected"},
           PlacementFailure(kind)
    PROVE  /\ Len(failures') = Before(round) + cand
           /\ InOrder(failures')
           /\ capacityOnly /\ kind = "capacity" =>
                \A i \in 1 .. Len(failures') : failures'[i].kind = "capacity"
           /\ \A i \in 1 .. Before(round) : failures'[i].kind = "capacity"
<1>1. failures \in Seq(Failure) /\ round \in Nat \ {0} /\ cand \in Nat /\ Len(failures) \in Nat
      /\ Before(round) \in Nat
  BY RoundFact
<1>. DEFINE new == [round |-> round, cand |-> cand, kind |-> kind]
<1>2. /\ failures' = Append(failures, new) /\ new \in Failure
  BY <1>1 DEF PlacementFailure, Failure
<1>3. /\ Len(failures') = Len(failures) + 1
      /\ \A i \in 1 .. Len(failures) : failures'[i] = failures[i]
      /\ failures'[Len(failures) + 1] = new
  BY <1>1, <1>2
<1>4. Len(failures) = Before(round) + cand - 1 /\ Before(round) <= Len(failures)
  BY DEF OrderInv
<1>5. new.round = round /\ new.cand = cand /\ new.kind = kind
  OBVIOUS
<1>. HIDE DEF new
<1>6. Len(failures') = Before(round) + cand
  BY <1>1, <1>3, <1>4
<1>7. InOrder(failures')
  <2>1. \A i \in 1 .. Len(failures) : Before(failures'[i].round) + failures'[i].cand = i
    BY <1>3 DEF OrderInv, InOrder
  <2>2. Before(new.round) + new.cand = Len(failures) + 1
    BY <1>1, <1>4, <1>5
  <2>. QED  BY <1>1, <1>3, <2>1, <2>2 DEF InOrder
<1>8. capacityOnly /\ kind = "capacity" =>
        \A i \in 1 .. Len(failures') : failures'[i].kind = "capacity"
  BY <1>1, <1>3, <1>5 DEF OrderInv
<1>9. \A i \in 1 .. Before(round) : failures'[i].kind = "capacity"
  BY <1>1, <1>3, <1>4 DEF OrderInv
<1>. QED  BY <1>6, <1>7, <1>8, <1>9

\* The next candidate after a failure was recorded.
LEMMA Advance ==
    ASSUME IInv, IInv', NEW only \in BOOLEAN, NextCandidate(only),
           Len(failures') = Before(round) + cand,
           InOrder(failures'),
           only => \A i \in 1 .. Len(failures') : failures'[i].kind = "capacity",
           \A i \in 1 .. Before(round) : failures'[i].kind = "capacity"
    PROVE  OrderInv'
<1>1. round \in Nat \ {0} /\ cand \in Nat /\ cand <= Len(Candidates) /\ Before(round) \in Nat
      /\ cand >= 1 /\ TypeOK
  BY RoundFact DEF IInv
<1>2. CASE cand < Len(Candidates)
  <2>1. cand' = cand + 1 /\ round' = round /\ capacityOnly' = only /\ pc' \in {"create", "finally"}
    BY <1>1, <1>2, StartCreateEffect DEF NextCandidate
  <2>. QED  BY <1>1, <2>1 DEF OrderInv, PlacedPcs
<1>3. CASE ~(cand < Len(Candidates)) /\ only /\ round < PlacementRounds
  <2>1. cand' = 1 /\ round' = round + 1 /\ capacityOnly' = TRUE /\ pc' \in {"backoff", "finally"}
    BY <1>1, <1>3, CallEffect, TimeAssumption DEF NextCandidate
  <2>2. cand = Len(Candidates)
    BY <1>1, <1>3, BeforeFact
  <2>3. Before(round') = Len(failures')
    BY <1>1, <2>1, <2>2, BeforeFact
  <2>. QED  BY <1>1, <1>3, <2>1, <2>3 DEF OrderInv, PlacedPcs
<1>4. CASE ~(cand < Len(Candidates)) /\ ~(only /\ round < PlacementRounds)
  <2>1. cand' = cand /\ round' = round /\ capacityOnly' = only /\ pc' = "finally"
    BY <1>4 DEF NextCandidate, Raise, Enter
  <2>. QED  BY <1>1, <2>1 DEF OrderInv, PlacedPcs
<1>. QED  BY <1>2, <1>3, <1>4

LEMMA JobStepOrder ==
    ASSUME IInv, IInv', OrderInv, JobStep
    PROVE  OrderInv'
<1>. USE DEF PlacedPcs
<1>1. CASE CreateNoCapacity
  BY <1>1, Recorded, Advance DEF CreateNoCapacity, IInv, TypeOK
<1>2. CASE VerifyRejects
  <2>1. /\ Len(failures') = Before(round) + cand /\ InOrder(failures')
        /\ \A i \in 1 .. Before(round) : failures'[i].kind = "capacity"
    BY <1>2, Recorded DEF VerifyRejects
  <2>2. pc' = "reject" /\ capacityOnly' = FALSE /\ UNCHANGED <<round, cand>>
    BY <1>2 DEF VerifyRejects, StartDelete, Enter
  <2>3. Before(round) <= Before(round) + cand
    BY RoundFact
  <2>. QED  BY <2>1, <2>2, <2>3 DEF OrderInv
<1>3. CASE RejectDeleted
  <2>1. /\ Len(failures') = Before(round) + cand /\ InOrder(failures') /\ ~capacityOnly
        /\ \A i \in 1 .. Before(round) : failures'[i].kind = "capacity"
    BY <1>3 DEF RejectDeleted, OrderInv
  <2>2. NextCandidate(FALSE)
    BY <1>3, <2>1 DEF RejectDeleted, IInv, TypeOK
  <2>3. failures' = failures
    BY <1>3 DEF RejectDeleted
  <2>. QED  BY <2>1, <2>2, <2>3, Advance
<1>4. CASE CheckAuth
  BY <1>4, StartCreateEffect, OrderKept DEF CheckAuth, IInv
<1>5. CASE PollEndpoint \/ NotReady \/ ProbeReady \/ VerifyAccepts
  BY <1>5, CallEffect, OrderKept, TimeAssumption DEF PollEndpoint, NotReady, ProbeReady, VerifyAccepts, IInv
<1>6. CASE PauseEnds
  BY <1>6, StartCreateEffect, CallEffect, OrderKept, TimeAssumption DEF PauseEnds, IInv
<1>7. CASE MkdirDone \/ PutDone \/ UntarDone \/ CommandDone
  BY <1>7, CallEffect, OrderKept, TimeAssumption DEF MkdirDone, PutDone, UntarDone, CommandDone, Enter, IInv
<1>8. CASE \E p \in Pods, d \in DetailsSet : CreateSucceeds(p, d) \/ CreateLosesReply(p, d)
  BY <1>8, CallEffect, OrderKept, TimeAssumption DEF CreateSucceeds, CreateLosesReply, Raise, Enter, IInv
<1>9. CASE OperationFails \/ VerifyRefuses \/ RejectFails
  BY <1>9, OrderKept DEF OperationFails, VerifyRefuses, RejectFails, Raise, Enter
<1>10. CASE \/ Finally \/ TarDone \/ GetDone \/ GetFails \/ RmDone
            \/ \E error \in {"missing", "JobError"} : TarFails(error)
  BY <1>10, OrderKept DEF Finally, TarDone, GetDone, GetFails, RmDone, TarFails, RemoteSucceeds,
     StartCleanup, StartDelete, StartRm, Return, Enter
<1>11. CASE CleanupDeleted \/ CleanupFails \/ DeleteAgain
  BY <1>11, OrderKept DEF CleanupDeleted, CleanupFails, DeleteAgain, StartDelete, Return, Enter
<1>. QED  BY <1>1, <1>2, <1>3, <1>4, <1>5, <1>6, <1>7, <1>8, <1>9, <1>10, <1>11 DEF JobStep

LEMMA OrderStep == IInv /\ OrderInv /\ [Next]_vars => OrderInv'
<1>. SUFFICES ASSUME IInv, OrderInv, [Next]_vars PROVE OrderInv'
  OBVIOUS
<1>. USE DEF PlacedPcs
<1>1. CASE JobStep
  BY <1>1, NextInv, JobStepOrder
<1>2. CASE Signal
  BY <1>2, OrderKept DEF Signal, SignalInTry, SignalInDelete, SignalInDownload, SignalInFinally,
     StartCleanup, StartDelete, StartRm, Return, Raise, Enter
<1>3. CASE RunnerLost
  BY <1>3, OrderKept DEF RunnerLost, Enter
<1>4. CASE \E p \in Pods : PodStep(p)
  BY <1>4, OrderKept DEF PodStep, StartWatchdog, StartSshd, ContainerExit, PlatformTerminate, WatchdogDeletes, WatchdogFails, runner
<1>5. CASE Tick \/ Terminated \/ UNCHANGED vars
  BY <1>5, OrderKept DEF Tick, Terminated, vars, runner
<1>. QED  BY <1>1, <1>2, <1>3, <1>4, <1>5 DEF Next

\* The Pods that were ever created: none before a round is repeated, and then
\* at most one for each candidate.
Started == {p \in Pods : podState[p] # "none"}

SpentInv ==
    /\ IsFiniteSet(Started) /\ Cardinality(Started) <= cand
    /\ pc \in PlacingPcs => Cardinality(Started) <= cand - 1 /\ (capacityOnly => Started = {})

\* A Pod that once existed does not count again, whatever becomes of it.
LEMMA StartedKept ==
    ASSUME IInv,
           \/ UNCHANGED podState
           \/ \E p \in Pods, s \in {"armed", "running", "exited", "gone"} :
                podState[p] # "none" /\ podState' = [podState EXCEPT ![p] = s]
    PROVE  Started' = Started
<1>1. podState \in [Pods -> PodStates]
  BY DEF IInv, TypeOK
<1>. QED  BY <1>1 DEF Started

LEMMA StartedHeld ==
    ASSUME IInv, pc \in HoldingPcs, Deleted(podId) \/ UNCHANGED podState
    PROVE  Started' = Started
<1>1. podId \in Pods /\ podState[podId] # "none"
  BY DEF IInv, TypeOK, PhaseInv, PodInv
<1>. QED  BY <1>1, StartedKept DEF Deleted

LEMMA SpentKept ==
    ASSUME SpentInv, Started' = Started, UNCHANGED <<cand, capacityOnly>>,
           pc' \in PlacingPcs => pc \in PlacingPcs
    PROVE  SpentInv'
BY DEF SpentInv

LEMMA SpentCreated ==
    ASSUME IInv, SpentInv, pc = "create", NEW p \in Pods, NEW d \in DetailsSet, Created(p, d),
           UNCHANGED <<cand, capacityOnly>>, pc' \notin PlacingPcs
    PROVE  SpentInv'
<1>1. podState \in [Pods -> PodStates]
  BY DEF IInv, TypeOK
<1>2. Started' = Started \cup {p} /\ p \notin Started
  BY <1>1 DEF Created, Started
<1>3. IsFiniteSet(Started) /\ Cardinality(Started) <= cand - 1
  BY DEF SpentInv
<1>4. Cardinality(Started) \in Nat /\ cand \in Nat
  BY <1>3, RoundFact, FS_CardinalityType
<1>5. IsFiniteSet(Started') /\ Cardinality(Started') = Cardinality(Started) + 1
  BY <1>2, <1>3, FS_AddElement
<1>. QED  BY <1>3, <1>4, <1>5 DEF SpentInv

LEMMA SpentAdvance ==
    ASSUME IInv, SpentInv, NEW only \in BOOLEAN, NextCandidate(only), Started' = Started,
           only => Started = {}
    PROVE  SpentInv'
<1>1. cand \in Nat \ {0} /\ IsFiniteSet(Started) /\ Cardinality(Started) <= cand /\ Cardinality(Started) \in Nat
  BY RoundFact, FS_CardinalityType DEF SpentInv
<1>2. CASE cand < Len(Candidates)
  BY <1>1, <1>2 DEF NextCandidate, SpentInv
<1>3. CASE ~(cand < Len(Candidates)) /\ only /\ round < PlacementRounds
  <2>1. cand' = 1 /\ Started' = {}
    BY <1>3 DEF NextCandidate
  <2>2. Cardinality(Started') = 0 /\ IsFiniteSet(Started')
    BY <2>1, FS_EmptySet
  <2>. QED  BY <2>1, <2>2 DEF SpentInv
<1>4. CASE ~(cand < Len(Candidates)) /\ ~(only /\ round < PlacementRounds)
  BY <1>1, <1>4 DEF NextCandidate, Raise, Enter, SpentInv
<1>. QED  BY <1>2, <1>3, <1>4

LEMMA SpentStep == IInv /\ OrderInv /\ SpentInv /\ [Next]_vars => SpentInv'
<1>. SUFFICES ASSUME IInv, OrderInv, SpentInv, [Next]_vars PROVE SpentInv'
  OBVIOUS
<1>. USE DEF HoldingPcs
<1>1. CASE CreateNoCapacity
  <2>1. Started' = Started /\ capacityOnly \in BOOLEAN /\ pc = "create"
    BY <1>1, StartedKept DEF CreateNoCapacity, IInv, TypeOK
  <2>. QED  BY <1>1, <2>1, SpentAdvance DEF CreateNoCapacity, SpentInv
<1>2. CASE RejectDeleted
  <2>1. Started' = Started /\ capacityOnly \in BOOLEAN /\ ~capacityOnly
    BY <1>2, StartedHeld DEF RejectDeleted, IInv, TypeOK, OrderInv
  <2>. QED  BY <1>2, <2>1, SpentAdvance DEF RejectDeleted
<1>3. CASE VerifyRejects
  <2>1. Started' = Started /\ cand' = cand /\ pc' = "reject"
    BY <1>3, StartedKept DEF VerifyRejects, StartDelete, Enter
  <2>. QED  BY <2>1 DEF SpentInv
<1>4. CASE \E p \in Pods, d \in DetailsSet : CreateSucceeds(p, d) \/ CreateLosesReply(p, d)
  BY <1>4, CallEffect, SpentCreated, TimeAssumption DEF CreateSucceeds, CreateLosesReply, Raise, Enter, IInv
<1>5. CASE CheckAuth \/ PauseEnds
  <2>1. pc = "pollPause" => pc' \in {"poll", "finally"}
    BY <1>5, CallEffect, TimeAssumption DEF CheckAuth, PauseEnds, IInv
  <2>2. pc \in PlacingPcs \cup {"pollPause"} /\ UNCHANGED <<podState, cand, capacityOnly>>
    BY <1>5 DEF CheckAuth, PauseEnds
  <2>. QED  BY <2>1, <2>2, StartedKept, SpentKept
<1>6. CASE PollEndpoint \/ NotReady \/ ProbeReady \/ VerifyAccepts
  BY <1>6, CallEffect, StartedKept, SpentKept, TimeAssumption DEF PollEndpoint, NotReady, ProbeReady, VerifyAccepts,
     IInv
<1>7. CASE MkdirDone \/ PutDone \/ UntarDone \/ CommandDone
  BY <1>7, CallEffect, StartedKept, SpentKept, TimeAssumption DEF MkdirDone, PutDone, UntarDone, CommandDone,
     Enter, IInv
<1>8. CASE OperationFails \/ VerifyRefuses
  BY <1>8, StartedKept, SpentKept DEF OperationFails, VerifyRefuses, Raise, Enter
<1>9. CASE \/ Finally \/ TarDone \/ GetDone \/ GetFails \/ RmDone
           \/ \E error \in {"missing", "JobError"} : TarFails(error)
  BY <1>9, StartedKept, SpentKept DEF Finally, TarDone, GetDone, GetFails, RmDone, TarFails, RemoteSucceeds,
     StartCleanup, StartDelete, StartRm, Return, Enter
<1>10. CASE RejectFails \/ CleanupFails \/ CleanupDeleted \/ DeleteAgain
  <2>1. Started' = Started
    BY <1>10, StartedHeld, StartedKept DEF RejectFails, CleanupFails, CleanupDeleted, DeleteAgain,
       DeleteEffectUnknown
  <2>. QED  BY <1>10, <2>1, SpentKept DEF RejectFails, CleanupFails, CleanupDeleted, DeleteAgain, StartDelete,
              Return, Raise, Enter
<1>11. CASE Signal
  <2>1. CASE SignalInTry /\ ~UNCHANGED podVars
    BY <2>1, SpentCreated DEF SignalInTry, Raise, Enter
  <2>2. CASE SignalInTry /\ UNCHANGED podVars
    BY <2>2, StartedKept, SpentKept DEF SignalInTry, Raise, Enter
  <2>3. CASE SignalInDelete
    <3>1. Started' = Started /\ UNCHANGED <<cand, capacityOnly>>
      BY <2>3, StartedHeld DEF SignalInDelete, DeleteEffectUnknown
    <3>2. pc' \notin PlacingPcs
      BY <2>3 DEF SignalInDelete, Return, Raise, Enter
    <3>. QED  BY <3>1, <3>2, SpentKept
  <2>4. CASE SignalInDownload \/ SignalInFinally
    BY <2>4, StartedKept, SpentKept DEF SignalInDownload, SignalInFinally, StartCleanup, StartDelete, StartRm,
       Return, Enter
  <2>. QED  BY <1>11, <2>1, <2>2, <2>3, <2>4 DEF Signal
<1>12. CASE RunnerLost
  BY <1>12, StartedKept, SpentKept DEF RunnerLost, Enter
<1>13. CASE \E p \in Pods : PodStep(p)
  <2>1. UNCHANGED runner /\ Started' = Started
    BY <1>13, StartedKept DEF PodStep, StartWatchdog, StartSshd, ContainerExit, PlatformTerminate, WatchdogDeletes, WatchdogFails,
       Deleted, TerminationDue, WatchdogDue, Booted
  <2>. QED  BY <2>1, SpentKept DEF runner
<1>14. CASE Tick \/ Terminated \/ UNCHANGED vars
  BY <1>14, StartedKept, SpentKept DEF Tick, Terminated, vars, runner
<1>. QED  BY <1>1, <1>2, <1>3, <1>4, <1>5, <1>6, <1>7, <1>8, <1>9, <1>10, <1>11, <1>12, <1>13, <1>14
        DEF Next, JobStep

\* The candidates are tried in priority order, and again only after a whole
\* round that failed for lack of capacity alone; each costs at most one Pod.
THEOREM OrderTheorem == Spec => []FallbackOrder
<1>1. Init => OrderInv
  BY BeforeFact DEF Init, OrderInv, InOrder, PlacedPcs
<1>2. ASSUME IInv, OrderInv, SpentInv PROVE FallbackOrder
  <2>1. pc \in PlacingPcs \ {"auth"} => pc \in PlacedPcs
    BY DEF PlacedPcs
  <2>2. \A i \in 1 .. Len(failures) :
          Len(Candidates) * (failures[i].round - 1) + failures[i].cand = i
    BY <1>2 DEF OrderInv, InOrder, Before
  <2>3. round <= PlacementRounds
    BY <1>2, CountAssumption DEF IInv, TypeOK
  <2>4. Cardinality({p \in Pods : podState[p] # "none"}) <= cand
    BY <1>2 DEF SpentInv, Started
  <2>. QED  BY <1>2, <2>1, <2>2, <2>3, <2>4 DEF OrderInv, FallbackOrder, Before
<1>3. ASSUME Init PROVE SpentInv
  <2>1. Started = {} /\ cand = 1
    BY <1>3 DEF Init, Started
  <2>. QED  BY <2>1, FS_EmptySet DEF SpentInv
<1>. QED  BY <1>1, <1>2, <1>3, InitIInv, NextInv, OrderStep, SpentStep, PTL DEF Spec

-----------------------------------------------------------------------------
(* Progress.  Every step of the runner tries a later candidate, or brings  *)
(* the run of the present one closer to its end, without letting time      *)
(* pass: a run that went on for ever would have to let time pass for ever, *)
(* and RunBounded says that it does not.                                   *)

\* How many attempts at a placement were begun.
Begun == Before(round) + cand

\* What the finally block may still take, and from the verification on the
\* work with its commands or the deletion of a rejected Pod.
FinalStage  == 2 * DeleteAttempts + 3
VerifyStage == FinalStage + 2 * DeleteAttempts + NCommands + 4

\* An upper bound of the steps the runner takes before it begins another
\* attempt, ends or waits in a poll's pause.
Stage ==
    CASE pc = "auth"         -> VerifyStage + 6
      [] pc = "backoff"      -> VerifyStage + 5
      [] pc = "create"       -> VerifyStage + 4
      [] pc = "pollPause"    -> IF now = opEnd THEN VerifyStage + 3 ELSE VerifyStage
      [] pc = "poll"         -> VerifyStage + 2
      [] pc = "probe"        -> VerifyStage + 1
      [] pc = "verify"       -> VerifyStage
      [] pc = "reject"       -> FinalStage + 2 * (DeleteAttempts - attempt) + 1
      [] pc = "rejectPause"  -> FinalStage + 2 * (DeleteAttempts - attempt)
      [] pc = "mkdir"        -> FinalStage + NCommands + 3
      [] pc = "put"          -> FinalStage + NCommands + 2
      [] pc = "untar"        -> FinalStage + NCommands + 1
      [] pc = "command"      -> FinalStage + NCommands - cmd
      [] pc = "finally"      -> FinalStage
      [] pc = "tar"          -> 2 * DeleteAttempts + 2
      [] pc = "get"          -> 2 * DeleteAttempts + 1
      [] pc = "rmtar"        -> 2 * DeleteAttempts
      [] pc = "cleanup"      -> 2 * (DeleteAttempts - attempt) + 1
      [] pc = "cleanupPause" -> 2 * (DeleteAttempts - attempt)
      [] OTHER               -> 0

\* A step of the runner itself, or one that ends what it waits for.
RunnerStep == JobStep \/ Signal \/ RunnerLost

Closer ==
    /\ Active
    /\ now' = now
    /\ Begun < Begun' \/ (Begun' = Begun /\ Stage' < Stage)

RunnerAdvances == RunnerStep => Closer

\* The rank is a pair of natural numbers, and the first is bounded.
RankInv == Begun \in Nat /\ Begun <= Len(Candidates) * PlacementRounds /\ Stage \in Nat

LEMMA StageFact ==
    /\ DeleteAttempts \in Nat \ {0} /\ NCommands \in Nat \ {0}
    /\ FinalStage \in Nat /\ FinalStage = 2 * DeleteAttempts + 3
    /\ VerifyStage \in Nat /\ VerifyStage = 4 * DeleteAttempts + NCommands + 7
BY CountAssumption DEF FinalStage, VerifyStage

LEMMA RankType ==
    ASSUME IInv
    PROVE  RankInv
<1>1. attempt \in Nat /\ attempt <= DeleteAttempts /\ cmd \in Nat /\ cmd <= NCommands
  BY StageFact DEF IInv, TypeOK
<1>2. Stage \in Nat
  BY <1>1, StageFact DEF Stage
<1>3. Begun \in Nat
  BY RoundFact DEF Begun
<1>4. Begun <= Len(Candidates) * PlacementRounds
  <2>1. round \in Nat \ {0} /\ round <= PlacementRounds /\ PlacementRounds \in Nat \ {0}
    BY CountAssumption DEF IInv, TypeOK
  <2>2. Len(Candidates) \in Nat
    BY BeforeFact
  <2>3. Len(Candidates) * round <= Len(Candidates) * PlacementRounds
    BY <2>1, <2>2
  <2>4. Before(round) + Len(Candidates) = Len(Candidates) * round
    BY <2>1, <2>2 DEF Before
  <2>. QED  BY <2>1, <2>2, <2>3, <2>4, RoundFact DEF Begun
<1>. QED  BY <1>2, <1>3, <1>4 DEF RankInv

\* A step within an attempt.
LEMMA StageCloser ==
    ASSUME pc \in ActivePcs, UNCHANGED <<now, round, cand>>, Stage' < Stage
    PROVE  Closer
BY DEF Closer, Active, Begun

\* Every ending of the try body is below it, every ending of the run below that.
LEMMA FinalIsLow ==
    ASSUME IInv
    PROVE  /\ Stage \in Nat
           /\ pc \in TryPcs => Stage > FinalStage
           /\ pc \in {"finally"} \cup DownloadPcs \cup CleanupPcs => Stage > 0 /\ Stage <= FinalStage
           /\ pc \in PlacingPcs \cup WaitingPcs => Stage >= VerifyStage
<1>1. attempt \in Nat /\ attempt <= DeleteAttempts /\ cmd \in Nat /\ cmd <= NCommands
  BY StageFact DEF IInv, TypeOK
<1>2. (pc \in {"rejectPause", "cleanupPause"} => attempt < DeleteAttempts) /\ (pc = "command" => cmd < NCommands)
  BY DEF IInv, CountInv
<1>. QED  BY <1>1, <1>2, StageFact DEF Stage

LEMMA RaiseCloser ==
    ASSUME IInv, pc \in TryPcs, pc' = "finally", UNCHANGED <<now, round, cand>>
    PROVE  Closer
<1>1. Stage' = FinalStage
  BY DEF Stage, FinalStage
<1>. QED  BY <1>1, FinalIsLow, StageCloser

LEMMA EndCloser ==
    ASSUME IInv, pc \in ActivePcs, pc' \in EndPcs, UNCHANGED <<now, round, cand>>
    PROVE  Closer
<1>1. Stage' = 0
  BY DEF Stage
<1>2. Stage > 0
  <2>1. pc \in TryPcs \cup {"finally"} \cup DownloadPcs \cup CleanupPcs
    OBVIOUS
  <2>. QED  BY <2>1, FinalIsLow, StageFact
<1>. QED  BY <1>1, <1>2, StageCloser

\* A call that starts, or the exception that leaves the try body instead.
LEMMA CallCloser ==
    ASSUME IInv, pc \in TryPcs, UNCHANGED <<now, round, cand>>,
           NEW p, NEW cap \in Nat \ {0}, NEW slack \in Nat, Call(p, cap, slack),
           pc' = p => Stage' < Stage
    PROVE  Closer
<1>1. pc' \in {p, "finally"}
  BY CallEffect DEF IInv
<1>. QED  BY <1>1, RaiseCloser, StageCloser

LEMMA CreateCloser ==
    ASSUME IInv, pc \in {"auth", "backoff"}, UNCHANGED <<now, round, cand>>, StartCreate
    PROVE  Closer
<1>1. pc' \in {"create", "finally"}
  BY StartCreateEffect DEF IInv
<1>2. pc' = "create" => Stage' < Stage
  BY StageFact DEF Stage
<1>. QED  BY <1>1, <1>2, RaiseCloser, StageCloser

LEMMA CandidateCloser ==
    ASSUME IInv, pc \in TryPcs, UNCHANGED now, NEW only \in BOOLEAN, NextCandidate(only)
    PROVE  Closer
<1>1. round \in Nat \ {0} /\ cand \in Nat \ {0} /\ cand <= Len(Candidates) /\ Before(round) \in Nat
  BY RoundFact
<1>2. CASE cand < Len(Candidates)
  BY <1>1, <1>2 DEF NextCandidate, Closer, Begun, Active
<1>3. CASE ~(cand < Len(Candidates)) /\ only /\ round < PlacementRounds
  <2>1. round' = round + 1 /\ cand' = 1 /\ cand = Len(Candidates)
    BY <1>1, <1>3, BeforeFact DEF NextCandidate
  <2>2. Begun' = Before(round + 1) + 1
    BY <2>1 DEF Begun
  <2>3. Before(round + 1) = Before(round) + cand
    BY <1>1, <2>1, BeforeFact
  <2>. QED  BY <1>1, <2>2, <2>3 DEF Closer, Begun, Active
<1>4. CASE ~(cand < Len(Candidates)) /\ ~(only /\ round < PlacementRounds)
  BY <1>4, RaiseCloser DEF NextCandidate, Raise, Enter
<1>. QED  BY <1>2, <1>3, <1>4

LEMMA TryCloser ==
    ASSUME IInv, TimeInv,
           \/ CheckAuth \/ OperationFails \/ CreateNoCapacity \/ PollEndpoint \/ NotReady
           \/ ProbeReady \/ VerifyAccepts \/ VerifyRejects \/ VerifyRefuses \/ PauseEnds
           \/ \E p \in Pods, d \in DetailsSet : CreateSucceeds(p, d) \/ CreateLosesReply(p, d)
    PROVE  Closer
<1>. USE StageFact
<1>0. now \in Nat /\ opEnd \in Nat /\ attempt \in Nat /\ cmd \in Nat
  BY DEF IInv, TypeOK
<1>1. CASE CheckAuth
  BY <1>1, CreateCloser DEF CheckAuth
<1>2. CASE OperationFails \/ VerifyRefuses
  BY <1>2, RaiseCloser DEF OperationFails, VerifyRefuses, FailingCalls, Raise, Enter
<1>3. CASE CreateNoCapacity
  BY <1>3, CandidateCloser DEF CreateNoCapacity, IInv, TypeOK
<1>4. CASE PollEndpoint
  <2>1. pc' = "probe" => Stage' < Stage
    BY <1>4 DEF PollEndpoint, Stage
  <2>. QED  BY <1>4, <2>1, CallCloser, TimeAssumption DEF PollEndpoint
<1>5. CASE NotReady
  <2>1. pc \in {"poll", "probe"} /\ UNCHANGED <<now, round, cand>>
    BY <1>5 DEF NotReady
  <2>2. pc' = "pollPause" => now < opEnd'
    BY <1>0, <1>5, TimeAssumption DEF NotReady, Call, Enter, Raise, MinOf, SecondsLeft
  <2>3. pc' = "pollPause" => Stage' = VerifyStage
    BY <1>0, <2>1, <2>2 DEF Stage
  <2>4. pc' = "pollPause" => Stage' < Stage
    BY <2>1, <2>3 DEF Stage
  <2>. QED  BY <1>5, <2>1, <2>4, CallCloser, TimeAssumption DEF NotReady
<1>6. CASE ProbeReady
  <2>1. pc' = "verify" => Stage' < Stage
    BY <1>6 DEF ProbeReady, Stage
  <2>. QED  BY <1>6, <2>1, CallCloser, TimeAssumption DEF ProbeReady
<1>7. CASE VerifyAccepts
  <2>1. pc' = "mkdir" => Stage' < Stage
    BY <1>7 DEF VerifyAccepts, Stage
  <2>. QED  BY <1>7, <2>1, CallCloser, TimeAssumption DEF VerifyAccepts
<1>8. CASE VerifyRejects
  <2>1. Stage' < Stage
    BY <1>8 DEF VerifyRejects, StartDelete, Enter, Stage
  <2>. QED  BY <1>8, <2>1, StageCloser DEF VerifyRejects
<1>9. CASE PauseEnds
  <2>1. CASE pc = "backoff"
    BY <1>9, <2>1, CreateCloser DEF PauseEnds
  <2>2. CASE pc = "pollPause"
    <3>1. pc' = "poll" => Stage' < Stage
      BY <1>9, <2>2 DEF PauseEnds, Stage
    <3>. QED  BY <1>9, <2>2, <3>1, CallCloser, TimeAssumption DEF PauseEnds
  <2>. QED  BY <1>9, <2>1, <2>2 DEF PauseEnds
<1>10. CASE \E p \in Pods, d \in DetailsSet : CreateSucceeds(p, d)
  <2>. PICK p \in Pods, d \in DetailsSet : CreateSucceeds(p, d)
    BY <1>10
  <2>1. pc' = "poll" => Stage' < Stage
    BY DEF CreateSucceeds, Stage
  <2>. QED  BY <2>1, CallCloser, TimeAssumption DEF CreateSucceeds
<1>11. CASE \E p \in Pods, d \in DetailsSet : CreateLosesReply(p, d)
  BY <1>11, RaiseCloser DEF CreateLosesReply, Raise, Enter
<1>. QED  BY <1>1, <1>2, <1>3, <1>4, <1>5, <1>6, <1>7, <1>8, <1>9, <1>10, <1>11

LEMMA WorkCloser ==
    ASSUME IInv, MkdirDone \/ PutDone \/ UntarDone \/ CommandDone
    PROVE  Closer
<1>. USE StageFact DEF RemoteSucceeds
<1>0. cmd \in Nat /\ HardTimeout \in Nat \ {0}
  BY TimeAssumption DEF IInv, TypeOK
<1>1. CASE MkdirDone
  <2>1. pc' = "put" => Stage' < Stage
    BY <1>1 DEF MkdirDone, Stage
  <2>. QED  BY <1>1, <2>1, CallCloser, TimeAssumption DEF MkdirDone
<1>2. CASE PutDone
  <2>1. pc' = "untar" => Stage' < Stage
    BY <1>2 DEF PutDone, Stage
  <2>. QED  BY <1>2, <2>1, CallCloser, TimeAssumption DEF PutDone
<1>3. CASE UntarDone
  <2>1. pc' = "command" => Stage' < Stage
    BY <1>0, <1>3 DEF UntarDone, Stage, IInv, CountInv
  <2>. QED  BY <1>0, <1>3, <2>1, CallCloser DEF UntarDone
<1>4. CASE CommandDone /\ cmd + 1 < NCommands
  <2>1. pc' = "command" => Stage' < Stage
    BY <1>0, <1>4 DEF CommandDone, Stage
  <2>. QED  BY <1>0, <1>4, <2>1, CallCloser DEF CommandDone
<1>5. CASE CommandDone /\ ~(cmd + 1 < NCommands)
  BY <1>5, RaiseCloser DEF CommandDone, Enter
<1>. QED  BY <1>1, <1>2, <1>3, <1>4, <1>5

\* The deletion starts with its first attempt, or the run ends.
LEMMA CleanupCloser ==
    ASSUME IInv, pc \in {"finally", "tar", "rmtar"}, UNCHANGED <<now, round, cand>>,
           StartCleanup \/ StartDelete("cleanup", 1)
    PROVE  Closer
<1>1. CASE StartDelete("cleanup", 1)
  <2>1. Stage' < Stage
    BY <1>1, StageFact DEF StartDelete, Enter, Stage
  <2>. QED  BY <2>1, StageCloser
<1>2. CASE Return
  BY <1>2, EndCloser DEF Return, Enter
<1>. QED  BY <1>1, <1>2 DEF StartCleanup

LEMMA DownloadCloser ==
    ASSUME IInv,
           \/ Finally \/ TarDone \/ GetDone \/ GetFails \/ RmDone
           \/ \E error \in {"missing", "JobError"} : TarFails(error)
           \/ SignalInDownload /\ UNCHANGED now
    PROVE  Closer
<1>1. CASE Finally /\ WorthDownloading
  <2>1. Stage' < Stage
    BY <1>1, StageFact DEF Finally, Enter, Stage
  <2>. QED  BY <1>1, <2>1, StageCloser DEF Finally
<1>2. CASE Finally /\ ~WorthDownloading
  BY <1>2, CleanupCloser DEF Finally
<1>3. CASE TarDone \/ GetDone \/ GetFails
  <2>1. Stage' < Stage
    BY <1>3, StageFact DEF TarDone, GetDone, GetFails, RemoteSucceeds, StartRm, Enter, Stage
  <2>. QED  BY <1>3, <2>1, StageCloser DEF TarDone, GetDone, GetFails, RemoteSucceeds
<1>4. CASE RmDone
  BY <1>4, CleanupCloser DEF RmDone
<1>5. CASE \E error \in {"missing", "JobError"} : TarFails(error)
  BY <1>5, CleanupCloser DEF TarFails
<1>6. CASE SignalInDownload /\ UNCHANGED now
  <2>1. CASE pc = "get"
    <3>1. Stage' < Stage
      BY <1>6, <2>1, StageFact DEF SignalInDownload, StartRm, Enter, Stage
    <3>. QED  BY <1>6, <2>1, <3>1, StageCloser DEF SignalInDownload
  <2>2. CASE pc # "get"
    BY <1>6, <2>2, CleanupCloser DEF SignalInDownload
  <2>. QED  BY <2>1, <2>2
<1>. QED  BY <1>1, <1>2, <1>3, <1>4, <1>5, <1>6

LEMMA DeleteCloser ==
    ASSUME IInv,
           \/ RejectDeleted \/ CleanupDeleted \/ RejectFails \/ CleanupFails \/ DeleteAgain
           \/ SignalInDelete /\ UNCHANGED now
    PROVE  Closer
<1>0. attempt \in Nat /\ attempt <= DeleteAttempts
  BY StageFact DEF IInv, TypeOK
<1>1. CASE RejectDeleted
  BY <1>1, CandidateCloser DEF RejectDeleted, IInv, TypeOK
<1>2. CASE CleanupDeleted
  BY <1>2, EndCloser DEF CleanupDeleted, Return, Enter
<1>3. CASE DeleteAgain
  <2>1. pc \in {"rejectPause", "cleanupPause"} => attempt < DeleteAttempts
    BY DEF IInv, CountInv
  <2>2. Stage' < Stage
    BY <1>0, <1>3, <2>1, StageFact DEF DeleteAgain, StartDelete, Enter, Stage
  <2>. QED  BY <1>3, <2>2, StageCloser DEF DeleteAgain
<1>4. CASE RejectFails \/ CleanupFails \/ (SignalInDelete /\ UNCHANGED now)
  <2>1. UNCHANGED <<now, round, cand, attempt>> /\ pc \in {"reject", "cleanup"}
    BY <1>4 DEF RejectFails, CleanupFails, SignalInDelete
  <2>2. \/ pc = "reject" /\ pc' \in {"rejectPause", "finally"}
        \/ pc = "cleanup" /\ pc' \in {"cleanupPause", "returned"}
    <3>1. CASE RejectFails
      BY <3>1 DEF RejectFails, Raise, Enter
    <3>2. CASE CleanupFails
      BY <3>2 DEF CleanupFails, Return, Enter
    <3>3. CASE SignalInDelete /\ pc = "reject"
      BY <3>3 DEF SignalInDelete, Raise, Enter
    <3>4. CASE SignalInDelete /\ pc = "cleanup"
      BY <3>4 DEF SignalInDelete, Return, Enter
    <3>. QED  BY <1>4, <2>1, <3>1, <3>2, <3>3, <3>4
  <2>3. pc' \in {"rejectPause", "cleanupPause"} => Stage' < Stage
    BY <1>0, <2>1, <2>2, StageFact DEF Stage
  <2>. QED  BY <2>1, <2>2, <2>3, RaiseCloser, EndCloser, StageCloser
<1>. QED  BY <1>1, <1>2, <1>3, <1>4

LEMMA AdvanceStep == IInv /\ TimeInv /\ [Next]_vars => RunnerAdvances
<1>. SUFFICES ASSUME IInv, TimeInv, RunnerStep PROVE Closer
  BY DEF RunnerAdvances
<1>1. CASE JobStep
  <2>1. CASE \E p \in Pods, d \in DetailsSet : CreateSucceeds(p, d) \/ CreateLosesReply(p, d)
    BY <2>1, TryCloser
  <2>. QED  BY <1>1, <2>1, TryCloser, WorkCloser, DownloadCloser, DeleteCloser DEF JobStep
<1>2. CASE Signal
  <2>1. CASE SignalInTry
    BY <1>2, <2>1, RaiseCloser DEF Signal, SignalInTry, Raise, Enter
  <2>2. CASE SignalInFinally
    BY <1>2, <2>2, EndCloser DEF Signal, SignalInFinally, Enter
  <2>. QED  BY <1>2, <2>1, <2>2, DownloadCloser, DeleteCloser DEF Signal
<1>3. CASE RunnerLost
  BY <1>3, EndCloser DEF RunnerLost, Enter, Active
<1>. QED  BY <1>1, <1>2, <1>3 DEF RunnerStep

\* No step but the runner's own moves it.
LEMMA RunnerOnly == [Next]_vars => RunnerStep \/ UNCHANGED runner
BY DEF Next, RunnerStep, PodStep, StartWatchdog, StartSshd, ContainerExit, PlatformTerminate, WatchdogDeletes, WatchdogFails,
   Tick, Terminated, vars, runner

\* What RunEnds rests on besides the progress of time: the runner's own steps
\* are finitely many between two ticks of the clock, in number below a rank
\* that starts bounded, and while the runner is active the clock stays within
\* RunBound.  So no polling, no fallback, no retry of a deletion and no signal
\* keeps run_job going for ever.
THEOREM RunEndsTheorem ==
    Spec => /\ []RankInv
            /\ [][RunnerAdvances /\ (RunnerStep \/ UNCHANGED runner)]_vars
            /\ [](Active => now <= RunBound)
<1>1. ASSUME IInv PROVE RankInv
  BY <1>1, RankType
<1>2. ASSUME IInv, TimeInv, [Next]_vars
      PROVE  [RunnerAdvances /\ (RunnerStep \/ UNCHANGED runner)]_vars
  BY <1>2, AdvanceStep, RunnerOnly
<1>3. ASSUME IInv, RunBounded PROVE Active => now <= RunBound
  <2>1. now \in Nat /\ opEnd \in Nat /\ RunBound \in Int
    BY <1>3, TimeAssumption, WindowFact DEF IInv, TypeOK, RunBound
  <2>. QED  BY <1>3, <2>1 DEF RunBounded
<1>. QED  BY <1>1, <1>2, <1>3, AlwaysTimeInv, RunBoundedTheorem, PTL DEF Spec

-----------------------------------------------------------------------------
(* What the commands are told: the facts stored at the verification are    *)
(* those of the Pod that is still in use.                                  *)

ToldInv ==
    pc \in WorkPcs =>
        selected = Candidates[cand] /\ assignment = VerifiedBuildAssignment(details[podId])

\* A step within the work, or out of it.
LEMMA ToldKept ==
    ASSUME ToldInv, pc' \in WorkPcs => pc \in WorkPcs /\ UNCHANGED <<cand, lease, details>>
    PROVE  ToldInv'
BY DEF ToldInv

LEMMA JobStepTold ==
    ASSUME IInv, ToldInv, JobStep
    PROVE  ToldInv'
<1>1. CASE VerifyAccepts
  BY <1>1 DEF VerifyAccepts, ToldInv
<1>2. CASE MkdirDone \/ PutDone \/ UntarDone \/ CommandDone
  BY <1>2, ToldKept DEF MkdirDone, PutDone, UntarDone, CommandDone, RemoteSucceeds
<1>3. CASE CheckAuth \/ PauseEnds
  BY <1>3, StartCreateEffect, CallEffect, ToldKept, TimeAssumption DEF CheckAuth, PauseEnds, IInv
<1>4. CASE PollEndpoint \/ NotReady \/ ProbeReady
  BY <1>4, CallEffect, ToldKept, TimeAssumption DEF PollEndpoint, NotReady, ProbeReady, IInv
<1>5. CASE CreateNoCapacity \/ RejectDeleted
  <2>1. PICK only \in BOOLEAN : NextCandidate(only)
    BY <1>5 DEF CreateNoCapacity, RejectDeleted, IInv, TypeOK
  <2>. QED  BY <2>1, NextCandidateEffect, ToldKept DEF IInv
<1>6. CASE \E p \in Pods, d \in DetailsSet : CreateSucceeds(p, d) \/ CreateLosesReply(p, d)
  BY <1>6, CallEffect, ToldKept, TimeAssumption DEF CreateSucceeds, CreateLosesReply, Raise, Enter, IInv
<1>7. CASE OperationFails \/ VerifyRefuses \/ VerifyRejects \/ RejectFails
  BY <1>7, ToldKept DEF OperationFails, VerifyRefuses, VerifyRejects, RejectFails, StartDelete, Raise, Enter
<1>8. CASE \/ Finally \/ TarDone \/ GetDone \/ GetFails \/ RmDone
           \/ \E error \in {"missing", "JobError"} : TarFails(error)
  BY <1>8, ToldKept DEF Finally, TarDone, GetDone, GetFails, RmDone, TarFails, RemoteSucceeds,
     StartCleanup, StartDelete, StartRm, Return, Enter
<1>9. CASE CleanupDeleted \/ CleanupFails \/ DeleteAgain
  BY <1>9, ToldKept DEF CleanupDeleted, CleanupFails, DeleteAgain, StartDelete, Return, Enter
<1>. QED  BY <1>1, <1>2, <1>3, <1>4, <1>5, <1>6, <1>7, <1>8, <1>9 DEF JobStep

LEMMA ToldStep == IInv /\ ToldInv /\ [Next]_vars => ToldInv'
<1>. SUFFICES ASSUME IInv, ToldInv, [Next]_vars PROVE ToldInv'
  OBVIOUS
<1>1. CASE JobStep
  BY <1>1, JobStepTold
<1>2. CASE Signal
  BY <1>2, ToldKept DEF Signal, SignalInTry, SignalInDelete, SignalInDownload, SignalInFinally,
     StartCleanup, StartDelete, StartRm, Return, Raise, Enter
<1>3. CASE RunnerLost
  BY <1>3, ToldKept DEF RunnerLost, Enter
<1>4. CASE \E p \in Pods : PodStep(p)
  BY <1>4, ToldKept DEF PodStep, StartWatchdog, StartSshd, ContainerExit, PlatformTerminate, WatchdogDeletes, WatchdogFails, runner
<1>5. CASE Tick \/ Terminated \/ UNCHANGED vars
  BY <1>5, ToldKept DEF Tick, Terminated, vars, runner
<1>. QED  BY <1>1, <1>2, <1>3, <1>4, <1>5 DEF Next

\* Every command is told the GPU, the processors and the memory of the Pod it
\* runs on.
THEOREM EnvironmentTheorem == Spec => []EnvironmentMatchesPod
<1>1. Init => ToldInv
  BY DEF Init, ToldInv
<1>2. ASSUME IInv, ToldInv PROVE EnvironmentMatchesPod
  <2>. SUFFICES ASSUME pc = "command"
       PROVE  /\ IsGpu => details[endpoint].gpuTypeIds = {selected}
              /\ IsBuildJob =>
                   /\ assignment.vcpuCount * 1000 = details[endpoint].vcpuCount.milli
                   /\ assignment.assignedMemory = details[endpoint].memoryInGb.milli
    BY DEF EnvironmentMatchesPod
  <2>. DEFINE d == details[podId]
  <2>1. /\ endpoint = podId /\ podId \in Pods /\ d \in DetailsSet
        /\ VerifyPodAssignment(d, Candidates[cand]) = "verified"
    <3>1. podId # None /\ endpoint = podId /\ Verdict = "verified"
      BY <1>2 DEF IInv, AcceptedInv
    <3>2. podId \in Pods /\ d \in DetailsSet
      BY <1>2, <3>1 DEF IInv, TypeOK, PodInv
    <3>. QED  BY <3>1, <3>2 DEF Verdict
  <2>2. selected = Candidates[cand] /\ assignment = VerifiedBuildAssignment(d)
    BY <1>2 DEF ToldInv
  <2>3. IsGpu => d.gpuTypeIds = {selected}
    BY <2>1, <2>2, VerifiedIsTrustworthy DEF Trustworthy
  <2>4. ASSUME IsBuildJob
        PROVE  /\ assignment.vcpuCount * 1000 = d.vcpuCount.milli
               /\ assignment.assignedMemory = d.memoryInGb.milli
    <3>1. d.vcpuCount.milli \in Int
      BY <2>1, DetailsAssumption
    <3>2. d.vcpuCount.milli % 1000 = 0
      BY <2>1, <2>4 DEF VerifyPodAssignment, ResourcesMatch, IntegerAtLeast, IsGpu, IsBuildJob
    <3>3. assignment.vcpuCount = d.vcpuCount.milli \div 1000 /\ assignment.assignedMemory = d.memoryInGb.milli
      BY <2>2, <2>4 DEF VerifiedBuildAssignment
    <3>. QED  BY <3>1, <3>2, <3>3
  <2>. QED  BY <2>1, <2>3, <2>4
<1>. QED  BY <1>1, <1>2, InitIInv, NextInv, ToldStep, PTL DEF Spec

-----------------------------------------------------------------------------
(* What a result means.                                                    *)

ClosingPcs == {"finally", "returned"} \cup DownloadPcs \cup CleanupPcs

ResultInv ==
    /\ pc = "command" => uploaded
    /\ pc \in ClosingPcs /\ primary = None => uploaded /\ cmd = NCommands
    /\ orphans # {} => primary # None
    /\ pc = "rmtar" /\ artifact = None => retrieved
    /\ pc \in CleanupPcs \cup {"returned"} /\ primary = None /\ artifact = None /\ WantArtifacts =>
         retrieved \/ now >= HardTimeout - 1
    /\ pc = "returned" /\ podId # None /\ Live(podId) => cleanupError /\ attempt = DeleteAttempts

LEMMA CallResult ==
    ASSUME NEW p, NEW cap, NEW slack, Call(p, cap, slack)
    PROVE  pc' = p \/ (pc' = "finally" /\ primary' # None)
<1>1. "JobTimeout" # None
  BY ErrorsAssumption DEF Errors
<1>2. CASE SecondsLeft > 0
  BY <1>2 DEF Call, Enter
<1>3. CASE ~(SecondsLeft > 0)
  BY <1>1, <1>3 DEF Call, Raise, Enter
<1>. QED  BY <1>2, <1>3

LEMMA CreateResult ==
    ASSUME StartCreate
    PROVE  pc' = "create" \/ (pc' = "finally" /\ primary' # None)
BY CallResult, ErrorsAssumption DEF StartCreate, Raise, Enter, Errors

LEMMA CandidateResult ==
    ASSUME NEW only, NextCandidate(only)
    PROVE  pc' \in {"create", "backoff"} \/ (pc' = "finally" /\ primary' # None)
<1>1. CASE cand < Len(Candidates)
  BY <1>1, CreateResult DEF NextCandidate
<1>2. CASE ~(cand < Len(Candidates)) /\ only /\ round < PlacementRounds
  BY <1>2, CallResult DEF NextCandidate
<1>3. CASE ~(cand < Len(Candidates)) /\ ~(only /\ round < PlacementRounds)
  BY <1>3, ErrorsAssumption DEF NextCandidate, Raise, Enter, Errors
<1>. QED  BY <1>1, <1>2, <1>3

\* A step of the try body that does not complete the commands.
LEMMA TryResult ==
    ASSUME IInv, ResultInv, pc \in TryPcs,
           pc' \in TryPcs \/ (pc' = "finally" /\ primary' # None),
           pc' = "command" => uploaded',
           orphans' = orphans \/ primary' # None
    PROVE  ResultInv'
BY DEF IInv, KnownInv, ResultInv, ClosingPcs

LEMMA JobTryResult ==
    ASSUME IInv, ResultInv,
           \/ CheckAuth \/ OperationFails \/ CreateNoCapacity \/ PollEndpoint \/ NotReady
           \/ ProbeReady \/ VerifyAccepts \/ VerifyRejects \/ VerifyRefuses \/ PauseEnds
           \/ MkdirDone \/ PutDone \/ UntarDone \/ RejectDeleted \/ RejectFails
           \/ DeleteAgain /\ pc = "rejectPause"
           \/ \E p \in Pods, d \in DetailsSet : CreateSucceeds(p, d) \/ CreateLosesReply(p, d)
    PROVE  ResultInv'
<1>. USE ErrorsAssumption DEF Errors
<1>1. CASE CheckAuth \/ PauseEnds
  BY <1>1, CreateResult, CallResult, TryResult DEF CheckAuth, PauseEnds
<1>2. CASE PollEndpoint \/ NotReady \/ ProbeReady \/ VerifyAccepts
  BY <1>2, CallResult, TryResult DEF PollEndpoint, NotReady, ProbeReady, VerifyAccepts
<1>3. CASE MkdirDone \/ PutDone \/ UntarDone
  BY <1>3, CallResult, TryResult DEF MkdirDone, PutDone, UntarDone, RemoteSucceeds
<1>4. CASE CreateNoCapacity \/ RejectDeleted
  BY <1>4, CandidateResult, TryResult DEF CreateNoCapacity, RejectDeleted
<1>5. CASE \E p \in Pods, d \in DetailsSet : CreateSucceeds(p, d) \/ CreateLosesReply(p, d)
  BY <1>5, CallResult, TryResult DEF CreateSucceeds, CreateLosesReply, Raise, Enter
<1>6. CASE OperationFails \/ VerifyRefuses
  BY <1>6, TryResult DEF OperationFails, VerifyRefuses, FailingCalls, Raise, Enter
<1>7. CASE VerifyRejects \/ RejectFails \/ (DeleteAgain /\ pc = "rejectPause")
  <2>1. pc \in TryPcs /\ orphans' = orphans
    BY <1>7 DEF VerifyRejects, RejectFails, DeleteAgain
  <2>2. pc' \in RejectPcs \/ (pc' = "finally" /\ primary' = "JobError")
    <3>1. CASE VerifyRejects
      BY <3>1 DEF VerifyRejects, StartDelete, Enter
    <3>2. CASE RejectFails
      BY <3>2 DEF RejectFails, Raise, Enter
    <3>3. CASE DeleteAgain /\ pc = "rejectPause"
      BY <3>3 DEF DeleteAgain, StartDelete, Enter
    <3>. QED  BY <1>7, <3>1, <3>2, <3>3
  <2>3. "JobError" # None
    OBVIOUS
  <2>. QED  BY <2>1, <2>2, <2>3, TryResult
<1>. QED  BY <1>1, <1>2, <1>3, <1>4, <1>5, <1>6, <1>7

LEMMA CommandResult ==
    ASSUME IInv, ResultInv, CommandDone
    PROVE  ResultInv'
<1>1. pc = "command" /\ uploaded' = uploaded /\ uploaded /\ orphans' = orphans
  BY DEF CommandDone, RemoteSucceeds, ResultInv
<1>2. CASE cmd + 1 < NCommands
  BY <1>1, <1>2, CallResult, TryResult DEF CommandDone
<1>3. CASE ~(cmd + 1 < NCommands)
  <2>1. cmd' = NCommands
    BY <1>1, <1>3, CountAssumption DEF CommandDone, IInv, TypeOK, CountInv
  <2>2. pc' = "finally" /\ primary' = primary
    BY <1>3 DEF CommandDone, Enter
  <2>. QED  BY <1>1, <2>1, <2>2 DEF ResultInv, ClosingPcs
<1>. QED  BY <1>2, <1>3

\* The last step before the deletion, or before the return without one.
LEMMA CleanupResult ==
    ASSUME IInv, ResultInv, StartCleanup, pc \in {"finally", "rmtar"},
           pc = "finally" => ~WorthDownloading,
           UNCHANGED <<now, podVars, placement, lease, progress, primary, cleanupError>>
    PROVE  ResultInv'
<1>1. \/ pc' = "cleanup" /\ artifact' = artifact
      \/ pc' = "returned" /\ podId = None /\ (primary = None => artifact' = artifact)
  BY DEF StartCleanup, StartDelete, Return, Enter
<1>2. ASSUME primary = None, artifact = None, WantArtifacts
      PROVE  retrieved \/ now >= HardTimeout - 1
  <2>1. CASE pc = "rmtar"
    BY <1>2, <2>1 DEF ResultInv
  <2>2. CASE pc = "finally"
    <3>1. uploaded /\ endpoint # None
      BY <1>2, <2>2 DEF ResultInv, ClosingPcs, IInv, AcceptedInv
    <3>2. ~(SecondsLeft > 1)
      BY <1>2, <2>2, <3>1 DEF WorthDownloading
    <3>3. now \in Nat /\ HardTimeout \in Nat
      BY TimeAssumption DEF IInv, TypeOK
    <3>. QED  BY <3>2, <3>3 DEF SecondsLeft
  <2>. QED  BY <2>1, <2>2
<1>. QED  BY <1>1, <1>2 DEF ResultInv, ClosingPcs

LEMMA FinallyResult ==
    ASSUME IInv, ResultInv,
           \/ Finally \/ TarDone \/ GetDone \/ GetFails \/ RmDone
           \/ \E error \in {"missing", "JobError"} : TarFails(error)
           \/ SignalInDownload /\ UNCHANGED now
    PROVE  ResultInv'
<1>. USE ErrorsAssumption DEF Errors, ClosingPcs
<1>1. CASE Finally
  <2>1. CASE WorthDownloading
    BY <1>1, <2>1 DEF Finally, Enter, ResultInv
  <2>2. CASE ~WorthDownloading
    BY <1>1, <2>2, CleanupResult DEF Finally
  <2>. QED  BY <2>1, <2>2
<1>2. CASE TarDone
  BY <1>2 DEF TarDone, RemoteSucceeds, StartRm, Enter, ResultInv
<1>3. CASE GetDone \/ GetFails
  BY <1>3 DEF GetDone, GetFails, RemoteSucceeds, StartRm, Enter, ResultInv
<1>4. CASE RmDone
  BY <1>4, CleanupResult DEF RmDone
<1>5. CASE \E error \in {"missing", "JobError"} : TarFails(error)
  BY <1>5 DEF TarFails, StartDelete, Enter, ResultInv
<1>6. CASE SignalInDownload /\ UNCHANGED now
  <2>1. CASE pc = "rmtar"
    BY <1>6, <2>1, CleanupResult DEF SignalInDownload
  <2>2. CASE pc # "rmtar"
    BY <1>6, <2>2 DEF SignalInDownload, StartDelete, StartRm, Enter, ResultInv
  <2>. QED  BY <2>1, <2>2
<1>. QED  BY <1>1, <1>2, <1>3, <1>4, <1>5, <1>6

\* A deletion attempt of the finally block: the Pod is gone, or a failure is
\* reported after the last attempt.
LEMMA DeleteResult ==
    ASSUME IInv, ResultInv,
           \/ CleanupDeleted \/ CleanupFails \/ (DeleteAgain /\ pc = "cleanupPause")
           \/ SignalInDelete /\ UNCHANGED now /\ pc = "cleanup"
    PROVE  ResultInv'
<1>. USE DEF ClosingPcs
<1>1. CASE CleanupDeleted
  <2>1. podId \in Pods /\ podState \in [Pods -> PodStates]
    BY <1>1 DEF CleanupDeleted, IInv, TypeOK, PhaseInv, HoldingPcs
  <2>2. podState'[podId] = "gone"
    BY <1>1, <2>1 DEF CleanupDeleted, Deleted
  <2>. QED  BY <1>1, <2>2 DEF CleanupDeleted, Return, Enter, ResultInv
<1>2. CASE CleanupFails
  <2>1. attempt \in Nat /\ DeleteAttempts \in Nat /\ attempt <= DeleteAttempts
    BY CountAssumption DEF IInv, TypeOK
  <2>. QED  BY <1>2, <2>1 DEF CleanupFails, Return, Enter, ResultInv
<1>3. CASE DeleteAgain /\ pc = "cleanupPause"
  BY <1>3 DEF DeleteAgain, StartDelete, Enter, ResultInv
<1>4. CASE SignalInDelete /\ UNCHANGED now /\ pc = "cleanup"
  BY <1>4 DEF SignalInDelete, Return, Enter, ResultInv
<1>. QED  BY <1>1, <1>2, <1>3, <1>4

\* A step of the platform, the Pods or the clock.
LEMMA ResultKept ==
    ASSUME IInv, ResultInv, UNCHANGED <<runner, orphans>>, now' \in {now, now + 1},
           \A p \in Pods : podState'[p] \notin {"none", "gone"} => Live(p)
    PROVE  ResultInv'
<1>1. now \in Nat /\ HardTimeout \in Nat /\ podId \in Pods \cup {None}
  BY TimeAssumption DEF IInv, TypeOK
<1>2. now >= HardTimeout - 1 => now' >= HardTimeout - 1
  BY <1>1
<1>. QED  BY <1>1, <1>2 DEF ResultInv, ClosingPcs, runner

LEMMA ResultStep == IInv /\ ResultInv /\ [Next]_vars => ResultInv'
<1>. SUFFICES ASSUME IInv, ResultInv, [Next]_vars PROVE ResultInv'
  OBVIOUS
<1>1. CASE JobStep
  <2>1. DeleteAgain => pc \in {"rejectPause", "cleanupPause"}
    BY DEF DeleteAgain
  <2>2. CASE DeleteAgain
    BY <2>1, <2>2, JobTryResult, DeleteResult
  <2>3. CASE \E p \in Pods, d \in DetailsSet : CreateSucceeds(p, d) \/ CreateLosesReply(p, d)
    BY <2>3, JobTryResult
  <2>4. CASE \/ CheckAuth \/ OperationFails \/ CreateNoCapacity \/ PollEndpoint \/ NotReady
             \/ ProbeReady \/ VerifyAccepts \/ VerifyRejects \/ VerifyRefuses \/ PauseEnds
             \/ MkdirDone \/ PutDone \/ UntarDone \/ RejectDeleted \/ RejectFails
    BY <2>4, JobTryResult
  <2>. QED  BY <1>1, <2>2, <2>3, <2>4, CommandResult, FinallyResult, DeleteResult DEF JobStep
<1>2. CASE Signal
  <2>1. CASE SignalInTry
    BY <1>2, <2>1, TryResult, ErrorsAssumption DEF SignalInTry, Raise, Enter, Errors
  <2>2. CASE SignalInDelete /\ pc = "reject"
    <3>1. orphans' = orphans
      BY <2>2 DEF SignalInDelete
    <3>2. pc' = "rejectPause" \/ (pc' = "finally" /\ primary' = "JobError")
      <4>1. \/ Enter(IF pc = "reject" THEN "rejectPause" ELSE "cleanupPause", now + DeletePause)
            \/ Raise("JobError")
        BY <2>2 DEF SignalInDelete
      <4>. QED  BY <2>2, <4>1 DEF Raise, Enter
    <3>3. "JobError" # None
      BY ErrorsAssumption DEF Errors
    <3>. QED  BY <2>2, <3>1, <3>2, <3>3, TryResult
  <2>3. CASE SignalInDelete /\ pc = "cleanup"
    BY <1>2, <2>3, DeleteResult DEF Signal
  <2>4. CASE SignalInDownload
    BY <1>2, <2>4, FinallyResult DEF Signal
  <2>5. CASE SignalInFinally
    BY <2>5 DEF SignalInFinally, Enter, ResultInv, ClosingPcs
  <2>. QED  BY <1>2, <2>1, <2>2, <2>3, <2>4, <2>5 DEF Signal, SignalInDelete
<1>3. CASE RunnerLost
  BY <1>3 DEF RunnerLost, Enter, ResultInv, ClosingPcs
<1>4. CASE \E p \in Pods : PodStep(p)
  <2>. PICK p \in Pods : PodStep(p)
    BY <1>4
  <2>1. podState \in [Pods -> PodStates]
    BY DEF IInv, TypeOK
  <2>2. CASE StartWatchdog(p) \/ StartSshd(p) \/ ContainerExit(p) \/ WatchdogFails(p)
    BY <2>1, <2>2, ResultKept DEF StartWatchdog, StartSshd, ContainerExit, WatchdogFails
  <2>3. CASE PlatformTerminate(p) \/ WatchdogDeletes(p)
    BY <2>3, DeleteFrame, ResultKept DEF PlatformTerminate, WatchdogDeletes
  <2>. QED  BY <2>2, <2>3 DEF PodStep
<1>5. CASE Tick \/ Terminated \/ UNCHANGED vars
  BY <1>5, ResultKept DEF Tick, Terminated, vars
<1>. QED  BY <1>1, <1>2, <1>3, <1>4, <1>5 DEF Next

\* A Pod that may be left behind is reported after the last deletion attempt;
\* success means that the commands completed, no Pod is left and the
\* artifacts are here, unless the job was in its last second.
THEOREM HonestTheorem == Spec => []ReturnIsHonest
<1>1. Init => ResultInv
  BY DEF Init, ResultInv, ClosingPcs
<1>2. ASSUME IInv, ResultInv PROVE ReturnIsHonest
  <2>1. ASSUME Succeeded PROVE LivePods = {}
    <3>1. \A p \in Pods : Live(p) => p = podId
      BY <1>2, <2>1 DEF IInv, KnownInv, ResultInv, Succeeded
    <3>2. \A p \in Pods : ~Live(p)
      BY <1>2, <2>1, <3>1, PodsAssumption DEF ResultInv, Succeeded
    <3>. QED  BY <3>2 DEF LivePods
  <2>. QED  BY <1>2, <2>1 DEF ResultInv, ClosingPcs, Succeeded, ReturnIsHonest
<1>. QED  BY <1>1, <1>2, InitIInv, NextInv, ResultStep, PTL DEF Spec

-----------------------------------------------------------------------------
(* After the acceptance.                                                   *)

AfterAcceptance ==
    (selected # None \/ assignment # None) =>
        UNCHANGED <<lease, placement>> /\ LivePods' \subseteq LivePods

LEMMA AcceptanceStep == IInv /\ [Next]_vars => AfterAcceptance
<1>. SUFFICES ASSUME IInv, [Next]_vars, selected # None \/ assignment # None
     PROVE  UNCHANGED <<lease, placement>> /\ LivePods' \subseteq LivePods
  BY DEF AfterAcceptance
<1>. USE DEF LivePods
<1>1. pc \notin PlacingPcs \cup WaitingPcs \cup RejectPcs
  BY DEF IInv, PhaseInv
<1>2. CASE OperationFails \/ MkdirDone \/ PutDone \/ UntarDone \/ CommandDone
  BY <1>2 DEF OperationFails, MkdirDone, PutDone, UntarDone, CommandDone
<1>3. CASE \/ Finally \/ TarDone \/ GetDone \/ GetFails \/ RmDone
           \/ \E error \in {"missing", "JobError"} : TarFails(error)
  BY <1>3 DEF Finally, TarDone, GetDone, GetFails, RmDone, TarFails
<1>4. CASE CleanupDeleted \/ CleanupFails \/ (SignalInDelete /\ UNCHANGED now)
  <2>1. UNCHANGED <<lease, placement>> /\ (Deleted(podId) \/ UNCHANGED podState) /\ podId \in Pods
    BY <1>4 DEF CleanupDeleted, CleanupFails, SignalInDelete, DeleteEffectUnknown, IInv, TypeOK, PhaseInv,
       HoldingPcs
  <2>. QED  BY <2>1, DeleteFrame
<1>5. CASE DeleteAgain
  BY <1>5 DEF DeleteAgain
<1>6. CASE SignalInTry \/ SignalInDownload \/ SignalInFinally
  BY <1>1, <1>6 DEF SignalInTry, SignalInDownload, SignalInFinally
<1>7. CASE RunnerLost
  BY <1>7 DEF RunnerLost
<1>8. CASE \E p \in Pods : PodStep(p)
  <2>. PICK p \in Pods : PodStep(p)
    BY <1>8
  <2>1. podState \in [Pods -> PodStates] /\ UNCHANGED <<lease, placement>>
    BY DEF IInv, TypeOK, PodStep, StartWatchdog, StartSshd, ContainerExit, WatchdogFails, PlatformTerminate, WatchdogDeletes, runner
  <2>2. CASE StartWatchdog(p) \/ StartSshd(p) \/ ContainerExit(p) \/ WatchdogFails(p)
    BY <2>1, <2>2 DEF StartWatchdog, StartSshd, ContainerExit, WatchdogFails
  <2>3. CASE PlatformTerminate(p) \/ WatchdogDeletes(p)
    BY <2>1, <2>3, DeleteFrame DEF PlatformTerminate, WatchdogDeletes
  <2>. QED  BY <2>2, <2>3 DEF PodStep
<1>9. CASE Tick \/ Terminated \/ UNCHANGED vars
  BY <1>9 DEF Tick, Terminated, vars, runner
<1>10. ASSUME JobStep, ~OperationFails, ~MkdirDone, ~PutDone, ~UntarDone, ~CommandDone, ~Finally, ~TarDone,
              ~GetDone, ~GetFails, ~RmDone, ~\E error \in {"missing", "JobError"} : TarFails(error),
              ~CleanupDeleted, ~CleanupFails, ~DeleteAgain
       PROVE  FALSE
  BY <1>1, <1>10 DEF JobStep, CheckAuth, CreateSucceeds, CreateLosesReply, CreateNoCapacity, PollEndpoint,
     NotReady, ProbeReady, VerifyAccepts, VerifyRejects, VerifyRefuses, PauseEnds, RejectDeleted, RejectFails
<1>. QED  BY <1>2, <1>3, <1>4, <1>5, <1>6, <1>7, <1>8, <1>9, <1>10 DEF Next, Signal

\* Once an assignment is accepted, the run stays with its Pod: nothing is
\* created, and neither the Pod nor the exported facts change.
THEOREM NoFallbackTheorem == Spec => NoFallbackAfterAcceptance
<1>1. IInv /\ [Next]_vars =>
        [(selected # None \/ assignment # None) =>
            UNCHANGED <<lease, placement>> /\ LivePods' \subseteq LivePods]_vars
  BY AcceptanceStep DEF AfterAcceptance
<1>. QED  BY <1>1, AlwaysIInv, PTL DEF Spec, NoFallbackAfterAcceptance

=============================================================================
