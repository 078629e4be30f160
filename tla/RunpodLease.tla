---------------------------- MODULE RunpodLease ----------------------------
(***************************************************************************)
(* RunpodJob implements PodLease.                                           *)
(***************************************************************************)
EXTENDS RunpodJob

GonePods == {p \in Pods : podState[p] = "gone"}

AcceptedPod == IF selected # None \/ assignment # None THEN podId ELSE None

Lease == INSTANCE PodLease WITH
    leased   <- LivePods,
    released <- GonePods,
    accepted <- AcceptedPod,
    closed   <- pc \notin TryPcs

\* Every step of run_job, of a signal, of a lost runner and of the platform is
\* a step of the lease: a Pod is created only while none exists and none was
\* accepted, in particular never beside a rejected Pod that is not deleted.
ImplementsLease == Lease!Spec
=============================================================================
