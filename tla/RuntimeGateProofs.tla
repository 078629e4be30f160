------------------------- MODULE RuntimeGateProofs -------------------------
(***************************************************************************)
(* That the two judges of a runtime validation agree, for any set of       *)
(* implementations, causal modes, capabilities and images: what the run    *)
(* calls passed is what the release accepts, and both mean that every      *)
(* required case returned a correct tensor on the expected GPU.            *)
(*                                                                         *)
(* The inductive invariant relates each recorded verdict to the outcome it *)
(* was computed from (Judged), and the report to the verdicts (Reported).  *)
(* The last part shows that a run comes to its report (GateEndsTheorem).   *)
(***************************************************************************)
EXTENDS RuntimeGate, Functions, FunctionTheorems, FiniteSetTheorems, TLAPS

Typed ==
    /\ machine \in Machines
    /\ required \in SUBSET Implementations
    /\ pc \in {"setup", "references", "cases", "passed", "failed", "refused", "killed"}
    /\ results \subseteq Cases \X Verdicts

(* A case has one verdict, and only a required case has one.               *)
Once ==
    /\ \A r1, r2 \in results : r1[1] = r2[1] => r1 = r2
    /\ \A r \in results : r[1] \in RequiredCases

(* A verdict without errors comes from a correct call, and only from one.  *)
GoodVerdict(verdict) ==
    verdict.wrong = {} /\ verdict.cosine = "good" /\ verdict.l2 = "good"
Judged ==
    \A r \in results : r[2].errors = {} => r[1] \in correct /\ GoodVerdict(r[2])

TheReport ==
    [status |-> IF Passing THEN "pass" ELSE "fail",
     expected |-> Expected, actual |-> machine.capability,
     torch |-> machine.torch, image |-> machine.image, results |-> results]

Reported ==
    /\ pc \in {"setup", "references", "refused"} => results = {}
    /\ pc \in {"references", "cases", "passed", "failed"} => MachineAccepted
    /\ pc \notin {"passed", "failed"} => report = Absent
    /\ pc \in {"passed", "failed"} =>
          /\ report = TheReport
          /\ {r[1] : r \in results} = RequiredCases
          /\ pc = "passed" <=> Passing

Inv == Typed /\ Once /\ Judged /\ Reported

-----------------------------------------------------------------------------
(* What _evaluate_runtime_case makes of a call: a verdict, and a clean one *)
(* only of a correct call.                                                 *)
LEMMA EvaluatedCase ==
    ASSUME NEW outcome \in Outcomes
    PROVE  /\ EvaluateCase(outcome) \in Verdicts
           /\ EvaluateCase(outcome).errors = {} =>
                 Correct(outcome) /\ GoodVerdict(EvaluateCase(outcome))
<1> DEFINE tensors ==
        [returns : {"tensor"}, wrong : SUBSET {"device", "shape", "dtype"},
         finite : {"yes", "no", "raises"},
         cosine : {"good", "low", "nan", "raises"}, l2 : {"good", "high", "nan"}]
<1>1. outcome \in [returns : {"exception", "object"}] \/ outcome \in tensors
  BY DEF Outcomes
<1>2. CASE outcome.returns = "exception"
  <2>1. EvaluateCase(outcome) = Failed("execution")
    BY <1>2 DEF EvaluateCase
  <2>. QED  BY <2>1 DEF Failed, Verdicts, Stages
<1>3. CASE outcome.returns = "object"
  <2>1. EvaluateCase(outcome) = Failed("output")
    BY <1>3 DEF EvaluateCase
  <2>. QED  BY <2>1 DEF Failed, Verdicts, Stages
<1>4. CASE outcome.returns \notin {"exception", "object"}
  <2>1. outcome \in tensors
    BY <1>1, <1>4
  <2>2. /\ outcome.returns = "tensor" /\ outcome.wrong \subseteq {"device", "shape", "dtype"}
        /\ outcome.finite \in {"yes", "no", "raises"}
        /\ outcome.cosine \in {"good", "low", "nan", "raises"}
        /\ outcome.l2 \in {"good", "high", "nan"}
    BY <2>1
  <2> HIDE DEF tensors
  <2>3. EvaluateCase(outcome) =
            [errors |-> OutputErrors(outcome) \cup NumericErrors(outcome),
             wrong |-> outcome.wrong \ {"device"},
             cosine |-> Metric(outcome, outcome.cosine),
             l2 |-> Metric(outcome, outcome.l2)]
    BY <1>4 DEF EvaluateCase
  <2>4. Metric(outcome, outcome.cosine) \in {"good", "low", Absent}
    BY <2>2 DEF Metric, Measured
  <2>5. Metric(outcome, outcome.l2) \in {"good", "high", Absent}
    BY <2>2 DEF Metric
  <2>6. OutputErrors(outcome) \cup NumericErrors(outcome) \in SUBSET Stages
    BY DEF OutputErrors, NumericErrors, Stages
  <2>7. outcome.wrong \ {"device"} \in SUBSET {"shape", "dtype"}
    BY <2>2
  <2>8. EvaluateCase(outcome) \in Verdicts
    BY <2>3, <2>4, <2>5, <2>6, <2>7 DEF Verdicts
  <2>9. ASSUME OutputErrors(outcome) \cup NumericErrors(outcome) = {}
        PROVE  Correct(outcome) /\ Measured(outcome)
    <3>1. OutputErrors(outcome) = {} /\ NumericErrors(outcome) = {}
      BY <2>9
    <3>2. outcome.wrong = {} /\ outcome.finite = "yes"
      BY <3>1 DEF OutputErrors
    <3>3. outcome.cosine = "good" /\ outcome.l2 = "good"
      BY <3>1, <3>2 DEF NumericErrors
    <3>. QED  BY <2>2, <3>2, <3>3 DEF Correct, Measured
  <2>10. ASSUME OutputErrors(outcome) \cup NumericErrors(outcome) = {}
         PROVE  GoodVerdict(EvaluateCase(outcome))
    <3>1. outcome.wrong = {} /\ outcome.cosine = "good" /\ outcome.l2 = "good"
      BY <2>9, <2>10 DEF Correct
    <3>2. Metric(outcome, outcome.cosine) = "good" /\ Metric(outcome, outcome.l2) = "good"
      BY <3>1, <2>9, <2>10 DEF Metric
    <3>. QED  BY <2>3, <3>1, <3>2 DEF GoodVerdict
  <2>. QED  BY <2>3, <2>8, <2>9, <2>10
<1>. QED  BY <1>2, <1>3, <1>4

(* What Record adds to the results, for a verdict as EvaluatedCase bounds  *)
(* it: a passing case always has both metrics to print.                    *)
LEMMA RecordedCase ==
    ASSUME Inv, NEW case \in Cases, NEW verdict \in Verdicts, Record(case, verdict),
           machine' = machine, required' = required, report' = report,
           correct \subseteq correct',
           verdict.errors = {} => case \in correct' /\ GoodVerdict(verdict)
    PROVE  Inv'
<1> USE DEF Inv
<1>1. pc = "cases" /\ case \in Pending /\ results' = results \cup {<<case, verdict>>}
  BY DEF Record
<1>2. verdict.errors = {} => Absent \notin {verdict.cosine, verdict.l2}
  BY GateAssumption DEF GoodVerdict, GateAssumption
<1>3. pc' = "cases"
  BY <1>1, <1>2 DEF Record
<1>4. Typed'
  BY <1>1, <1>3 DEF Typed, Machines
<1>5. case \in RequiredCases /\ \A r \in results : r[1] # case
  BY <1>1 DEF Pending
<1>6. RequiredCases' = RequiredCases /\ <<case, verdict>>[1] = case /\ <<case, verdict>>[2] = verdict
  BY DEF RequiredCases
<1>7. Once'
  BY <1>1, <1>5, <1>6 DEF Once
<1>8. Judged'
  BY <1>1, <1>6 DEF Judged
<1>9. Reported'
  BY <1>1, <1>3 DEF Reported, MachineAccepted
<1>. QED  BY <1>4, <1>7, <1>8, <1>9

LEMMA InitInv == Init => Inv
BY DEF Init, Inv, Typed, Once, Judged, Reported

LEMMA NextInv == Inv /\ [Next]_vars => Inv'
<1> SUFFICES ASSUME Inv, [Next]_vars PROVE Inv'
  OBVIOUS
<1>1. CASE Setup
  BY <1>1 DEF Setup, Inv, Typed, Once, Judged, Reported, MachineAccepted, RequiredCases
<1>2. CASE WriteReport
  <2>1. /\ pc = "cases" /\ Pending = {}
        /\ UNCHANGED <<machine, required, reference, results, correct>>
    BY <1>2 DEF WriteReport
  <2>2. Writable
    <3> SUFFICES ASSUME NEW r \in results
                 PROVE  "nan" \notin {r[2].cosine, r[2].l2}
      BY DEF Writable
    <3>1. r[2] \in Verdicts
      BY DEF Inv, Typed
    <3>. QED  BY <3>1, GateAssumption DEF Verdicts, GateAssumption
  <2>3. report' = TheReport
    BY <1>2, <2>2 DEF WriteReport, TheReport
  <2>4. pc' = IF Passing THEN "passed" ELSE "failed"
    BY <1>2, <2>2 DEF WriteReport
  <2>5. {r[1] : r \in results} = RequiredCases
    BY <2>1 DEF Pending, Inv, Once
  <2>6. Passing' = Passing /\ TheReport' = TheReport /\ RequiredCases' = RequiredCases
    BY <2>1 DEF Passing, TheReport, RequiredCases
  <2>7. MachineAccepted'
    BY <2>1 DEF Inv, Reported, MachineAccepted
  <2>8. Typed' /\ Once' /\ Judged'
    BY <2>1, <2>4, <2>6 DEF Inv, Typed, Once, Judged
  <2>9. {r[1] : r \in results'} = RequiredCases'
    BY <2>1, <2>5, <2>6
  <2>10. Reported'
    BY <2>3, <2>4, <2>6, <2>7, <2>9 DEF Reported
  <2>. QED  BY <2>8, <2>10 DEF Inv
<1>3. CASE Kill
  BY <1>3 DEF Kill, Inv, Typed, Once, Judged, Reported
<1>4. ASSUME NEW causal \in CausalModes, Reference(causal) PROVE Inv'
  <2>1. /\ pc = "references" /\ pc' \in {"references", "cases"}
        /\ UNCHANGED <<machine, required, results, correct, report>>
    BY <1>4 DEF Reference
  <2>. QED
    BY <2>1 DEF Inv, Typed, Once, Judged, Reported, MachineAccepted, RequiredCases
<1>5. ASSUME NEW case \in Cases, RunCase(case) PROVE Inv'
  <2>1. PICK evaluation \in Evaluations :
            /\ Record(case, evaluation[1])
            /\ correct' = IF evaluation[2] THEN correct \cup {case} ELSE correct
    BY <1>5 DEF RunCase
  <2>2. PICK outcome \in Outcomes : evaluation = <<EvaluateCase(outcome), Correct(outcome)>>
    BY DEF Evaluations
  <2>3. Record(case, EvaluateCase(outcome))
    BY <2>1, <2>2
  <2>4. Correct(outcome) => correct' = correct \cup {case}
    BY <2>1, <2>2
  <2>5. correct \subseteq correct'
    BY <2>1
  <2>6. UNCHANGED <<machine, required, report>>
    BY <1>5 DEF RunCase
  <2>. QED  BY <2>3, <2>4, <2>5, <2>6, EvaluatedCase, RecordedCase
<1>6. ASSUME NEW case \in Cases, SkipCase(case) PROVE Inv'
  <2>1. Record(case, Failed("reference")) /\ UNCHANGED <<machine, required, correct, report>>
    BY <1>6 DEF SkipCase
  <2>2. Failed("reference") \in Verdicts /\ Failed("reference").errors # {}
    BY DEF Failed, Verdicts, Stages
  <2>. QED  BY <2>1, <2>2, RecordedCase
<1>7. CASE UNCHANGED vars
  <2>1. UNCHANGED <<machine, required, pc, results, correct, report>>
    BY <1>7 DEF vars
  <2>2. Passing' = Passing /\ TheReport' = TheReport /\ RequiredCases' = RequiredCases
        /\ MachineAccepted' = MachineAccepted
    BY <2>1 DEF Passing, TheReport, RequiredCases, MachineAccepted
  <2>. QED  BY <2>1, <2>2 DEF Inv, Typed, Once, Judged, Reported
<1>. QED  BY <1>1, <1>2, <1>3, <1>4, <1>5, <1>6, <1>7 DEF Next

LEMMA Invariance == Spec => []Inv
BY InitInv, NextInv, PTL DEF Spec

-----------------------------------------------------------------------------
(* One verdict per required case: the release's count of the results is    *)
(* the number of required cases.                                           *)
LEMMA CaseCount ==
    ASSUME Once, required \in SUBSET Implementations,
           {r[1] : r \in results} = RequiredCases
    PROVE  Cardinality(results) = Cardinality(RequiredCases)
<1> DEFINE first == [r \in results |-> r[1]]
<1>1. IsFiniteSet(required) /\ IsFiniteSet(CausalModes)
  BY FS_Subset, GateAssumption DEF GateAssumption
<1>2. IsFiniteSet(RequiredCases)
  BY <1>1, FS_Product DEF RequiredCases
<1>3. first \in [results -> RequiredCases]
  OBVIOUS
<1>4. \A a, b \in results : first[a] = first[b] => a = b
  BY DEF Once
<1>5. \A c \in RequiredCases : \E r \in results : first[r] = c
  OBVIOUS
<1>6. first \in Bijection(results, RequiredCases)
  BY <1>3, <1>4, <1>5 DEF Bijection, Injection, Surjection, IsInjective
<1>7. ExistsBijection(results, RequiredCases)
  BY <1>6 DEF ExistsBijection
<1>. QED  BY <1>2, <1>7, FS_Bijection, Fun_ExistsBijSymmetric

(* A case whose verdict has no error was called and returned a correct     *)
(* tensor.                                                                 *)
LEMMA InvJudges == Inv => JudgesAgree
<1> SUFFICES ASSUME Inv PROVE JudgesAgree
  OBVIOUS
<1>1. ASSUME pc = "passed", machine.image = Image PROVE ReleaseAccepts
  <2>1. report = TheReport /\ Passing /\ {r[1] : r \in results} = RequiredCases
    BY <1>1 DEF Inv, Reported
  <2>2. MachineAccepted
    BY <1>1 DEF Inv, Reported
  <2>3. /\ report.status = "pass" /\ report.torch = machine.torch
        /\ report.expected = Expected /\ report.actual = machine.capability
        /\ report.image = machine.image /\ report.results = results
    BY <2>1 DEF TheReport
  <2>4. Cardinality(results) = Cardinality(RequiredCases)
    BY <2>1, CaseCount DEF Inv, Typed
  <2>5. \A r \in results : r[2].errors = {} /\ GoodVerdict(r[2])
    BY <2>1 DEF Passing, Inv, Judged
  <2>6. report # Absent
    <3>1. report \in Reports
      <4>1. machine \in Machines /\ results \in SUBSET (Cases \X Verdicts)
        BY DEF Inv, Typed
      <4>2. machine.capability \in Capabilities /\ machine.torch \in BOOLEAN
            /\ machine.image \in Images \cup {Absent}
        BY <4>1 DEF Machines
      <4>3. Expected \in Capabilities
        BY GateAssumption DEF GateAssumption
      <4>. QED  BY <2>1, <4>1, <4>2, <4>3 DEF TheReport, Reports
    <3>. QED  BY <3>1, GateAssumption DEF GateAssumption
  <2>. QED
    BY <1>1, <2>1, <2>2, <2>3, <2>4, <2>5, <2>6 DEF ReleaseAccepts, MachineAccepted, GoodVerdict
<1>2. ASSUME ReleaseAccepts PROVE pc = "passed" /\ machine.image = Image /\ AcceptedIsMeasured
  <2>1. report # Absent /\ report.status = "pass" /\ report.image = Image
    BY <1>2 DEF ReleaseAccepts
  <2>2. pc \in {"passed", "failed"}
    BY <2>1 DEF Inv, Reported
  <2>3. report = TheReport /\ {r[1] : r \in results} = RequiredCases /\ (pc = "passed" <=> Passing)
    BY <2>2 DEF Inv, Reported
  <2>4. MachineAccepted
    BY <2>2 DEF Inv, Reported
  <2>5. Passing /\ report.image = machine.image
    BY <2>1, <2>3 DEF TheReport
  <2>6. RequiredCases \subseteq correct
    BY <2>3, <2>5 DEF Passing, Inv, Judged
  <2>. QED  BY <2>1, <2>3, <2>4, <2>5, <2>6 DEF AcceptedIsMeasured, MachineAccepted
<1>3. ReleaseAccepts \/ AcceptedIsMeasured
  BY DEF AcceptedIsMeasured
<1>. QED  BY <1>1, <1>2, <1>3 DEF JudgesAgree

(* A wheel's run and the release's reading of its report never disagree,   *)
(* and agree only on runs in which every required implementation was       *)
(* correct on the expected GPU.                                            *)
THEOREM JudgesTheorem == Spec => []JudgesAgree
BY Invariance, InvJudges, PTL

LEMMA InvDiagnosed == Inv => FailureIsDiagnosed
<1> SUFFICES ASSUME Inv, pc = "failed" PROVE FailureIsDiagnosed
  BY DEF FailureIsDiagnosed
<1>1. report = TheReport /\ ~Passing
  BY DEF Inv, Reported
<1>2. report.status = "fail" /\ report.results = results
  BY <1>1 DEF TheReport
<1>3. \E r \in results : r[2].errors # {}
  BY <1>1 DEF Passing
<1>4. report # Absent
  <2>1. machine \in Machines /\ results \in SUBSET (Cases \X Verdicts)
    BY DEF Inv, Typed
  <2>2. machine.capability \in Capabilities /\ machine.torch \in BOOLEAN
        /\ machine.image \in Images \cup {Absent}
    BY <2>1 DEF Machines
  <2>3. Expected \in Capabilities
    BY GateAssumption DEF GateAssumption
  <2>4. report \in Reports
    BY <1>1, <2>1, <2>2, <2>3 DEF TheReport, Reports
  <2>. QED  BY <2>4, GateAssumption DEF GateAssumption
<1>. QED  BY <1>2, <1>3, <1>4 DEF FailureIsDiagnosed

(* Whatever a kernel does, a run that fails past its setup leaves a report *)
(* of status fail that names a failed case.                                *)
THEOREM DiagnosedTheorem == Spec => []FailureIsDiagnosed
BY Invariance, InvDiagnosed, PTL

-----------------------------------------------------------------------------
(* What is known of the references, and of the calls that were correct.    *)
Referred ==
    /\ reference \in [CausalModes -> {"none", "ok", "failed"}]
    /\ pc \in {"cases", "passed", "failed"} => \A causal \in CausalModes : reference[causal] # "none"
    /\ correct \subseteq Cases

LEMMA InitReferred == Init => Referred
BY DEF Init, Referred

LEMMA NextReferred == Inv /\ Referred /\ [Next]_vars => Referred'
<1> SUFFICES ASSUME Inv, Referred, [Next]_vars PROVE Referred'
  OBVIOUS
<1>1. CASE Setup
  BY <1>1 DEF Setup, Referred
<1>2. CASE WriteReport
  <2>1. pc = "cases" /\ UNCHANGED <<reference, correct>>
    BY <1>2 DEF WriteReport
  <2>. QED  BY <2>1 DEF Referred
<1>3. CASE Kill
  BY <1>3 DEF Kill, Referred
<1>4. ASSUME NEW causal \in CausalModes, Reference(causal) PROVE Referred'
  <2>1. PICK result \in {"ok", "failed"} : reference' = [reference EXCEPT ![causal] = result]
    BY <1>4 DEF Reference
  <2>2. reference' \in [CausalModes -> {"none", "ok", "failed"}]
    BY <2>1 DEF Referred
  <2>3. /\ pc = "references"
        /\ pc' = IF \A other \in CausalModes : reference'[other] # "none" THEN "cases" ELSE pc
        /\ UNCHANGED correct
    BY <1>4 DEF Reference
  <2>. QED  BY <2>2, <2>3 DEF Referred
<1>5. ASSUME NEW case \in Cases, RunCase(case) \/ SkipCase(case) PROVE Referred'
  <2>1. pc = "cases" /\ UNCHANGED reference /\ correct' \subseteq correct \cup {case}
    BY <1>5 DEF RunCase, SkipCase, Record
  <2>. QED  BY <1>5, <2>1 DEF Referred
<1>6. CASE UNCHANGED vars
  BY <1>6 DEF vars, Referred
<1>. QED  BY <1>1, <1>2, <1>3, <1>4, <1>5, <1>6 DEF Next

LEMMA AlwaysReferred == Spec => []Referred
BY InitReferred, NextReferred, Invariance, PTL DEF Spec

LEMMA InvTypeOK == Inv /\ Referred => TypeOK
<1> SUFFICES ASSUME Inv, Referred, report # Absent
             PROVE  report.status \in {"pass", "fail"} /\ report.results = results
  BY DEF TypeOK, Inv, Typed, Referred
<1>1. report = TheReport
  BY DEF Inv, Reported
<1>. QED  BY <1>1 DEF TheReport

(* The state of a runtime validation and the report it leaves have the     *)
(* types the module states, whatever the kernels return.                   *)
THEOREM TypeCorrect == Spec => []TypeOK
BY Invariance, AlwaysReferred, InvTypeOK, PTL

-----------------------------------------------------------------------------
(* That a run comes to its verdict by itself: no step goes back, and one   *)
(* that stays where it is leaves fewer references to compute, or fewer     *)
(* cases to call.                                                          *)
Stage == CASE pc = "setup" -> 0
           [] pc = "references" -> 1
           [] pc = "cases" -> 2
           [] OTHER -> 3

Unknown == {causal \in CausalModes : reference[causal] = "none"}
Finished == pc \in {"passed", "failed", "refused", "killed"}

Closer ==
    /\ ~Finished
    /\ \/ Stage' > Stage
       \/ Stage' = Stage /\ pc = "references" /\ Unknown' \in (SUBSET Unknown) \ {Unknown}
       \/ Stage' = Stage /\ pc = "cases" /\ Pending' \in (SUBSET Pending) \ {Pending}

(* A case always has a reference, good or failed, to be judged by: a case  *)
(* that is pending can be run or skipped, and one that is not is recorded. *)
Answerable == pc = "cases" =>
    \A case \in Pending : reference[case[2]] \in {"ok", "failed"}

LEMMA RecordCloser ==
    ASSUME Inv, NEW case \in Cases, NEW verdict \in Verdicts, Record(case, verdict),
           required' = required
    PROVE  Closer
<1>1. pc = "cases" /\ case \in Pending /\ results' = results \cup {<<case, verdict>>}
      /\ pc' \in {"cases", "failed"}
  BY DEF Record
<1>2. <<case, verdict>>[1] = case /\ <<case, verdict>> \in results'
  BY <1>1
<1>3. Pending' \subseteq Pending /\ case \notin Pending'
  BY <1>1, <1>2 DEF Pending, RequiredCases
<1>4. Pending' \in (SUBSET Pending) \ {Pending}
  BY <1>1, <1>3
<1>5. Stage = 2 /\ ~Finished
  BY <1>1 DEF Stage, Finished
<1>6. Stage' = 2 \/ Stage' = 3
  BY <1>1 DEF Stage
<1>. QED  BY <1>1, <1>4, <1>5, <1>6 DEF Closer

LEMMA StepCloser == Inv /\ Referred /\ [Next]_vars => [Closer]_vars
<1> SUFFICES ASSUME Inv, Referred, Next PROVE Closer
  OBVIOUS
<1>1. CASE Setup
  BY <1>1 DEF Setup, Closer, Finished, Stage
<1>2. CASE WriteReport
  BY <1>2 DEF WriteReport, Closer, Finished, Stage
<1>3. CASE Kill
  BY <1>3 DEF Kill, Closer, Finished, Stage
<1>4. ASSUME NEW causal \in CausalModes, Reference(causal) PROVE Closer
  <2>1. PICK result \in {"ok", "failed"} : reference' = [reference EXCEPT ![causal] = result]
    BY <1>4 DEF Reference
  <2>2. pc = "references" /\ reference[causal] = "none" /\ pc' \in {"references", "cases"}
    BY <1>4 DEF Reference
  <2>3. causal \in Unknown /\ causal \notin Unknown' /\ Unknown' \subseteq Unknown
    BY <2>1, <2>2 DEF Unknown, Referred
  <2>4. Unknown' \in (SUBSET Unknown) \ {Unknown}
    BY <2>3
  <2>5. Stage = 1 /\ ~Finished
    BY <2>2 DEF Stage, Finished
  <2>6. Stage' = 1 \/ Stage' = 2
    BY <2>2 DEF Stage
  <2>. QED  BY <2>2, <2>4, <2>5, <2>6 DEF Closer
<1>5. ASSUME NEW case \in Cases, RunCase(case) PROVE Closer
  <2>1. PICK evaluation \in Evaluations : Record(case, evaluation[1])
    BY <1>5 DEF RunCase
  <2>2. PICK outcome \in Outcomes : evaluation = <<EvaluateCase(outcome), Correct(outcome)>>
    BY DEF Evaluations
  <2>3. Record(case, EvaluateCase(outcome)) /\ required' = required
    BY <1>5, <2>1, <2>2 DEF RunCase
  <2>. QED  BY <2>3, EvaluatedCase, RecordCloser
<1>6. ASSUME NEW case \in Cases, SkipCase(case) PROVE Closer
  <2>1. Record(case, Failed("reference")) /\ required' = required
    BY <1>6 DEF SkipCase
  <2>2. Failed("reference") \in Verdicts
    BY DEF Failed, Verdicts, Stages
  <2>. QED  BY <2>1, <2>2, RecordCloser
<1>. QED  BY <1>1, <1>2, <1>3, <1>4, <1>5, <1>6 DEF Next

LEMMA InvAnswerable == Inv /\ Referred => Answerable
<1> SUFFICES ASSUME Inv, Referred, pc = "cases", NEW case \in Pending
             PROVE  reference[case[2]] \in {"ok", "failed"}
  BY DEF Answerable
<1>1. case[2] \in CausalModes
  BY DEF Pending, RequiredCases
<1>. QED  BY <1>1 DEF Referred

(* The run of validate-wheel.py --runtime cannot loop or wait for a result *)
(* that never comes: each of its steps leaves it closer to the report, and *)
(* until the last case is recorded there is a case it can record.          *)
THEOREM GateEndsTheorem == Spec => [](Answerable /\ IsFiniteSet(Pending)) /\ [][Closer]_vars
<1>1. Inv => IsFiniteSet(Pending)
  <2> SUFFICES ASSUME Inv PROVE IsFiniteSet(Pending)
    OBVIOUS
  <2>1. IsFiniteSet(required) /\ IsFiniteSet(CausalModes)
    BY FS_Subset, GateAssumption DEF GateAssumption, Inv, Typed
  <2>2. IsFiniteSet(RequiredCases)
    BY <2>1, FS_Product DEF RequiredCases
  <2>. QED  BY <2>2, FS_Subset DEF Pending
<1>. QED  BY <1>1, Invariance, AlwaysReferred, InvAnswerable, StepCloser, PTL DEF Spec

=============================================================================
