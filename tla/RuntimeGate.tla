---------------------------- MODULE RuntimeGate ----------------------------
(***************************************************************************)
(* scripts/validate-wheel.py --runtime on a representative GPU, and what   *)
(* the release workflow makes of its report.  The run checks the machine,  *)
(* computes a reference for each causal mode, calls every implementation   *)
(* required of the GPU's capability, and writes one report at the end,     *)
(* pass or fail; the Pod's timeout may kill it at any moment.  The release *)
(* decides, on another machine, from the report alone.                     *)
(*                                                                         *)
(* Cases are taken in any order: no result depends on another.             *)
(***************************************************************************)
EXTENDS Naturals, FiniteSets

CONSTANTS Capabilities, Implementations, CausalModes, Images,
          Expected, Image,   \* the job's capability and runtime image
          Absent

Cases == Implementations \X CausalModes

(* What a call may come to: which of its properties a tensor has wrong,    *)
(* whether it is finite, and its distance from the reference.              *)
Outcomes ==
    [returns : {"exception", "object"}]
      \cup [returns : {"tensor"}, wrong : SUBSET {"device", "shape", "dtype"},
            finite : {"yes", "no", "raises"},
            cosine : {"good", "low", "nan", "raises"}, l2 : {"good", "high", "nan"}]

Correct(outcome) ==
    /\ outcome.returns = "tensor" /\ outcome.wrong = {} /\ outcome.finite = "yes"
    /\ outcome.cosine = "good" /\ outcome.l2 = "good"

VARIABLES machine,    \* what the job really runs on
          required,   \* the implementations the matrix requires of Expected
          pc,
          reference,  \* [CausalModes -> "none" | "ok" | "failed"]
          results,    \* <<case, verdict>> of the cases so far
          correct,    \* the cases whose call was correct
          report

vars == <<machine, required, pc, reference, results, correct, report>>

Machines == [capability : Capabilities, torch : BOOLEAN, wheel : BOOLEAN,
             image : Images \cup {Absent}]
Stages == {"reference", "execution", "output", "numeric"}
Verdicts == [errors : SUBSET Stages, wrong : SUBSET {"shape", "dtype"},
             cosine : {"good", "low", Absent}, l2 : {"good", "high", Absent}]

RequiredCases == required \X CausalModes
Reports == [status : {"pass", "fail"}, expected : Capabilities, actual : Capabilities,
            torch : BOOLEAN, image : Images \cup {Absent},
            results : SUBSET (Cases \X Verdicts)]

ASSUME GateAssumption ==
    /\ Expected \in Capabilities /\ Image \in Images
    /\ IsFiniteSet(Implementations) /\ IsFiniteSet(CausalModes)
    /\ Absent \notin {"good", "low", "high", "nan"} \cup Images \cup Reports

Init ==
    /\ machine \in Machines
    /\ required \in (SUBSET Implementations) \ {{}}
    /\ pc = "setup"
    /\ reference = [causal \in CausalModes |-> "none"]
    /\ results = {} /\ correct = {} /\ report = Absent

-----------------------------------------------------------------------------
(* _evaluate_runtime_case.                                                 *)

Measured(outcome) ==
    /\ outcome.wrong \cap {"device", "shape"} = {} /\ outcome.finite = "yes"
    /\ outcome.cosine # "raises"

(* A metric that is not finite is reported as an error, not as a number:   *)
(* JSON has none for it.                                                   *)
Metric(outcome, value) ==
    IF Measured(outcome) /\ value # "nan" THEN value ELSE Absent

\* Mutant of NumericErrors: thresholds alone are tested, and no comparison
\* with a NaN is true.
ThresholdErrors(outcome) ==
    IF \/ outcome.wrong \cap {"device", "shape"} # {} \/ outcome.finite # "yes"
       \/ outcome.cosine \in {"good", "nan"} /\ outcome.l2 \in {"good", "nan"}
    THEN {} ELSE {"numeric"}
NumericErrors(outcome) ==
    IF \/ outcome.wrong \cap {"device", "shape"} # {} \/ outcome.finite # "yes"
       \/ outcome.cosine = "good" /\ outcome.l2 = "good"
    THEN {} ELSE {"numeric"}

\* Mutant of OutputErrors: the dtype is reported, not required.
OutputErrorsButDtype(outcome) ==
    IF outcome.wrong \cap {"device", "shape"} # {} \/ outcome.finite # "yes"
    THEN {"output"} ELSE {}
OutputErrors(outcome) ==
    IF outcome.wrong # {} \/ outcome.finite # "yes" THEN {"output"} ELSE {}

Failed(stage) == [errors |-> {stage}, wrong |-> {}, cosine |-> Absent, l2 |-> Absent]

EvaluateCase(outcome) ==
    CASE outcome.returns = "exception" -> Failed("execution")
      [] outcome.returns = "object" -> Failed("output")
      [] OTHER -> [errors |-> OutputErrors(outcome) \cup NumericErrors(outcome),
                   wrong |-> outcome.wrong \ {"device"},
                   cosine |-> Metric(outcome, outcome.cosine),
                   l2 |-> Metric(outcome, outcome.l2)]

Evaluations == {<<EvaluateCase(outcome), Correct(outcome)>> : outcome \in Outcomes}

-----------------------------------------------------------------------------
(* run_runtime_validation.                                                 *)

MachineAccepted ==
    /\ machine.torch /\ machine.wheel
    /\ machine.capability = Expected /\ machine.image # Absent

Setup ==
    /\ pc = "setup"
    /\ pc' = IF MachineAccepted THEN "references" ELSE "refused"
    /\ UNCHANGED <<machine, required, reference, results, correct, report>>

(* A reference that fails is remembered, and its cases fail with it.       *)
Reference(causal) ==
    /\ pc = "references" /\ reference[causal] = "none"
    /\ \E result \in {"ok", "failed"} :
          reference' = [reference EXCEPT ![causal] = result]
    /\ pc' = IF \A other \in CausalModes : reference'[other] # "none" THEN "cases" ELSE pc
    /\ UNCHANGED <<machine, required, results, correct, report>>

Pending == RequiredCases \ {result[1] : result \in results}

(* The progress line of a passing case prints both metrics.                *)
Record(case, verdict) ==
    /\ pc = "cases" /\ case \in Pending
    /\ results' = results \cup {<<case, verdict>>}
    /\ pc' = IF verdict.errors = {} /\ Absent \in {verdict.cosine, verdict.l2}
             THEN "failed" ELSE pc

RunCase(case) ==
    /\ reference[case[2]] = "ok"
    /\ \E evaluation \in Evaluations :
          /\ Record(case, evaluation[1])
          /\ correct' = IF evaluation[2] THEN correct \cup {case} ELSE correct
    /\ UNCHANGED <<machine, required, reference, report>>

SkipCase(case) ==
    /\ reference[case[2]] = "failed"
    /\ Record(case, Failed("reference"))
    /\ UNCHANGED <<machine, required, reference, correct, report>>

Passing == \A result \in results : result[2].errors = {}
Writable == \A result \in results : "nan" \notin {result[2].cosine, result[2].l2}

(* The report replaces its name at once (_write_json_atomic), then decides *)
(* the exit status.                                                        *)
WriteReport ==
    /\ pc = "cases" /\ Pending = {}
    /\ report' = IF Writable
                 THEN [status |-> IF Passing THEN "pass" ELSE "fail",
                       expected |-> Expected, actual |-> machine.capability,
                       torch |-> machine.torch, image |-> machine.image,
                       results |-> results]
                 ELSE report
    /\ pc' = IF Writable /\ Passing THEN "passed" ELSE "failed"
    /\ UNCHANGED <<machine, required, reference, results, correct>>

(* The results so far are in the memory of the process.                    *)
Kill ==
    /\ pc \in {"setup", "references", "cases"}
    /\ pc' = "killed"
    /\ results' = {} /\ correct' = {}
    /\ UNCHANGED <<machine, required, reference, report>>

Next ==
    \/ Setup \/ WriteReport \/ Kill
    \/ \E causal \in CausalModes : Reference(causal)
    \/ \E case \in Cases : RunCase(case) \/ SkipCase(case)

Spec == Init /\ [][Next]_vars

-----------------------------------------------------------------------------
(* validate_runtime_report of the release workflow.                        *)
ReleaseAccepts ==
    /\ report # Absent
    /\ report.status = "pass" /\ report.torch
    /\ report.expected = Expected /\ report.actual = Expected
    /\ report.image = Image
    /\ Cardinality(report.results) = Cardinality(RequiredCases)
    /\ {result[1] : result \in report.results} = RequiredCases
    /\ \A result \in report.results :
          /\ result[2].errors = {} /\ result[2].wrong = {}
          /\ result[2].cosine = "good" /\ result[2].l2 = "good"

TypeOK ==
    /\ machine \in Machines /\ required \subseteq Implementations
    /\ pc \in {"setup", "references", "cases", "passed", "failed", "refused", "killed"}
    /\ reference \in [CausalModes -> {"none", "ok", "failed"}]
    /\ results \subseteq Cases \X Verdicts /\ correct \subseteq Cases
    /\ report # Absent => report.status \in {"pass", "fail"} /\ report.results = results

(* The release accepts a report only if the wheel under release ran on the *)
(* capability it is released for, and every implementation required there  *)
(* returned, in both modes, a correct tensor on the GPU (exactly the       *)
(* outcomes validate-wheel.py must tell from all others).                  *)
AcceptedIsMeasured ==
    ReleaseAccepts =>
        /\ machine.wheel /\ machine.torch /\ machine.capability = Expected
        /\ RequiredCases \subseteq correct

(* Two programs judge one run and agree: a run that passed in its image is *)
(* accepted by the release, and nothing but such a run is; and what they   *)
(* agree on is so.                                                         *)
JudgesAgree ==
    /\ (pc = "passed" /\ machine.image = Image) <=> ReleaseAccepts
    /\ AcceptedIsMeasured

(* A run that got past its setup and failed leaves a report naming a       *)
(* failure: an exception in a kernel or a metric that is not a number is   *)
(* an entry of it, not the end of it.                                      *)
FailureIsDiagnosed ==
    pc = "failed" =>
        /\ report # Absent /\ report.status = "fail"
        /\ \E result \in report.results : result[2].errors # {}

=============================================================================
