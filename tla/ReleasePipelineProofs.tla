----------------------- MODULE ReleasePipelineProofs -----------------------
(***************************************************************************)
(* ReleasePipeline, for any commits, asset names and numbers of attempts   *)
(* and edits: a public release is one payload; and, where the tag does not *)
(* move between its last check and the publication, that payload was built *)
(* from the commit the tag names.                                          *)
(***************************************************************************)
EXTENDS ReleasePipeline, TLAPS

Steps == {"preflight", "factory", "check tag", "create", "assert empty",
          "upload", "publish", "verify public", "failed", "done"}
Assets == [name : AssetNames \cup {"notes"}, from : Payloads \cup {Foreign}]
Releases == [exists : BOOLEAN, draft : BOOLEAN, assets : SUBSET Assets,
             at : Commits \cup {None}]
AfterCheck == {"create", "assert empty", "upload", "publish"}

(* The types, with a release as a record.                                  *)
Typed ==
    /\ tag \in Commits /\ attempt \in 1 .. MaxAttempts /\ edits \in 0 .. MaxEdits
    /\ step \in Steps
    /\ source \in Commits \cup {None} /\ payload \in Payloads \cup {Foreign}
    /\ uploaded \subseteq AssetNames
    /\ release \in Releases

(* What the workflow publishes it has built, and compared with the draft;  *)
(* while it fills a release and compares it, nobody publishes that.        *)
Building ==
    /\ step \notin {"preflight", "failed", "done"} => source \in Commits
    /\ step \in {"check tag"} \cup AfterCheck => payload.commit = source
    /\ step \in {"upload", "publish"} => ~Published
    /\ step = "publish" => /\ release.exists /\ release.assets = Staged
                           /\ uploaded = AssetNames

IInv == Typed /\ Building /\ PublishedIsOnePayload

(* What holds besides if the tag stays where it was checked.               *)
TagInv ==
    /\ step \in AfterCheck => tag = source
    /\ PublishedFromItsTag

-----------------------------------------------------------------------------
(* What is staged is every asset of the one payload.                       *)
LEMMA StagedIsOnePayload == Staged = [name : AssetNames, from : {payload}]
<1>1. \A asset \in Staged : asset \in [name : AssetNames, from : {payload}]
  BY DEF Staged, Ours
<1>2. \A asset \in [name : AssetNames, from : {payload}] : asset \in Staged
  <2> SUFFICES ASSUME NEW asset \in [name : AssetNames, from : {payload}]
               PROVE  asset \in Staged
    OBVIOUS
  <2>1. asset = [name |-> asset.name, from |-> payload] /\ asset.name \in AssetNames
    OBVIOUS
  <2>2. QED
    BY <2>1 DEF Staged, Ours
<1>3. QED
  BY <1>1, <1>2

(* A payload that matches a resolved commit is one of the factory's.       *)
LEMMA ResolvedPayload ==
  ASSUME Typed, source \in Commits, payload.commit = source
  PROVE  payload \in Payloads
  BY PipelineAssumption DEF Typed, Foreign

LEMMA InitIInv == Init => IInv
<1> SUFFICES ASSUME Init PROVE IInv
  OBVIOUS
<1> USE PipelineAssumption DEF Init
<1>1. Typed
  BY DEF Typed, Releases, Steps, NoRelease, Assets, Payloads, Foreign
<1>2. Building
  BY DEF Building, AfterCheck, Published, NoRelease
<1>3. PublishedIsOnePayload
  BY DEF PublishedIsOnePayload, Published, NoRelease
<1>4. QED
  BY <1>1, <1>2, <1>3 DEF IInv

(* A step that leaves the release alone, or edits a draft, publishes none. *)
LEMMA KeptPublic ==
  ASSUME PublishedIsOnePayload, UNCHANGED release
  PROVE  PublishedIsOnePayload'
  BY DEF PublishedIsOnePayload, Published, Payloads

(* The steps of the three jobs.                                            *)
LEMMA StepPreflight == IInv /\ Preflight => IInv'
<1> SUFFICES ASSUME IInv, Preflight PROVE IInv'
  OBVIOUS
<1> USE PipelineAssumption DEF IInv, Preflight, Goto
<1>1. Typed'
  BY DEF Typed, Steps
<1>2. Building'
  BY DEF Typed, Building, AfterCheck, Published
<1>3. QED
  BY <1>1, <1>2, KeptPublic

LEMMA StepFactory == IInv /\ Factory => IInv'
<1> SUFFICES ASSUME IInv, Factory PROVE IInv'
  OBVIOUS
<1> USE PipelineAssumption DEF IInv, Factory, Goto
<1>1. CASE step' = "failed" /\ UNCHANGED payload
  <2>1. Typed'
    BY <1>1 DEF Typed, Steps
  <2>2. Building'
    BY <1>1 DEF Building, AfterCheck
  <2>3. QED
    BY <1>1, <2>1, <2>2, KeptPublic
<1>2. CASE /\ step = "factory" /\ step' = "check tag"
           /\ payload' = [commit |-> source, attempt |-> attempt]
  <2>1. source \in Commits
    BY <1>2 DEF Building
  <2>2. payload' \in Payloads /\ payload'.commit = source
    BY <1>2, <2>1 DEF Typed, Payloads
  <2>3. Typed'
    BY <1>2, <2>2 DEF Typed, Steps
  <2>4. Building'
    BY <1>2, <2>1, <2>2 DEF Building, AfterCheck
  <2>5. QED
    BY <1>2, <2>3, <2>4, KeptPublic
<1>3. QED
  BY <1>1, <1>2

LEMMA StepCheckTag == IInv /\ CheckTag => IInv'
<1> SUFFICES ASSUME IInv, CheckTag PROVE IInv'
  OBVIOUS
<1> USE PipelineAssumption DEF IInv, CheckTag, Goto
<1>1. Typed'
  BY DEF Typed, Steps
<1>2. Building'
  BY DEF Typed, Building, AfterCheck, Published
<1>3. QED
  BY <1>1, <1>2, KeptPublic

LEMMA StepCreate == IInv /\ Create => IInv'
<1> SUFFICES ASSUME IInv, Create PROVE IInv'
  OBVIOUS
<1> USE PipelineAssumption DEF IInv, Create, Goto
<1>1. Draft \in Releases
  BY DEF Draft, Releases
<1>2. Typed'
  BY <1>1 DEF Typed, Steps
<1>3. Building'
  BY DEF Typed, Building, AfterCheck, Published
<1>4. PublishedIsOnePayload'
  <2>1. CASE release.exists
    BY <2>1, KeptPublic
  <2>2. CASE ~release.exists
    BY <2>2 DEF PublishedIsOnePayload, Published, Draft
  <2>3. QED
    BY <2>1, <2>2
<1>5. QED
  BY <1>2, <1>3, <1>4

LEMMA StepAssertEmptyDraft == IInv /\ AssertEmptyDraft => IInv'
<1> SUFFICES ASSUME IInv, AssertEmptyDraft PROVE IInv'
  OBVIOUS
<1> USE PipelineAssumption DEF IInv, AssertEmptyDraft, Goto
<1>1. Typed'
  BY DEF Typed, Steps
<1>2. step' = "failed" \/ (step' = "upload" /\ release = Draft)
  OBVIOUS
<1>3. release = Draft => ~Published
  <2>1. Draft.draft
    BY DEF Draft
  <2>2. QED
    BY <2>1 DEF Published
<1>4. Building'
  <2>1. CASE step' = "failed"
    BY <2>1 DEF Building, AfterCheck
  <2>2. CASE step' = "upload" /\ release = Draft
    BY <2>2, <1>3 DEF Building, AfterCheck, Published
  <2>3. QED
    BY <1>2, <2>1, <2>2
<1>5. QED
  BY <1>1, <1>4, KeptPublic

LEMMA StepUpload ==
  ASSUME NEW name \in AssetNames
  PROVE  IInv /\ Upload(name) => IInv'
<1> SUFFICES ASSUME IInv, Upload(name) PROVE IInv'
  OBVIOUS
<1> USE PipelineAssumption DEF IInv, Upload, Goto
<1>1. CASE step' = "failed" /\ UNCHANGED <<release, uploaded>>
  <2>1. Typed'
    BY <1>1 DEF Typed, Steps
  <2>2. Building'
    BY <1>1 DEF Typed, Building, AfterCheck, Published
  <2>3. QED
    BY <1>1, <2>1, <2>2, KeptPublic
<1>2. CASE /\ step = "upload" /\ step' = "upload"
           /\ release' = [release EXCEPT !.assets = @ \cup {Ours(name)}]
           /\ uploaded' = uploaded \cup {name}
  <2>1. Ours(name) \in Assets
    BY DEF Typed, Ours, Assets
  <2>2. /\ release' \in Releases
        /\ release'.exists = release.exists /\ release'.draft = release.draft
    BY <1>2, <2>1 DEF Typed, Releases
  <2>3. Typed'
    BY <1>2, <2>2 DEF Typed, Steps
  <2>4. Building'
    BY <1>2, <2>2 DEF Typed, Building, AfterCheck, Published
  <2>5. PublishedIsOnePayload'
    BY <1>2, <2>2 DEF PublishedIsOnePayload, Building, Published
  <2>6. QED
    BY <2>3, <2>4, <2>5
<1>3. QED
  BY <1>1, <1>2

LEMMA StepVerifyDraft == IInv /\ VerifyDraft => IInv'
<1> SUFFICES ASSUME IInv, VerifyDraft PROVE IInv'
  OBVIOUS
<1> USE PipelineAssumption DEF IInv, VerifyDraft, Goto
<1>1. Typed'
  BY DEF Typed, Steps
<1>2. Building'
  BY DEF Typed, Building, AfterCheck, Published, Staged, Ours
<1>3. QED
  BY <1>1, <1>2, KeptPublic

LEMMA StepPublish == IInv /\ Publish => IInv'
<1> SUFFICES ASSUME IInv, Publish PROVE IInv'
  OBVIOUS
<1> USE PipelineAssumption DEF IInv, Publish, Goto
<1>1. CASE step' = "failed" /\ UNCHANGED release
  <2>1. Typed'
    BY <1>1 DEF Typed, Steps
  <2>2. Building'
    BY <1>1 DEF Typed, Building, AfterCheck, Published
  <2>3. QED
    BY <1>1, <2>1, <2>2, KeptPublic
<1>2. CASE /\ step = "publish" /\ step' \in {"verify public", "failed"}
           /\ release' = [release EXCEPT !.draft = FALSE, !.at = tag]
  <2>1. release' \in Releases /\ release'.assets = release.assets
    BY <1>2 DEF Typed, Releases
  <2>2. Typed'
    BY <1>2, <2>1 DEF Typed, Steps
  <2>3. Building'
    BY <1>2 DEF Typed, Building, AfterCheck
  <2>4. PublishedIsOnePayload'
    <3>1. payload \in Payloads
      BY <1>2, ResolvedPayload DEF Building, AfterCheck
    <3>2. release'.assets = [name : AssetNames, from : {payload}]
      BY <1>2, <2>1, StagedIsOnePayload DEF Building
    <3>3. QED
      BY <3>1, <3>2 DEF PublishedIsOnePayload, Payloads
  <2>5. QED
    BY <2>2, <2>3, <2>4
<1>3. QED
  BY <1>1, <1>2

LEMMA StepVerifyPublic == IInv /\ VerifyPublic => IInv'
<1> SUFFICES ASSUME IInv, VerifyPublic PROVE IInv'
  OBVIOUS
<1> USE PipelineAssumption DEF IInv, VerifyPublic, Goto
<1>1. Typed'
  BY DEF Typed, Steps
<1>2. Building'
  BY DEF Typed, Building, AfterCheck
<1>3. QED
  BY <1>1, <1>2, KeptPublic

LEMMA StepRunAgain == IInv /\ RunAgain => IInv'
<1> SUFFICES ASSUME IInv, RunAgain PROVE IInv'
  OBVIOUS
<1> USE PipelineAssumption DEF IInv, RunAgain
<1>1. step' \in {"preflight", "factory", "check tag"} /\ attempt' \in 1 .. MaxAttempts
  <2>1. step' \in {"preflight", "factory", "check tag"}
    OBVIOUS
  <2>2. attempt < MaxAttempts /\ attempt' = attempt + 1
    OBVIOUS
  <2> HIDE DEF RunAgain
  <2>3. attempt' \in 1 .. MaxAttempts
    BY <2>2 DEF Typed
  <2>4. QED
    BY <2>1, <2>3
<1>2. CASE step' = "preflight"
  <2>0. source' = None /\ payload' = Foreign /\ UNCHANGED <<tag, release, uploaded, edits>>
    BY <1>2
  <2> HIDE DEF RunAgain
  <2>1. Typed'
    BY <1>1, <1>2, <2>0 DEF Typed, Steps
  <2>2. Building'
    BY <1>2 DEF Building, AfterCheck
  <2>3. QED
    BY <2>0, <2>1, <2>2, KeptPublic
<1>3. CASE step' \in {"factory", "check tag"}
  <2>1. /\ source # None /\ UNCHANGED <<source, payload, tag, release, uploaded, edits>>
        /\ step' = "check tag" => payload.commit = source
    BY <1>3
  <2> HIDE DEF RunAgain
  <2>2. Typed'
    BY <1>1, <1>3, <2>1 DEF Typed, Steps
  <2>3. Building'
    BY <1>3, <2>1 DEF Typed, Building, AfterCheck
  <2>4. QED
    BY <2>1, <2>2, <2>3, KeptPublic
<1>4. QED
  BY <1>1, <1>2, <1>3

(* The maintainer's.                                                       *)
LEMMA StepMoveTag == IInv /\ MoveTag => IInv'
<1> SUFFICES ASSUME IInv, MoveTag PROVE IInv'
  OBVIOUS
<1> USE PipelineAssumption DEF IInv
<1>0. /\ tag' \in Commits /\ edits' \in 0 .. MaxEdits
      /\ UNCHANGED <<attempt, step, source, payload, release, uploaded>>
  <2>1. edits < MaxEdits /\ edits' = edits + 1
    BY DEF MoveTag, Edit
  <2>2. edits' \in 0 .. MaxEdits
    BY <2>1 DEF Typed
  <2>3. QED
    BY <2>2 DEF MoveTag
<1>1. Typed'
  BY <1>0 DEF Typed
<1>2. Building'
  BY <1>0 DEF Building, AfterCheck, Published, Staged, Ours
<1>3. QED
  BY <1>0, <1>1, <1>2, KeptPublic

LEMMA EditedDraft ==
  ASSUME Typed, EditDraft
  PROVE  release' \in Releases /\ ~(release'.exists /\ ~release'.draft)
<1>1. CASE ~release.exists
  <2>1. release' = Draft
    BY <1>1 DEF EditDraft
  <2>2. QED
    BY <2>1 DEF Draft, Releases
<1>2. CASE release.exists /\ release' = NoRelease
  BY <1>2 DEF NoRelease, Releases
<1>3. CASE release.exists /\ release' # NoRelease
  <2>1. PICK name \in AssetNames \cup {"notes"} :
            release' = [release EXCEPT !.assets = @ \cup {[name |-> name, from |-> Foreign]}]
    BY <1>3 DEF EditDraft
  <2>2. [name |-> name, from |-> Foreign] \in Assets
    BY DEF Assets
  <2>3. release.draft
    BY <1>3 DEF EditDraft
  <2>4. QED
    BY <2>1, <2>2, <2>3 DEF Typed, Releases
<1>4. QED
  BY <1>1, <1>2, <1>3

LEMMA StepEditDraft == IInv /\ EditDraft => IInv'
<1> SUFFICES ASSUME IInv, EditDraft PROVE IInv'
  OBVIOUS
<1> USE PipelineAssumption DEF IInv
<1>1. release' \in Releases /\ ~Published'
  BY EditedDraft DEF Published
<1>2. /\ step # "publish"
      /\ edits' \in 0 .. MaxEdits
      /\ UNCHANGED <<tag, attempt, step, source, payload, uploaded>>
  BY DEF EditDraft, Edit, Typed
<1>3. Typed'
  BY <1>1, <1>2 DEF Typed
<1>4. Building'
  BY <1>1, <1>2 DEF Building, AfterCheck
<1>5. PublishedIsOnePayload'
  BY <1>1 DEF PublishedIsOnePayload
<1>6. QED
  BY <1>3, <1>4, <1>5

LEMMA StepIInv == IInv /\ [Next]_vars => IInv'
<1> SUFFICES ASSUME IInv, [Next]_vars PROVE IInv'
  OBVIOUS
<1>1. CASE UNCHANGED vars
  BY <1>1 DEF vars, IInv, Typed, Building, PublishedIsOnePayload, Published, AfterCheck,
              Staged, Ours
<1>2. CASE Next
  BY <1>2, StepPreflight, StepFactory, StepCheckTag, StepCreate, StepAssertEmptyDraft,
     StepUpload, StepVerifyDraft, StepPublish, StepVerifyPublic, StepRunAgain, StepMoveTag,
     StepEditDraft DEF Next
<1>3. QED
  BY <1>1, <1>2

LEMMA AlwaysIInv == Spec => []IInv
  BY InitIInv, StepIInv, PTL DEF Spec

-----------------------------------------------------------------------------
(* Every variable keeps its type: the workflow's outputs, and what the     *)
(* release of the tag can look like (jobs of release.yml).                 *)
THEOREM TypeCorrect == Spec => []TypeOK
<1>1. IInv => TypeOK
  BY DEF IInv, Typed, Building, AfterCheck, Steps, Releases, Assets, TypeOK
<1>2. QED
  BY <1>1, AlwaysIInv, PTL

(* A public release is complete and of one piece, whatever failed and      *)
(* whatever a maintainer did to its draft (publish job of release.yml).    *)
THEOREM OnePayloadTheorem == Spec => []PublishedIsOnePayload
<1>1. IInv => PublishedIsOnePayload
  BY DEF IInv
<1>2. QED
  BY <1>1, AlwaysIInv, PTL

(* Nothing attached to a release is replaced, and nothing is added to a    *)
(* public one ("Never delete or replace an existing release asset").       *)
THEOREM ReplacedTheorem == Spec => NothingReplaced
<1>1. IInv /\ [Next]_vars =>
        [/\ release'.exists /\ release.exists => release.assets \subseteq release'.assets
         /\ Published => release' = release]_vars
  <2> SUFFICES ASSUME IInv, Next
               PROVE  /\ release'.exists /\ release.exists =>
                           release.assets \subseteq release'.assets
                      /\ Published => release' = release
    OBVIOUS
  <2>1. CASE UNCHANGED release
    BY <2>1
  <2>2. CASE Create
    BY <2>2 DEF Create, Published
  <2>3. CASE \E name \in AssetNames : Upload(name)
    BY <2>3 DEF Upload, Goto, IInv, Typed, Building, Releases
  <2>4. CASE Publish
    BY <2>4 DEF Publish, Goto, IInv, Typed, Building, Releases, Published
  <2>5. CASE EditDraft
    BY <2>5 DEF EditDraft, Published, IInv, Typed, Releases, NoRelease
  <2>6. QED
    BY <2>1, <2>2, <2>3, <2>4, <2>5 DEF Next, Preflight, Factory, CheckTag,
       AssertEmptyDraft, VerifyDraft, VerifyPublic, RunAgain, MoveTag
<1>2. QED
  BY <1>1, AlwaysIInv, PTL DEF Spec, NothingReplaced

-----------------------------------------------------------------------------
(* The tag, if it does not move between its last check and publication.    *)
LEMMA InitTagInv == Init => TagInv
  BY DEF Init, TagInv, AfterCheck, PublishedFromItsTag, Published, NoRelease

LEMMA StepTagInv ==
  ASSUME ~TagMayMoveLast
  PROVE  IInv /\ TagInv /\ [Next]_vars => TagInv'
<1> SUFFICES ASSUME IInv, TagInv, [Next]_vars PROVE TagInv'
  OBVIOUS
<1>1. step' \in AfterCheck => tag' = source'
  BY DEF TagInv, AfterCheck, vars, Next, Goto, Preflight, Factory, CheckTag, Create,
     AssertEmptyDraft, Upload, VerifyDraft, Publish, VerifyPublic, RunAgain, MoveTag, EditDraft
<1>2. PublishedFromItsTag'
  <2>1. CASE Publish /\ release' # release
    <3>1. release'.assets = release.assets /\ release'.at = tag /\ tag = source
      BY <2>1 DEF Publish, Goto, IInv, Typed, Releases, TagInv, AfterCheck
    <3>2. \A asset \in release.assets : asset.from.commit = source
      <4>1. step = "publish"
        BY <2>1 DEF Publish, Goto
      <4>2. release.assets = Staged /\ payload.commit = source
        BY <4>1 DEF IInv, Building, AfterCheck
      <4>3. QED
        BY <4>2 DEF Staged, Ours
    <3>3. QED
      BY <3>1, <3>2 DEF PublishedFromItsTag
  <2>2. CASE ~Published'
    BY <2>2 DEF PublishedFromItsTag
  <2>3. CASE UNCHANGED release
    BY <2>3 DEF TagInv, PublishedFromItsTag, Published
  <2>4. CASE Create
    BY <2>4, <2>3, <2>2 DEF Create, Draft, Published
  <2>5. CASE \E name \in AssetNames : Upload(name)
    <3>1. UNCHANGED release \/ ~Published'
      BY <2>5 DEF Upload, Goto, IInv, Typed, Building, Releases, Published
    <3>2. QED
      BY <3>1, <2>2, <2>3
  <2>6. CASE EditDraft
    BY <2>6, <2>2, EditedDraft DEF IInv, Published
  <2>7. QED
    BY <2>1, <2>3, <2>4, <2>5, <2>6 DEF Next, vars, Goto, Preflight, Factory, CheckTag,
       AssertEmptyDraft, VerifyDraft, Publish, VerifyPublic, RunAgain, MoveTag
<1>3. QED
  BY <1>1, <1>2 DEF TagInv

(* The public wheels were built from the commit their tag names, in one    *)
(* factory run, provided that the tag is left alone once publish has       *)
(* compared it (RESOLVED_SOURCE_SHA): the comparison is not repeated.      *)
THEOREM ReviewedTheorem ==
  ASSUME ~TagMayMoveLast
  PROVE  Spec => []PublishedIsReviewed
<1>1. IInv /\ TagInv => PublishedIsReviewed
  BY DEF IInv, TagInv, PublishedIsReviewed
<1>2. Spec => []TagInv
  BY InitTagInv, StepTagInv, AlwaysIInv, PTL DEF Spec
<1>3. QED
  BY <1>1, <1>2, AlwaysIInv, PTL

=============================================================================
