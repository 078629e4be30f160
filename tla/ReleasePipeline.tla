-------------------------- MODULE ReleasePipeline --------------------------
(***************************************************************************)
(* .github/workflows/release.yml: hours pass between the moment the tag is *)
(* resolved to a commit and the moment the release of that tag becomes     *)
(* public, and every step in between may fail and be run again, by the     *)
(* same run (keeping the commit and the payloads) or by a new one.         *)
(* Meanwhile the repository is in other hands: the tag may be moved, and   *)
(* the release of that tag created, filled or deleted by a maintainer.     *)
(*                                                                         *)
(* Runs of a tag take turns (concurrency: cancel-in-progress false).  An   *)
(* asset is its name and the payload it comes from, a payload the commit   *)
(* and the attempt that built it.                                          *)
(***************************************************************************)
EXTENDS Naturals, FiniteSets

CONSTANTS Commits, AssetNames,
          MaxAttempts, MaxEdits,   \* bounds: attempts, maintainer's edits
          TagMayMoveLast,          \* also while the release is being made?
          None

ASSUME PipelineAssumption ==
    /\ None \notin Commits /\ IsFiniteSet(AssetNames)
    /\ MaxAttempts \in Nat \ {0} /\ MaxEdits \in Nat

Foreign == [commit |-> None, attempt |-> 0]    \* what a maintainer attaches
Payloads == [commit : Commits, attempt : 1 .. MaxAttempts]

VARIABLES tag,        \* the commit the tag names
          attempt, step, \* of the workflow
          source,     \* output source_sha of preflight
          payload,    \* what the factory built and tested
          release,    \* of the tag
          uploaded,   \* names uploaded by this attempt
          edits

vars == <<tag, attempt, step, source, payload, release, uploaded, edits>>

NoRelease == [exists |-> FALSE, draft |-> FALSE, assets |-> {}, at |-> None]
Draft == [exists |-> TRUE, draft |-> TRUE, assets |-> {}, at |-> None]

Init ==
    /\ tag \in Commits
    /\ attempt = 1 /\ step = "preflight" /\ source = None /\ payload = Foreign
    /\ release = NoRelease /\ uploaded = {} /\ edits = 0

Goto(from, to) == step = from /\ step' = to

-----------------------------------------------------------------------------
(* The jobs: preflight, factory (every build and every GPU test), publish. *)

Preflight ==
    /\ Goto("preflight", "factory")
    /\ source' = tag
    /\ UNCHANGED <<tag, attempt, payload, release, uploaded, edits>>

Factory ==
    /\ \/ /\ Goto("factory", "check tag")
          /\ payload' = [commit |-> source, attempt |-> attempt]
       \/ Goto("factory", "failed") /\ UNCHANGED payload
    /\ UNCHANGED <<tag, attempt, source, release, uploaded, edits>>

\* Mutant of CheckTag: only that the tag is there.
TagExists ==
    /\ Goto("check tag", "create")
    /\ UNCHANGED <<tag, attempt, source, payload, release, uploaded, edits>>
CheckTag ==
    /\ Goto("check tag", IF tag = source THEN "create" ELSE "failed")
    /\ UNCHANGED <<tag, attempt, source, payload, release, uploaded, edits>>

Create ==
    /\ Goto("create", "assert empty")
    /\ release' = IF release.exists THEN release ELSE Draft
    /\ UNCHANGED <<tag, attempt, source, payload, uploaded, edits>>

AssertEmptyDraft ==
    /\ Goto("assert empty", IF release = Draft THEN "upload" ELSE "failed")
    /\ uploaded' = {}
    /\ UNCHANGED <<tag, attempt, source, payload, release, edits>>

(* gh release upload refuses a name that is there already, and may fail.   *)
NamesOf(assets) == {asset.name : asset \in assets}
Ours(name) == [name |-> name, from |-> payload]

\* Mutant of Upload: --clobber.
UploadClobbering(name) ==
    /\ name \notin uploaded
    /\ \/ /\ Goto("upload", "upload")
          /\ release.exists
          /\ release' = [release EXCEPT !.assets = {a \in @ : a.name # name} \cup {Ours(name)}]
          /\ uploaded' = uploaded \cup {name}
       \/ Goto("upload", "failed") /\ UNCHANGED <<release, uploaded>>
    /\ UNCHANGED <<tag, attempt, source, payload, edits>>
Upload(name) ==
    /\ name \notin uploaded
    /\ \/ /\ Goto("upload", "upload")
          /\ release.exists /\ name \notin NamesOf(release.assets)
          /\ release' = [release EXCEPT !.assets = @ \cup {Ours(name)}]
          /\ uploaded' = uploaded \cup {name}
       \/ Goto("upload", "failed") /\ UNCHANGED <<release, uploaded>>
    /\ UNCHANGED <<tag, attempt, source, payload, edits>>

Staged == {Ours(name) : name \in AssetNames}

VerifyDraft ==
    /\ uploaded = AssetNames
    /\ Goto("upload", IF release.exists /\ release.draft /\ release.assets = Staged
                      THEN "publish" ELSE "failed")
    /\ UNCHANGED <<tag, attempt, source, payload, release, uploaded, edits>>

(* gh release edit may fail before or after the release became public.     *)
Publish ==
    /\ \/ /\ Goto("publish", "verify public") \/ Goto("publish", "failed")
          /\ release' = [release EXCEPT !.draft = FALSE, !.at = tag]
       \/ Goto("publish", "failed") /\ UNCHANGED release
    /\ UNCHANGED <<tag, attempt, source, payload, uploaded, edits>>

(* The postcondition; looking the release up may fail.                     *)
VerifyPublic ==
    /\ \/ /\ Goto("verify public", "done")
          /\ release.exists /\ ~release.draft /\ release.assets = Staged
       \/ Goto("verify public", "failed")
    /\ UNCHANGED <<tag, attempt, source, payload, release, uploaded, edits>>

(* Run again: the failed jobs, or everything.                              *)
RunAgain ==
    /\ step \in {"failed", "done"} /\ attempt < MaxAttempts
    /\ attempt' = attempt + 1
    /\ step' \in {"preflight"} \cup (IF source # None /\ step = "failed" THEN
                     {IF payload.commit = source THEN "check tag" ELSE "factory"} ELSE {})
    /\ IF step' = "preflight" THEN source' = None /\ payload' = Foreign
                              ELSE UNCHANGED <<source, payload>>
    /\ UNCHANGED <<tag, release, uploaded, edits>>

-----------------------------------------------------------------------------
(* The maintainer, who leaves the release alone between its verification   *)
(* and its publication, and never touches a published one.                 *)

Edit == edits < MaxEdits /\ edits' = edits + 1

MoveTag ==
    /\ Edit
    /\ TagMayMoveLast \/ step \in {"preflight", "factory", "check tag", "verify public",
                               "failed", "done"}
    /\ tag' \in Commits \ {tag}
    /\ UNCHANGED <<attempt, step, source, payload, release, uploaded>>

EditDraft ==
    /\ Edit
    /\ step # "publish" /\ (release.exists => release.draft)
    /\ release' \in
          IF release.exists
          THEN {NoRelease} \cup
               {[release EXCEPT !.assets = @ \cup {[name |-> name, from |-> Foreign]}] :
                   name \in (AssetNames \cup {"notes"}) \ NamesOf(release.assets)}
          ELSE {Draft}
    /\ UNCHANGED <<tag, attempt, step, source, payload, uploaded>>

Next ==
    \/ Preflight \/ Factory \/ CheckTag \/ Create \/ AssertEmptyDraft
    \/ \E name \in AssetNames : Upload(name)
    \/ VerifyDraft \/ Publish \/ VerifyPublic \/ RunAgain \/ MoveTag \/ EditDraft

Spec == Init /\ [][Next]_vars

-----------------------------------------------------------------------------
TypeOK ==
    /\ tag \in Commits /\ attempt \in 1 .. MaxAttempts /\ edits \in 0 .. MaxEdits
    /\ step \in {"preflight", "factory", "check tag", "create", "assert empty",
                 "upload", "publish", "verify public", "failed", "done"}
    /\ source \in Commits \cup {None} /\ payload \in Payloads \cup {Foreign}
    /\ uploaded \subseteq AssetNames
    /\ release.exists \in BOOLEAN /\ release.draft \in BOOLEAN
    /\ release.at \in Commits \cup {None}
    /\ release.assets \subseteq
          [name : AssetNames \cup {"notes"}, from : Payloads \cup {Foreign}]
    /\ step = "publish" => payload.commit = source /\ uploaded = AssetNames

Published == release.exists /\ ~release.draft

(* A public release is complete and of one piece: it has exactly the       *)
(* staged assets, all from one factory run, although earlier attempts and  *)
(* other people may have left assets in the draft (assert_empty_draft, no  *)
(* --clobber, the asset comparison before --draft=false).                  *)
PublishedIsOnePayload ==
    Published =>
        \E p \in Payloads : release.assets = [name : AssetNames, from : {p}]

(* The commit the public wheels were built from is the commit their tag    *)
(* names when the release becomes public (RESOLVED_SOURCE_SHA).            *)
PublishedFromItsTag ==
    Published => \A asset \in release.assets : asset.from.commit = release.at

(* So a public release is one build of the commit its tag names.           *)
PublishedIsReviewed == PublishedIsOnePayload /\ PublishedFromItsTag

(* What anyone attached to the release stays until a maintainer removes    *)
(* it, and what is public stays for ever: no attempt deletes, replaces or  *)
(* adds to it ("Never delete or replace an existing release asset").       *)
NothingReplaced ==
    [][/\ release'.exists /\ release.exists => release.assets \subseteq release'.assets
       /\ Published => release' = release]_vars

=============================================================================
