---------------------------- MODULE PipelineRun ----------------------------
(***************************************************************************)
(* Execution of the pipelines createPipelineSpec generates for successive  *)
(* attempts at one DependencyBuild                                         *)
(* (pkg/reconciler/dependencybuild/buildrecipeyaml.go).                    *)
(*                                                                         *)
(* The reconciler, which is not in this repository, starts an attempt with *)
(* a recipe and the existing-image index, and when the PipelineRun ends    *)
(* records the pre-build image it produced under (recipe.Image,            *)
(* recipe.Tool) (spec 4.6, 6).  Tekton runs the generated tasks in runAfter *)
(* order; any running task may fail (build and post-build also by their    *)
(* timeout), and a task whose predecessor did not succeed is skipped.      *)
(*                                                                         *)
(* What the steps do is taken from their scripts: the pre-build task       *)
(* writes build.sh for the current recipe (line 391), copies it into       *)
(* source/.jbs (866) and archives the source (867); the build task         *)
(* restores the archive named by its PRE_BUILD_IMAGE_DIGEST parameter,     *)
(* moves .jbs/build.sh into place (547-548) and runs it (563).  An archive *)
(* is content-addressed, so it is modelled by its content: the builder     *)
(* image and tool it was prepared with and the build.sh it holds.          *)
(***************************************************************************)
EXTENDS Naturals, FiniteSets

CONSTANTS
    Recipes,       \* recipes, records [image, tool, script]
    Images, Tools, Scripts,
    MaxAttempts,   \* bound on the attempts the reconciler makes
    NoImage,       \* an absent key of the existing-image index
    NoArchive,     \* no archive restored / no result written yet
    NoScript       \* build.sh has not run in this attempt

ASSUME Recipes \subseteq [image : Images, tool : Tools, script : Scripts]
ASSUME MaxAttempts \in Nat

VARIABLES
    attempt,         \* attempts started so far
    recipe,          \* recipe of the current attempt
    phase,           \* "idle" between PipelineRuns, "running" during one
    lastFailed,      \* the last PipelineRun did not succeed
    existingImages,  \* reconciler's index (image, tool) -> archive
    registry,        \* archives pushed to the OCI registry
    status,          \* task name -> Tekton state of the task
    sourceRef,       \* value bound to PRE_BUILD_IMAGE_DIGEST of build
    digestResult,    \* the pre-build task's PRE_BUILD_IMAGE_DIGEST result
    restored,        \* archive the build task restored
    executed         \* build.sh the build step ran

vars == <<attempt, recipe, phase, lastFailed, existingImages, registry, status,
          sourceRef, digestResult, restored, executed>>

PreBuild  == "pre-build"
Build     == "build"
PostBuild == "post-build"
TaskNames == {PreBuild, Build, PostBuild}
\* $(tasks.pre-build.results.PRE_BUILD_IMAGE_DIGEST), the cache-miss binding (line 365)
PreBuildResult == [task |-> PreBuild, result |-> "PRE_BUILD_IMAGE_DIGEST"]

Archives == [image : Images, tool : Tools, script : Scripts]
Final    == {"absent", "succeeded", "failed", "skipped"}

TypeOK ==
    /\ attempt \in 0..MaxAttempts
    /\ recipe \in Recipes
    /\ phase \in {"idle", "running"}
    /\ lastFailed \in BOOLEAN
    /\ existingImages \in [Images \X Tools -> Archives \cup {NoImage}]
    /\ registry \subseteq Archives
    /\ status \in [TaskNames -> Final \cup {"pending", "running"}]
    /\ sourceRef \in Archives \cup {PreBuildResult}
    /\ digestResult \in Archives \cup {NoArchive}
    /\ restored \in Archives \cup {NoArchive}
    /\ executed \in Scripts \cup {NoScript}

Init ==
    /\ attempt = 0
    /\ recipe \in Recipes
    /\ phase = "idle"
    /\ lastFailed = FALSE
    /\ existingImages = [k \in Images \X Tools |-> NoImage]
    /\ registry = {}
    /\ status = [t \in TaskNames |-> "absent"]
    /\ sourceRef = PreBuildResult
    /\ digestResult = NoArchive
    /\ restored = NoArchive
    /\ executed = NoScript

-----------------------------------------------------------------------------
(* Generation (createPipelineSpec).                                        *)

\* Line 362: the index is keyed by recipe.Image + "-" + recipe.Tool
LookupKey(r) == <<r.image, r.tool>>

\* Mutant: build's runAfter names pre-build whether or not the task was added
DepsAlwaysPreBuild(t) ==
    CASE t = PreBuild  -> {}
      [] t = Build     -> {PreBuild}
      [] t = PostBuild -> {PreBuild, Build}

\* runAfter of each task (lines 359-368): build after pre-build when it exists,
\* post-build after build and, when it exists, pre-build
Deps(t) ==
    LET pre == IF status[PreBuild] = "absent" THEN {} ELSE {PreBuild} IN
    CASE t = PreBuild  -> {}
      [] t = Build     -> pre
      [] t = PostBuild -> pre \cup {Build}

\* Mutant: the index is read with the previous attempt's recipe
StartAttemptStaleRecipe(r) ==
    LET found == existingImages[LookupKey(recipe)] IN
    /\ phase = "idle"
    /\ attempt < MaxAttempts
    /\ attempt = 0 \/ lastFailed
    /\ recipe' = r
    /\ attempt' = attempt + 1
    /\ phase' = "running"
    /\ status' = [t \in TaskNames |->
                    IF t = PreBuild /\ found # NoImage THEN "absent" ELSE "pending"]
    /\ sourceRef' = IF found = NoImage THEN PreBuildResult ELSE found
    /\ digestResult' = NoArchive
    /\ restored' = NoArchive
    /\ executed' = NoScript
    /\ UNCHANGED <<lastFailed, existingImages, registry>>

(* The reconciler starts the first attempt, or a new one after a failed    *)
(* PipelineRun, with recipe r (spec-modelled); createPipelineSpec looks up *)
(* the index (362-368) and the tasks of the new PipelineRun are pending.   *)
StartAttempt(r) ==
    LET found == existingImages[LookupKey(r)] IN
    /\ phase = "idle"
    /\ attempt < MaxAttempts
    /\ attempt = 0 \/ lastFailed
    /\ recipe' = r
    /\ attempt' = attempt + 1
    /\ phase' = "running"
    /\ status' = [t \in TaskNames |->
                    IF t = PreBuild /\ found # NoImage THEN "absent" ELSE "pending"]
    /\ sourceRef' = IF found = NoImage THEN PreBuildResult ELSE found
    /\ digestResult' = NoArchive
    /\ restored' = NoArchive
    /\ executed' = NoScript
    /\ UNCHANGED <<lastFailed, existingImages, registry>>

-----------------------------------------------------------------------------
(* Tekton running the generated tasks.                                     *)

Ready(t) ==
    /\ phase = "running"
    /\ status[t] = "pending"
    /\ \A d \in Deps(t) : status[d] = "succeeded"

StartPreBuild ==
    /\ Ready(PreBuild)
    /\ status' = [status EXCEPT ![PreBuild] = "running"]
    /\ UNCHANGED <<attempt, recipe, phase, lastFailed, existingImages, registry,
                   sourceRef, digestResult, restored, executed>>

(* Lines 382-434: clone at the recipe's builder image, write build.sh for  *)
(* this recipe, run the tool's preprocessor, then copy build.sh into       *)
(* source/.jbs and create-archive the source; the digest is the result.    *)
CompletePreBuild ==
    LET archive == [image |-> recipe.image, tool |-> recipe.tool, script |-> recipe.script] IN
    /\ status[PreBuild] = "running"
    /\ status' = [status EXCEPT ![PreBuild] = "succeeded"]
    /\ registry' = registry \cup {archive}
    /\ digestResult' = archive
    /\ UNCHANGED <<attempt, recipe, phase, lastFailed, existingImages, sourceRef,
                   restored, executed>>

(* Lines 540-563: restore-pre-build-source uses the archive bound to       *)
(* PRE_BUILD_IMAGE_DIGEST (the cached one, or the pre-build result), moves *)
(* its .jbs/build.sh into the workspace, and the build step runs it.       *)
StartBuild ==
    LET archive == IF sourceRef = PreBuildResult THEN digestResult ELSE sourceRef IN
    /\ Ready(Build)
    /\ status' = [status EXCEPT ![Build] = "running"]
    /\ restored' = archive
    /\ executed' = archive.script
    /\ UNCHANGED <<attempt, recipe, phase, lastFailed, existingImages, registry,
                   sourceRef, digestResult>>

\* Lines 565-593: copy the artifacts and store them; the build task succeeds
CompleteBuild ==
    /\ status[Build] = "running"
    /\ status' = [status EXCEPT ![Build] = "succeeded"]
    /\ UNCHANGED <<attempt, recipe, phase, lastFailed, existingImages, registry,
                   sourceRef, digestResult, restored, executed>>

StartPostBuild ==
    /\ Ready(PostBuild)
    /\ status' = [status EXCEPT ![PostBuild] = "running"]
    /\ UNCHANGED <<attempt, recipe, phase, lastFailed, existingImages, registry,
                   sourceRef, digestResult, restored, executed>>

\* Lines 631-660: restore the artifacts and verify them
CompletePostBuild ==
    /\ status[PostBuild] = "running"
    /\ status' = [status EXCEPT ![PostBuild] = "succeeded"]
    /\ UNCHANGED <<attempt, recipe, phase, lastFailed, existingImages, registry,
                   sourceRef, digestResult, restored, executed>>

\* A step exits non-zero, or the build/post-build Timeout (lines 479, 602, 668) fires
FailTask(t) ==
    /\ status[t] = "running"
    /\ status' = [status EXCEPT ![t] = "failed"]
    /\ UNCHANGED <<attempt, recipe, phase, lastFailed, existingImages, registry,
                   sourceRef, digestResult, restored, executed>>

\* Tekton skips a task one of whose runAfter predecessors did not succeed
SkipTask(t) ==
    /\ phase = "running"
    /\ status[t] = "pending"
    /\ \E d \in Deps(t) : status[d] \in {"failed", "skipped"}
    /\ status' = [status EXCEPT ![t] = "skipped"]
    /\ UNCHANGED <<attempt, recipe, phase, lastFailed, existingImages, registry,
                   sourceRef, digestResult, restored, executed>>

\* Mutant: the pipeline's PRE_BUILD_IMAGE_DIGEST is recorded even when no pre-build ran
FinishAttemptAlwaysRecords ==
    /\ phase = "running"
    /\ \A t \in TaskNames : status[t] \in Final
    /\ phase' = "idle"
    /\ lastFailed' = \E t \in TaskNames : status[t] \in {"failed", "skipped"}
    /\ existingImages' = [existingImages EXCEPT ![LookupKey(recipe)] = digestResult]
    /\ UNCHANGED <<attempt, recipe, registry, status, sourceRef, digestResult,
                   restored, executed>>

(* The PipelineRun has ended; the reconciler records the pre-build image   *)
(* it produced under the recipe's key (spec-modelled, spec 4.6).           *)
FinishAttempt ==
    /\ phase = "running"
    /\ \A t \in TaskNames : status[t] \in Final
    /\ phase' = "idle"
    /\ lastFailed' = \E t \in TaskNames : status[t] \in {"failed", "skipped"}
    /\ existingImages' = IF status[PreBuild] = "succeeded"
                         THEN [existingImages EXCEPT ![LookupKey(recipe)] = digestResult]
                         ELSE existingImages
    /\ UNCHANGED <<attempt, recipe, registry, status, sourceRef, digestResult,
                   restored, executed>>

TektonStep ==
    \/ StartPreBuild \/ CompletePreBuild
    \/ StartBuild \/ CompleteBuild
    \/ StartPostBuild \/ CompletePostBuild
    \/ \E t \in TaskNames : FailTask(t) \/ SkipTask(t)

Next ==
    \/ \E r \in Recipes : StartAttempt(r)
    \/ TektonStep
    \/ FinishAttempt

(* Fairness.  The Tekton controller keeps starting ready tasks and         *)
(* skipping blocked ones.  A running build or post-build task ends by its  *)
(* Timeout; the pre-build task has none and ends by the PipelineRun        *)
(* timeout Tekton applies by default.  The reconciler reacts to the end of *)
(* a PipelineRun.  Nothing forces a new attempt to start.                  *)
Fairness ==
    /\ WF_vars(StartPreBuild) /\ WF_vars(StartBuild) /\ WF_vars(StartPostBuild)
    /\ \A t \in TaskNames : WF_vars(SkipTask(t))
    /\ WF_vars(CompletePreBuild \/ FailTask(PreBuild))
    /\ WF_vars(CompleteBuild \/ FailTask(Build))
    /\ WF_vars(CompletePostBuild \/ FailTask(PostBuild))
    /\ WF_vars(FinishAttempt)

Spec == Init /\ [][Next]_vars /\ Fairness

-----------------------------------------------------------------------------
(* Properties.                                                             *)

(* The archive the build task restores (restore-pre-build-source, line     *)
(* 545) exists in the registry and was prepared on this attempt's builder  *)
(* image by this attempt's tool preprocessor, whether it came from the     *)
(* existing-image index of an earlier attempt or from this attempt's       *)
(* pre-build result.                                                       *)
RestoresMatchingArchive ==
    restored # NoArchive =>
        /\ restored \in registry
        /\ restored.image = recipe.image
        /\ restored.tool = recipe.tool

(* Spec 3 and 8: every artifact derives from the one script assembled for  *)
(* the recipe, so the build.sh that the build step runs (lines 547-563) is *)
(* the one generated for this attempt's recipe.                            *)
BuildRunsGeneratedScript ==
    executed # NoScript => executed = recipe.script

(* Every PipelineRun the reconciler starts ends, so the reconciler gets to *)
(* record its outcome: no task of the generated graph waits forever.       *)
AttemptTerminates ==
    phase = "running" ~> phase = "idle"


=============================================================================
