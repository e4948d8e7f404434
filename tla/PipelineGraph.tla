--------------------------- MODULE PipelineGraph ---------------------------
(***************************************************************************)
(* The task-graph builder of createPipelineSpec                            *)
(* (pkg/reconciler/dependencybuild/buildrecipeyaml.go).                    *)
(*                                                                         *)
(* The function grows ps.Tasks and ps.Results block by block: it decides   *)
(* from the existing-image index whether a pre-build task is needed,       *)
(* prepends the pre-build task, the build task (remote buildah definition  *)
(* or embedded steps) and the post-build task, and finally fans every      *)
(* pipeline parameter out by position (ps.Tasks[0], [1], [2]).  Each block *)
(* is one action; pc names the block the code is about to run.  Strings   *)
(* are abstracted to the references they contain: a parameter value is a   *)
(* literal, a $(params.x) / $(params.x[*]) reference or a                  *)
(* $(tasks.t.results.r) reference.                                         *)
(***************************************************************************)
EXTENDS Naturals, Sequences, FiniteSets, Graphs

CONSTANTS
    Images,        \* builder images a recipe may name (recipe.Image)
    Tools,         \* build tools a recipe may name (recipe.Tool)
    CachedImages,  \* pre-build image references an earlier run produced
    NoImage        \* the "" a Go map lookup returns for an absent key

VARIABLES
    existingImages,        \* input: (image, tool) -> pre-build image or NoImage
    recipeImage,           \* input: recipe.Image
    recipeTool,            \* input: recipe.Tool
    containerBuilds,       \* input: jbsConfig.Spec.ContainerBuilds
    pc,                    \* the block of createPipelineSpec about to run
    preBuildImage,         \* value later bound to the pre-build digest params
    preBuildImageRequired,
    runAfter,              \* runAfter of the build task
    runAfterBuild,         \* runAfter of the post-build task
    tasks,                 \* ps.Tasks
    results,               \* ps.Results
    params,                \* ps.Params (names)
    i                      \* index of the next pipelineParams entry to fan out

inputs  == <<existingImages, recipeImage, recipeTool, containerBuilds>>
builder == <<pc, preBuildImage, preBuildImageRequired, runAfter, runAfterBuild,
             tasks, results, params, i>>
vars    == <<inputs, builder>>

-----------------------------------------------------------------------------
(* Names fixed by the code: task names (lines 28-31), result names and the *)
(* pipeline parameter list in declaration order (lines 342-356).           *)

PreBuildTaskName  == "pre-build"
BuildTaskName     == "build"
PostBuildTaskName == "post-build"
TaskNames == {PreBuildTaskName, BuildTaskName, PostBuildTaskName}

PreBuildImageDigest == "PRE_BUILD_IMAGE_DIGEST"
PipelineParams ==
    <<"BUILD_ID", "SCM_URL", "SCM_TAG", "SCM_HASH", "CHAINS_GIT_URL",
      "CHAINS_GIT_COMMIT", "GOALS", "JAVA_VERSION", "TOOL_VERSION", "PATH",
      "ENFORCE_VERSION", "PROJECT_VERSION", "CACHE_URL">>
ArrayParams == {"GOALS"}
\* The parameters the code binds on the remote buildah-oci-ta task (lines 480-514)
RemoteBuildParams == {"DOCKERFILE", "IMAGE", "SOURCE_ARTIFACT", "ORAS_OPTIONS", "TLSVERIFY"}
ParamNames == ToSet(PipelineParams) \cup RemoteBuildParams \cup {PreBuildImageDigest}

ResultNames == {PreBuildImageDigest, "GIT_ARCHIVE", "IMAGE_URL", "IMAGE_DIGEST",
                "CONTAMINANTS", "DEPLOYED_RESOURCES", "PASSED_VERIFICATION",
                "VERIFICATION_RESULT"}

(* The value forms a Tekton parameter or result takes in this code.        *)
Lit(x)          == [kind |-> "lit",    name |-> x, of |-> ""]
ParamRef(p)     == [kind |-> "param",  name |-> p, of |-> ""]
ArrayRef(p)     == [kind |-> "array",  name |-> p, of |-> ""]
ResultRef(t, r) == [kind |-> "result", name |-> r, of |-> t]
Binding(n, v)   == [name |-> n, value |-> v]

\* How the fan-out loop encodes a parameter (lines 684-689)
ParamValue(p) == IF p \in ArrayParams THEN ArrayRef(p) ELSE ParamRef(p)

(* A pipeline task: declares = the ParamSpecs of its TaskSpec, results =   *)
(* its TaskResults in order, params = the bindings of the PipelineTask,    *)
(* uses = the references its step scripts and env contain.                *)
Task(n, ra, decl, res, ps, us, remote) ==
    [name |-> n, runAfter |-> ra, declares |-> decl, results |-> res,
     params |-> ps, uses |-> us, remote |-> remote]

\* Mutant: the pipeline result is named after the task instead of the result
ExportResultsTaskName(t) ==
    [k \in 1..Len(t.results) |-> Binding(t.name, ResultRef(t.name, t.results[k]))]

\* Re-export the results of task t at pipeline level (lines 450-452, 617-619, 678-680)
ExportResults(t) ==
    [k \in 1..Len(t.results) |-> Binding(t.results[k], ResultRef(t.name, t.results[k]))]

-----------------------------------------------------------------------------

TypeOK ==
    /\ existingImages \in [Images \X Tools -> CachedImages \cup {NoImage}]
    /\ recipeImage \in Images /\ recipeTool \in Tools
    /\ containerBuilds \in BOOLEAN
    /\ pc \in {"resolve", "preBuild", "build", "postBuild", "fanOut", "done"}
    /\ preBuildImageRequired \in BOOLEAN
    /\ runAfter \in Seq(TaskNames) /\ runAfterBuild \in Seq(TaskNames)
    /\ \A k \in DOMAIN tasks :
          /\ tasks[k].name \in TaskNames
          /\ tasks[k].declares \subseteq ParamNames
          /\ ToSet(tasks[k].results) \subseteq ResultNames
          /\ \A b \in ToSet(tasks[k].params) : b.name \in ParamNames
    /\ \A k \in DOMAIN results : results[k].name \in ResultNames
    /\ params \in Seq(ToSet(PipelineParams))
    /\ i \in 1..Len(PipelineParams) + 1

Init ==
    /\ existingImages \in [Images \X Tools -> CachedImages \cup {NoImage}]
    /\ recipeImage \in Images
    /\ recipeTool \in Tools
    /\ containerBuilds \in BOOLEAN
    /\ pc = "resolve"
    /\ preBuildImage = Lit(NoImage)
    /\ preBuildImageRequired = FALSE
    /\ runAfter = <<>>
    /\ runAfterBuild = <<>>
    /\ tasks = <<>>
    /\ results = <<>>
    /\ params = <<>>
    /\ i = 1

\* Mutant: a miss keeps the empty lookup result instead of the symbolic reference
ResolvePreBuildImageNoRef ==
    LET found == existingImages[<<recipeImage, recipeTool>>] IN
    /\ pc = "resolve"
    /\ preBuildImageRequired' = (found = NoImage)
    /\ preBuildImage' = Lit(found)
    /\ runAfter' = IF found = NoImage THEN <<PreBuildTaskName>> ELSE <<>>
    /\ runAfterBuild' = Append(runAfter', BuildTaskName)
    /\ pc' = "preBuild"
    /\ UNCHANGED <<inputs, tasks, results, params, i>>

\* Mutant: the build task is not told to run after the pre-build task
ResolvePreBuildImageNoRunAfter ==
    LET found == existingImages[<<recipeImage, recipeTool>>] IN
    /\ pc = "resolve"
    /\ preBuildImageRequired' = (found = NoImage)
    /\ preBuildImage' = IF found = NoImage
                        THEN ResultRef(PreBuildTaskName, PreBuildImageDigest)
                        ELSE Lit(found)
    /\ runAfter' = <<>>
    /\ runAfterBuild' = Append(runAfter', BuildTaskName)
    /\ pc' = "preBuild"
    /\ UNCHANGED <<inputs, tasks, results, params, i>>

(* Lines 359-368: look up the pre-build image of (recipe.Image,            *)
(* recipe.Tool); a miss makes the build wait for the pre-build task and    *)
(* read its digest result.                                                 *)
ResolvePreBuildImage ==
    LET found == existingImages[<<recipeImage, recipeTool>>] IN
    /\ pc = "resolve"
    /\ preBuildImageRequired' = (found = NoImage)
    /\ \/ /\ found = NoImage
          /\ preBuildImage' = ResultRef(PreBuildTaskName, PreBuildImageDigest)
          /\ runAfter' = <<PreBuildTaskName>>
       \/ /\ found # NoImage
          /\ preBuildImage' = Lit(found)
          /\ runAfter' = <<>>
    /\ runAfterBuild' = Append(runAfter', BuildTaskName)
    /\ pc' = "preBuild"
    /\ UNCHANGED <<inputs, tasks, results, params, i>>

(* Lines 374-453: the pre-build task (git clone, preprocessor, pre-build   *)
(* source and image) is prepended and its two results exported.           *)
PreBuildTask ==
    Task(PreBuildTaskName, <<>>, ToSet(PipelineParams),
         <<PreBuildImageDigest, "GIT_ARCHIVE">>, <<>>,
         {ParamRef("CACHE_URL"), ParamRef("SCM_URL"), ParamRef("SCM_HASH")}, FALSE)

AddPreBuildTask ==
    /\ pc = "preBuild"
    /\ preBuildImageRequired
    /\ tasks' = <<PreBuildTask>> \o tasks
    /\ results' = results \o ExportResults(PreBuildTask)
    /\ pc' = "build"
    /\ UNCHANGED <<inputs, preBuildImage, preBuildImageRequired, runAfter,
                   runAfterBuild, params, i>>

SkipPreBuildTask ==
    /\ pc = "preBuild"
    /\ ~preBuildImageRequired
    /\ pc' = "build"
    /\ UNCHANGED <<inputs, preBuildImage, preBuildImageRequired, runAfter,
                   runAfterBuild, tasks, results, params, i>>

(* Lines 455-529: with container builds the build task is a reference to  *)
(* the remote buildah-oci-ta definition, given the pre-build image as      *)
(* SOURCE_ARTIFACT; its IMAGE_URL and IMAGE_DIGEST results are exported.   *)
RemoteBuildTask(src, ra) ==
    Task(BuildTaskName, ra, RemoteBuildParams, <<"IMAGE_URL", "IMAGE_DIGEST">>,
         <<Binding("DOCKERFILE", Lit("containerfile")), Binding("IMAGE", Lit("image")),
           Binding("SOURCE_ARTIFACT", src), Binding("ORAS_OPTIONS", Lit("oras")),
           Binding("TLSVERIFY", Lit("tls"))>>,
         {}, TRUE)

AddRemoteBuildTask ==
    /\ pc = "build"
    /\ containerBuilds
    /\ tasks' = <<RemoteBuildTask(preBuildImage, runAfter)>> \o tasks
    /\ results' = results \o ExportResults(RemoteBuildTask(preBuildImage, runAfter))
    /\ pc' = "postBuild"
    /\ UNCHANGED <<inputs, preBuildImage, preBuildImageRequired, runAfter,
                   runAfterBuild, params, i>>

(* Lines 530-620: otherwise the build task embeds its steps: restore the   *)
(* pre-build source from $(params.PRE_BUILD_IMAGE_DIGEST), run build.sh    *)
(* with $(params.GOALS[*]) and CACHE_URL, store the artifacts.             *)
EmbeddedBuildTask(src, ra) ==
    Task(BuildTaskName, ra, ToSet(PipelineParams) \cup {PreBuildImageDigest},
         <<"IMAGE_URL", "IMAGE_DIGEST">>, <<Binding(PreBuildImageDigest, src)>>,
         {ParamRef(PreBuildImageDigest), ArrayRef("GOALS"), ParamRef("CACHE_URL")}, FALSE)

AddEmbeddedBuildTask ==
    /\ pc = "build"
    /\ ~containerBuilds
    /\ tasks' = <<EmbeddedBuildTask(preBuildImage, runAfter)>> \o tasks
    /\ results' = results \o ExportResults(EmbeddedBuildTask(preBuildImage, runAfter))
    /\ pc' = "postBuild"
    /\ UNCHANGED <<inputs, preBuildImage, preBuildImageRequired, runAfter,
                   runAfterBuild, params, i>>

(* Lines 622-680: the post-build task restores the artifacts by            *)
(* $(tasks.build.results.IMAGE_DIGEST), verifies them against CACHE_URL,   *)
(* and exports four results.                                               *)
PostBuildTask(src, ra) ==
    Task(PostBuildTaskName, ra, ToSet(PipelineParams) \cup {PreBuildImageDigest},
         <<"CONTAMINANTS", "DEPLOYED_RESOURCES", "PASSED_VERIFICATION", "VERIFICATION_RESULT">>,
         <<Binding(PreBuildImageDigest, src)>>,
         {ResultRef(BuildTaskName, "IMAGE_DIGEST"), ParamRef("CACHE_URL")}, FALSE)

AddPostBuildTask ==
    /\ pc = "postBuild"
    /\ tasks' = <<PostBuildTask(preBuildImage, runAfterBuild)>> \o tasks
    /\ results' = results \o ExportResults(PostBuildTask(preBuildImage, runAfterBuild))
    /\ pc' = "fanOut"
    /\ UNCHANGED <<inputs, preBuildImage, preBuildImageRequired, runAfter,
                   runAfterBuild, params, i>>

(* Lines 682-704, one iteration: declare the i-th parameter at pipeline    *)
(* level and bind it on ps.Tasks[0], on ps.Tasks[1] when a pre-build task  *)
(* exists, and on ps.Tasks[index] after index += 1 (Go indexes from 0).    *)
\* Mutant: the second "index += 1" is dropped
FanOutTargetsNoIncrement ==
    LET index == IF preBuildImageRequired THEN 1 ELSE 0
    IN  {0} \cup (IF preBuildImageRequired THEN {index} ELSE {}) \cup {index}

FanOutTargets ==
    LET index == IF preBuildImageRequired THEN 1 ELSE 0
    IN  {0} \cup (IF preBuildImageRequired THEN {index} ELSE {}) \cup {index + 1}

FanOutParam ==
    LET p == PipelineParams[i]
        b == Binding(p, ParamValue(p))
    IN
    /\ pc = "fanOut"
    /\ i <= Len(PipelineParams)
    /\ params' = Append(params, p)
    /\ tasks' = [k \in DOMAIN tasks |->
                    IF k - 1 \in FanOutTargets
                    THEN [tasks[k] EXCEPT !.params = Append(@, b)]
                    ELSE tasks[k]]
    /\ i' = i + 1
    /\ UNCHANGED <<inputs, pc, preBuildImage, preBuildImageRequired, runAfter,
                   runAfterBuild, results>>

\* Line 706: the loop is over and the spec is returned
Return ==
    /\ pc = "fanOut"
    /\ i > Len(PipelineParams)
    /\ pc' = "done"
    /\ UNCHANGED <<inputs, preBuildImage, preBuildImageRequired, runAfter,
                   runAfterBuild, tasks, results, params, i>>

Next ==
    \/ ResolvePreBuildImage
    \/ AddPreBuildTask
    \/ SkipPreBuildTask
    \/ AddRemoteBuildTask
    \/ AddEmbeddedBuildTask
    \/ AddPostBuildTask
    \/ FanOutParam
    \/ Return

Spec == Init /\ [][Next]_vars

-----------------------------------------------------------------------------
(* Properties of the generated graph, checked once the function returns.  *)

TaskSet  == {tasks[k] : k \in DOMAIN tasks}
Present  == {t.name : t \in TaskSet}
TaskNamed(n) == CHOOSE t \in TaskSet : t.name = n
\* runAfter as a graph: an edge u -> t when t runs after u
RunAfterGraph ==
    [node |-> Present,
     edge |-> UNION {{<<u, t.name>> : u \in ToSet(t.runAfter)} : t \in TaskSet}]
ResultRefs(t) ==
    {v \in t.uses \cup {b.value : b \in ToSet(t.params)} : v.kind = "result"}
BindingsOf(t, p) == {k \in DOMAIN t.params : t.params[k].name = p}

(* Cache short-circuit (spec 4.6 and 8): when the index holds a pre-build   *)
(* image for "recipe.Image-recipe.Tool" there is no pre-build task and the  *)
(* build and post-build tasks are given exactly that image; when it holds   *)
(* none there is a pre-build task and both read its digest result           *)
(* symbolically.  About ResolvePreBuildImage and the pre-build/build/       *)
(* post-build blocks that bind preBuildImage.                               *)
CacheShortCircuit ==
    pc = "done" =>
        LET cached == existingImages[<<recipeImage, recipeTool>>]
            src    == IF cached = NoImage
                      THEN ResultRef(PreBuildTaskName, PreBuildImageDigest)
                      ELSE Lit(cached)
        IN  /\ (PreBuildTaskName \in Present) <=> (cached = NoImage)
            /\ \A t \in TaskSet : t.name # PreBuildTaskName =>
                  {b.value : b \in {b \in ToSet(t.params) :
                                    b.name \in {PreBuildImageDigest, "SOURCE_ARTIFACT"}}}
                  = {src}

(* Every result reference resolves and is ordered (spec 3, task graph      *)
(* invariants): runAfter forms a DAG over the tasks present; every         *)
(* $(tasks.t.results.r) a task binds or uses names a present task t that   *)
(* declares r and that must finish before it; exactly one build task, and  *)
(* post-build depends on it; every pipeline result points at the task that *)
(* declares it and every task result is exported exactly once.  About the  *)
(* runAfter/runAfterBuild computation and the prepend order of the tasks.  *)
ResultReferencesResolve ==
    pc = "done" =>
        /\ \A t \in TaskSet : ToSet(t.runAfter) \subseteq Present
        /\ IsDag(RunAfterGraph)
        /\ Cardinality({k \in DOMAIN tasks : tasks[k].name = BuildTaskName}) = 1
        /\ BuildTaskName \in Ancestors(RunAfterGraph, PostBuildTaskName)
        /\ \A t \in TaskSet : \A r \in ResultRefs(t) :
              /\ r.of \in Ancestors(RunAfterGraph, t.name)
              /\ r.name \in ToSet(TaskNamed(r.of).results)
        /\ \A k \in DOMAIN results :
              /\ results[k].value = ResultRef(results[k].value.of, results[k].name)
              /\ results[k].value.of \in Present
              /\ results[k].name \in ToSet(TaskNamed(results[k].value.of).results)
        /\ \A t \in TaskSet : \A r \in ToSet(t.results) :
              Cardinality({k \in DOMAIN results : results[k].name = r}) = 1

(* Parameter fan-out (spec 4.7): the pipeline declares the parameters in   *)
(* declaration order, and every parameter a present task declares is bound *)
(* on it exactly once, a string parameter as $(params.p) and an array      *)
(* parameter as $(params.p[*]).  About the positional ps.Tasks[index]      *)
(* loop, which relies on the prepend order of the blocks before it.        *)
FanOutComplete ==
    pc = "done" =>
        /\ params = PipelineParams
        /\ \A t \in TaskSet :
              /\ \A p \in t.declares : Cardinality(BindingsOf(t, p)) = 1
              /\ \A b \in ToSet(t.params) :
                    b.name \in ToSet(PipelineParams) =>
                        b.value = IF b.name \in ArrayParams THEN ArrayRef(b.name)
                                                           ELSE ParamRef(b.name)

=============================================================================
