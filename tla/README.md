# TLA+ models of the jvm-build-service build-plan generator

This directory holds TLA+ models of the code under `src/`, the TLC configurations that
check them, and `PROJECT.json`. That file lists the components, the runs, the mutants,
the map from definitions to source lines, the findings and the hazards.

## 1. Inventory

The centre of the repository is `src/pkg/reconciler/dependencybuild/buildrecipeyaml.go`.
It turns a build recipe and the tenant configuration into a Tekton pipeline, plus three
text artifacts. The other files are parts of the wider service that were shipped
alongside it. Some of them are stored under misleading paths:
`src/.tekton/cli-pull-request.yaml` also contains `RecipeRepositoryManager.java`, and
`repositories.gradle` also contains `S3Deployer.java`.

| Component | Source | State it keeps | Operations | Interacts with |
|---|---|---|---|---|
| PipelineGraphBuilder + PreBuildCacheResolver | `buildrecipeyaml.go` `createPipelineSpec` 154-707 | per call: `ps.Tasks`, `ps.Results`, `ps.Params`, `runAfter`, `preBuildImage` | look up the pre-build image, prepend the pre-build, build and post-build tasks, fan the parameters out by position | its result is handed to Tekton, which runs it; its `existingImages` input comes from the reconciler (not in `src/`) |
| Pipeline execution (Tekton + registry + reconciler) | the steps' scripts in `createPipelineSpec`; `pipelineBuildCommands` 853-897 | the workspace (`build.sh`, `source/.jbs/`), the OCI archives in the registry, the existing-image index | pre-build archives the source together with `build.sh`; build restores that archive and runs *its* `build.sh`; post-build restores the artifacts | reconciler re-invocations; at-least-once delivery |
| DeployPipeline | `createDeployPipelineSpec` 63-153 | per call | the tag pipeline: restore, maven-deployment, oras tag | consumes the build pipeline's results |
| ScriptAssembler | 181-256, `additionalPackages` 801-837, `gitScript` 839-851 | per call | pick the tool section, substitute the four placeholders one after another, build the package-install lines | its output is embedded in the pre-build task, the Dockerfile and the Konflux script |
| ParameterSubstitutor | `doSubstitution` 1037-1048, `extractArrayParam` 1014-1027, `extractEnvVar` 1029-1035 | pure | successive `ReplaceAll`s | the diagnostic and Konflux artifacts |
| DiagnosticArtifactGenerator | 263-333, `createKonfluxScripts` 740-750, `createBuildScript` 732-738 | pure | Dockerfile text, Containerfile text (extra stage for ant) | written into the pre-build archive |
| RegistryAddressResolver | `registryArgsWithDefaults` 900-932, `prependTagToImage` 971-991 | pure | default host and repository, port, owner, prefix, truncate the tag to 128 | names every archive the pipeline pushes |
| ResourceLimitCalculator | 206-210, `memoryLimits` 764-799, `settingOrDefault` 1050-1055 | pure | parse six quantities, clamp and add the additional memory | an error aborts the whole call |
| SecretInjector, pullPolicy, verify/deploy args | 709-730, 752-758, 934-968, 993-1012 | pure | conditional env vars and arguments | the step definitions |
| RecipeRepositoryManager | `.tekton/cli-pull-request.yaml` 39-141 | `lastUpdate` (volatile), the git working tree | `doUpdate`: double-checked locking around `git pull`; readers of the layout | concurrent request threads |
| S3Deployer | `repositories.gradle` 71-143 | the S3 bucket | `deployArchive`: put every tar entry; on NoSuchBucket, create the bucket and retry once | concurrent deployers |
| Gradle repository plugin | `repositories.gradle` 1-70 | the repository containers of the build | remove the non-cache repositories, add the cache | Gradle callbacks |
| Dashboard views | `unnamed/part_001` 1-663 | React state `state`, `build`, `error` | fetch on `name` change; rebuild | asynchronous HTTP responses |
| ImageResource | `unnamed/part_001` 664-716 | none | paged query | database |
| ExternalProxyEndpoint | `unnamed/part_000` 1-44 | none | forward a GET | none |
| deploy script, CI PipelineRun | `deploy/*.sh`, `.tekton/*.yaml` 1-38 | none | none | none |

**What is hard.** The generator is a sequential pure function, so its risks are orderings
and positions, not thread interleavings:

- `ps.Tasks` is built by *prepending*, and the fan-out loop then addresses tasks by index.
- Which tasks exist depends on the existing-image index.
- On a cache hit, the build runs the `build.sh` stored in an *earlier* run's pre-build
  archive, not the script generated now.
- Placeholder and parameter substitution are successive `ReplaceAll` calls, so a value
  inserted by an earlier call can be rewritten by a later one.
- Truncation, default values and zero values.

Real concurrency exists in `RecipeRepositoryManager` (double-checked locking, and a pull
racing with readers), in `S3Deployer` (concurrent create-bucket and retry), and in the
dashboard (responses that arrive out of order).

**What makes each component correct** (spec §3, §4 and §8):

- Task graph:
  - The pre-build task is present exactly on a cache miss.
  - On a hit, the build gets the cached image literally; on a miss, it reads the pre-build
    result symbolically.
  - Every result reference points to an earlier task that declares that result.
  - Every declared parameter is bound exactly once, with the right string or array
    encoding.
- Execution: the script that runs is the one generated for this recipe, and every run ends.
- Registry address: the tag is at most 128 characters and is a prefix of the untruncated
  tag. The prefix is applied the same way whether or not the input already has a colon.
- Limits: the additional memory is clamped to the system maximum. A parse error aborts.
- Script: each placeholder is replaced once, by its own value. A bad package makes the
  script fail at run time, and the other packages are kept.
- Dashboard: the build page shows the build named in its route.

## 2. Plan

Modules, in order of importance. A module that composes another is named after it.

1. `PipelineGraph`: the builder of `createPipelineSpec`, one action per code block
   (**done**). It is instantiated by `MC_PipelineGraph`.
2. `PipelineRun` (**done**): the reconciler's successive attempts (spec-modelled), each generating a
   pipeline, and Tekton running its tasks with failures and timeouts. The registry holds
   content-addressed archives; the existing-image index is updated from pre-build results.
   Checks:
   - the executed `build.sh` is the generated one (a violation: cache hits reuse stale
     scripts);
   - every run terminates, under fairness of the Tekton controller.
3. `RegistryAddress` (**done**): `registryArgsWithDefaults` and `prependTagToImage` as operators over
   bounded strings, checked against the spec's reference definition.
4. `ResourceLimits` (**done**): `memoryLimits`, `settingOrDefault` and the clamp, for the
   build pipeline and for the deploy pipeline.
5. `ScriptAssembly` (**done**): the tool section, the sequential placeholder substitution,
   and the `additionalPackages` loop.
6. `DiagnosticArtifacts` (**done**): `doSubstitution` ordering (string parameters before
   `CACHE_URL`) against the spec 4.4 reference, `extractArrayParam`, `extractEnvVar`, the
   diagnostic and Konflux artifacts, and the heredocs the pre-build steps write them with.
7. `DeployPipeline`: the tag pipeline, and whether its parameter references are declared
   (its resources are done, in `ResourceLimits`).
8. `TaskExecution` refines `PipelineRun`: step-level execution (each step of each task,
   results written by specific steps) shown to implement the task-level abstract run,
   through `INSTANCE ... WITH`.
9. `RecipeRepository` (**done**): double-checked-locking `doUpdate` with concurrent readers. Checks:
   at most one pull per interval; a read overlapping a pull.
10. `S3Deploy` (**done**): concurrent `deployArchive` with create-bucket and retry, and partial
    deployment.
11. `BuildViewFetch` (**done**): the dashboard's fetch-on-change with out-of-order responses, and a
    rebuild that writes back a stale `build`.

## 3. What is modelled now

### PipelineGraph (`PipelineGraph.tla`, `MC_PipelineGraph.tla`)

**Variables.**

- The inputs of the call: `existingImages`, `recipeImage`, `recipeTool`, `containerBuilds`.
- `pc` names the next block of the function.
- `tasks` is `ps.Tasks`. Each task is a record holding:
  - `declares`: the ParamSpecs of its TaskSpec;
  - `results`: its TaskResults;
  - `params`: its bindings;
  - `uses`: the `$(params.x)` and `$(tasks.t.results.r)` references inside its step
    scripts and environment;
  - `runAfter`.
- `results` is `ps.Results`.
- `params` is `ps.Params`.
- `i` is the index of the fan-out loop.

A parameter value is abstracted to what the properties tell apart: a literal, a string
reference, an array reference (`[*]`) or a result reference.

**Actions.**

- `ResolvePreBuildImage` (lines 359-368).
- `AddPreBuildTask` and `SkipPreBuildTask` (374-453).
- `AddRemoteBuildTask` (455-529) and `AddEmbeddedBuildTask` (530-620).
- `AddPostBuildTask` (622-680).
- `FanOutParam`: one iteration of 682-704. It keeps the code's 0-based `index`
  arithmetic.
- `Return` (706).

The thirteen pipeline parameters are the literal list of lines 342-356.

The remote buildah-oci-ta task is outside the repository. It is assumed to declare the
five parameters the code binds on it, and to produce the `IMAGE_URL` and `IMAGE_DIGEST`
results named in the comment on lines 525-527.

**Bounds.** There is one builder image, two tools and one cached image. The index
therefore ranges over every map from the two (image, tool) keys to {cached, absent}. This
covers four cases: a hit on the recipe's own key, a hit on the other tool's key only, a
full miss, and both. These are combined with both values of `containerBuilds`: 16 inputs
and 304 states. The function is deterministic once its inputs are chosen, so this
enumerates every shape the graph can take. `CHECK_DEADLOCK FALSE` is set because the
function returns: the final state has no successor.

**Runs.**

- `graph_pass` checks three properties.
  - `CacheShortCircuit`: spec §4.6 and §8.
  - `ResultReferencesResolve`: runAfter is a DAG, and every `$(tasks..results..)` that a
    task binds or uses names an ancestor that declares the result. There is exactly one
    build task, post-build comes after it, and every task result is exported once and
    resolves.
  - `FanOutComplete`: every parameter a task declares is bound exactly once, with the
    encoding of its type. This is about the positional `ps.Tasks[index]` loop.
- Spec §3 says that parameters are fanned "to exactly the stages that declare them". With
  container builds, however, the loop binds all thirteen pipeline parameters on the remote
  buildah task, which declares none of them. TLC finds this as soon as "no task is given
  a parameter it does not declare" is checked. Tekton ignores the extra parameters, so no
  run keeps the check, and it is listed as a hazard.


### PipelineRun (`PipelineRun.tla`, `MC_PipelineRun.tla`)

This module composes three actors:

- the reconciler, which is not in `src/` and is therefore spec-modelled (`StartAttempt`,
  `FinishAttempt`);
- the generator's cache lookup (`LookupKey`, `Deps`, and the lookup inside
  `StartAttempt`);
- Tekton running the generated tasks.

**Variables.**

- `attempt`, `recipe` and `phase` describe the reconciler.
- `existingImages` is the index, from (image, tool) to a pre-build archive.
- `registry` holds the archives that have been pushed.
- `status` holds each task's Tekton state.
- `sourceRef` is the value bound to the build's `PRE_BUILD_IMAGE_DIGEST`.
- `digestResult` is the pre-build task's result.
- `restored` and `executed` are the archive the build restored and the `build.sh` it ran.

An archive is content-addressed, so it is the record of what it holds: the builder image,
the tool whose preprocessor ran, and the `build.sh`.

**Actions.**

- `StartAttempt(r)`: the first attempt, or a new one after a failed PipelineRun. It does
  the lookup of lines 362-368.
- `StartPreBuild` and `CompletePreBuild`. Completing writes `build.sh` (391), copies it
  into `.jbs` (866) and pushes the archive (867).
- `StartBuild`: restores the bound archive and runs its `build.sh` (540-563).
- `CompleteBuild`, `StartPostBuild` and `CompletePostBuild`.
- `FailTask(t)`: a step fails, or a Timeout fires.
- `SkipTask(t)`: a runAfter predecessor did not succeed.
- `FinishAttempt`: the reconciler records the pre-build image under the recipe's key.

**Fairness.** Weak fairness applies to Tekton starting ready tasks and skipping blocked
ones, and to each running task ending, by success or failure. Build and post-build have a
Timeout (lines 551, 602, 668). The pre-build task has none (line 437), so its ending rests
on the PipelineRun timeout that Tekton applies by default. Weak fairness also applies to
the reconciler reacting to a finished run. Starting a new attempt is not fair.

**Bounds.** There is one image and two tools. There are three recipes: two maven recipes
that differ only in `build.sh` (as when a recipe's pre-build or post-build script, or its
additional downloads, change) and one gradle recipe. `MaxAttempts` is 3, so a pipeline
with a cache hit can follow one or two failures. The run reaches 485 states.
`CHECK_DEADLOCK FALSE` is set because the reconciler really stops: after a success, or
after the last attempt.

**Runs.**

- `run_pass` checks `TypeOK` and two properties.
  - `RestoresMatchingArchive`: the restored archive is in the registry and was prepared
    with this attempt's image and tool.
  - `AttemptTerminates`: every PipelineRun ends.
- `run_stale_script` (violation) checks `BuildRunsGeneratedScript`. The trace runs as
  follows:
  1. Attempt 1 (maven, s1): the pre-build succeeds, the build fails and the archive is
     recorded.
  2. Attempt 2 (maven, s2) hits the index.
  3. Its build runs s1.

  The cache key `recipe.Image + "-" + recipe.Tool` leaves out everything else that goes
  into `build.sh`. In container mode it also leaves out `run-build.sh`, with its tool
  versions and goals.

### RegistryAddress (`RegistryAddress.tla`, `MC_RegistryAddress.tla`)

`registryArgsWithDefaults` (lines 900-932) and `prependTagToImage` (971-991) are
operators; one `Resolve` action is one call. A string is a sequence of tokens. The tag
and the prefix are sequences of single characters, so `len` and the 128-byte cut are
measured as Go measures them. Host, port, owner and repository are one token each,
because only emptiness and the default port 443 matter. `TagMax` stands for 128.

The reference definition `SpecAddress` is written from spec 4.2: defaults, the port rule,
`prefix_suffix` (the suffix alone for an empty prefix), cut to exactly `TagMax`, and the
same rule after a colon.

**Bounds.** `TagMax` is 3, prefixes have 0 to 2 characters and tags 0 to 3, so the
prefixed tag is shorter than, equal to and longer than `TagMax`. Every combination of
empty and set host, port (none, 443, 5000), owner and repository is enumerated. The
pass run reaches 2160 states.

**Runs.**

- `address_pass` checks `TypeOK` (the part after the last colon is at most `TagMax`)
  and `ResolvesAsSpecified` over tags made of `a` and `-`, the characters of the tags
  the callers pass (names and build ids never contain a colon).
- With `:` added to the tag characters, TLC finds `ResolvesAsSpecified` violated: with
  an empty prefix and a colon, line 977 yields `_suffix`, while without a colon the tag
  is left alone. No run keeps that input, since no caller in this file passes a colon;
  it is listed as a hazard.

### ResourceLimits (`ResourceLimits.tla`, `MC_ResourceLimits.tla`)

**Variables.** `override`, `recipeMemory` and `maxMemory` are the inputs.
`additionalMemory` is the clamped value (206-210). `k` is the next of the six fields
`memoryLimits` parses (764-799). `limits` holds the parsed quantities and the copy
`buildRequestMemory`. `resources` is the request and the limit of every step that sets
`ComputeResources`. Memory is a record `[mi]`, CPU a record `[milli]`.

**Actions.** `Clamp`; `ParseSetting`, one `ParseQuantity(settingOrDefault(...))` with its
early return, after which `createPipelineSpec` returns the error (336-339);
`AddAdditional`, the copy and the two `Add` calls; and `AssignSteps`, where each step
gets one quantity as both its request and its limit.

`pipeline` says which generator runs. `createPipelineSpec` starts with the clamp.
`createDeployPipelineSpec` calls `memoryLimits(jbsConfig, 0)` at once (66-71), returns its
error, and gives its `maven-deployment` step `defaultBuildRequestMemory` as request and
limit (107-115, `DeployStepMemory`).

**Bounds.** Each memory field is empty, blank, bad or set. A bad setting is tried in the
first and in the last field parsed. The additional memory is 0, 256 or 2048 against no
ceiling and 1024. Both pipelines are generated. The pass run reaches 1656 states.

**Runs.**

- `limits_pass` checks `TypeOK` and two properties.
  - `ParseErrorAborts`: generation fails exactly when one of the six settings is bad.
  - `MemoryAsSpecified`: each step's request is its setting or default, plus the
    clamped additional memory on the steps spec 4.1 names.
- Steps use one quantity for a step's memory request and its limit (e.g. 559-560), so
  the raised steps' limits grow with their requests. Spec 4.1's "not to limits" is about
  the calculator's outputs, whose only limits are the CPU limits, which
  `AddAdditional` leaves alone; a limit kept at its base under a raised request would be
  a pod Kubernetes rejects. So this is not checked as a divergence.

### ScriptAssembly (`ScriptAssembly.tla`, `MC_ScriptAssembly.tla`)

A script is a sequence of commands whose `op` says what the command does when the script
runs: install a package, fail (`echo ... ; exit 1`), build with a tool, or a `{{NAME}}`
placeholder left in the text. The entry template (`scripts/build-entry.sh`) is not in
this repository, so `EntryScript` is spec-modelled as one line per placeholder.

**Actions.** `AddPackage` is one iteration of the `additionalPackages` loop (803-835),
with its overwrite of `install` on a bad package and its `break` on an unknown type.
`PackagesDone` ends the loop. `AssembleBuild` prepends the keystore preamble and does the
four successive `strings.ReplaceAll` calls (253-256), modelled by `ReplaceAllOf`, which
replaces every marker and does not rescan what it inserted.

**Reference.** `SpecInstall` is written from spec 4.3: the packages up to the first of
an unknown type, each giving its install line or, when it is invalid, one failing line
in its place. `Run` folds `Exec` over a script to say what the script does when it runs:
commands run in order until the first failing one, and hook lines are no-ops.

**Bounds.** The tools are maven, sbt and an unknown one. There are up to two downloads,
each of the three known types or an unknown type, with and without its required field.
Hooks are empty, a user line, or a line holding a placeholder. The pass run reaches
10503 states.

**Runs.**

- `script_pass` checks `TypeOK` and `FailsAtRunTimeIffInvalid`: the assembled script
  fails before the build exactly when the tool is unknown or a package is invalid, and
  otherwise installs every package and builds.
- `script_install_overwrite` (violation) checks `InstallAsSpecified`: the install lines
  are `SpecInstall`. A bad package of a known type gets the failing line assigned to
  `install` (806, 811, 816), which discards the lines of the packages before it, and then
  its own template appended (834). TLC's shortest trace is a single `tar` package
  without its field. The script still fails at run time, so `script_pass` holds; what
  is lost is the earlier packages' lines and, with several bad packages, the report of
  all but the last. This is a finding (spec-code divergence).
- The successive `ReplaceAll` calls also replace a `{{POST_BUILD_SCRIPT}}` that sits
  inside the pre-build hook, where spec 4.3 substitutes each placeholder once. `Run`
  treats hook lines as no-ops, so no run sees this; it is a hazard without a property.

### DiagnosticArtifacts (`DiagnosticArtifacts.tla`, `MC_DiagnosticArtifacts.tla`)

This module covers the text `createPipelineSpec` derives from the assembled build script:
- `doSubstitution` (1037-1048), `extractArrayParam` (1014-1027) and `extractEnvVar`
  (1029-1035);
- what the diagnostic Dockerfile embeds and the Konflux Containerfile (257-331);
- `createBuildScript` and `createKonfluxScripts` (732-750), through which the
  `git-clone-and-settings` and `create-pre-build-source` steps (391, 421) write
  `build.sh`, the Containerfile and `run-build.sh` with `tee <<'RHTAPEOF'`.

A script is a sequence of lines, and a line a sequence of tokens. A token is a word, a
`$(params.X)` or `$(workspaces.X.path)` reference, a local path, or the loopback cache
URL. A parameter value is a token sequence, so it can hold a reference. Base64
embedding decodes to what it encoded, so an embedded script is that script. The
substitutions are recursive operators that build sequences eagerly.

**Actions.** `Scripts` (263-270) computes the substituted build script, the exports, the
goals and `run-build.sh`: shebang, exports, a blank line, `set -- "$@"` with the goals
as one word, a blank line, the script. `Dockerfile` (274-299), `Containerfile` (300-331, with the ant
stage) and `Steps` (the two step scripts) follow; the Dockerfile's `run-full-build.sh`
is the shebang, the preprocessor, the exports, a blank line and `build.sh` with the
goals. Only the tool variables of 189-200 are exported in the model; the four fixed
ones of 201-204 are the same in both files and left out.

**Reference.** `Sh` is how `sh` runs a step script. A `tee` heredoc line sends the
following lines into its file, up to the first line that is exactly the delimiter; every
other line is executed. `SpecSubstitution` is spec 4.4: every reference is replaced at
once, the cache URL always by the loopback URL, and array parameters are left alone.

**Bounds.** Build scripts have the keystore line and up to two more lines. The lines
reference a string parameter, the `GOALS` array, `CACHE_URL` and the source workspace.
Parameter lists are empty, or hold the string and array parameters in different orders.
The tools are maven and ant. The pass run reaches 2080 states.

**Runs.**

- `diag_pass` checks `TypeOK` (no workspace reference survives) and three properties:
  - `BuildShAsAssembled`: the step writes exactly the assembled `build.sh` and runs
    only the clone and the `chmod`.
  - `ArtifactsAgree`: the step writes exactly the Konflux Containerfile, and a
    `run-build.sh` with the same exports and substituted script as the diagnostic
    Dockerfile.
  - `SubstitutionAsSpecified`: the diagnostic `build.sh` and `CACHE_URL` are as spec 4.4
    says.
- `diag_heredoc_delimiter` (violation) adds a recipe hook line that is exactly
  `RHTAPEOF`. `build.sh` is cut there, and the lines after it run as commands of the
  `git-clone-and-settings` step, which runs as user 0.

With a string `CACHE_URL` in `paramValues`, `SubstitutionAsSpecified` fails: the
parameter loop substitutes it before the loopback rewrite. This is recorded as a hazard
because the reconciler that builds `paramValues` is not in this repository.

### RecipeRepository (`RecipeRepository.tla`, `MC_RecipeRepository.tla`)

`RecipeRepositoryManager` (`src/.tekton/cli-pull-request.yaml`, lines 39-141) keeps the
recipe database in a local git clone. Each lookup calls `doUpdate` and then reads the
layout of the working tree without the monitor. `doUpdate` is double-checked locking on
the volatile `lastUpdate`.

**Variables.** `now` is `System.currentTimeMillis()` in ticks. `interval` is
`updateInterval`, or `NoInterval` for `Optional.empty()`. `lastUpdate` and `holder` (the
thread inside `synchronized (this)`) are shared. `remote` is the version of the remote
branch. `tree` is the version checked out, or `Updating` while a checkout rewrites it.
Each thread has a `pc`, the version its pull `fetched`, what its last read has `seen`,
and its number of `calls`.

**Actions.**

- `Call(t)`: the lookup and the unlocked test (113-116).
- `Acquire(t)`: entering the monitor (117).
- `Recheck(t)`: the locked test (118); when the data is fresh, the monitor is left.
- `Fetch(t)`: the fetch of `git.pull()`. Either it succeeds and the checkout starts, or
  a `GitAPIException` becomes a `RuntimeException` that leaves the monitor with
  `lastUpdate` untouched (119-123).
- `PullDone(t)`: the checkout ends, `lastUpdate = now` (124), and the monitor is left.
- `Read(t)`: the layout read (97, 103, 109).
- `Tick` and `Push` are the environment: the clock advances and someone pushes recipes.

**Bounds.** There are two threads with two lookups each. The interval is one tick or
absent. The clock runs to 4, so the data expires more than once. The remote moves once.
The run reaches 4258 states. `CHECK_DEADLOCK FALSE` is set because the callers may stop
making lookups at any point.

**Runs.** `repo_pass` checks `TypeOK` and two properties.

- `PullsSpacedByInterval` (an action property): `lastUpdate` only moves when more than
  an interval has passed since it last moved, however many threads found the data
  expired at once. Dropping the locked re-test breaks it.
- `TreeCompleteOutsideLock`: whenever no thread holds the monitor, the tree is a
  complete checkout.
**No liveness.** `git.pull()` runs with no timeout (120), so nothing in the code makes
a lookup end: a pull that hangs keeps the monitor and every thread that finds the data
expired waits at 117. Fairness that made git answer would be an assumption the code does
not back, and `synchronized` is left on every exception path by Java itself, so a
"every lookup returns" property would hold by assumption. The model has safety only.

`git.pull()` returns a `PullResult` that the code never checks. If a merge fails (for
example on a force-pushed branch), the old recipes stay in place and `lastUpdate` is still
set. The model's pull is a fetch followed by a checkout of the fetched version, so this
case is recorded as a hazard.

A read during a pull is reachable: a thread whose unlocked test found the data fresh
reads while another thread's checkout rewrites the tree. No code comment or spec
promises consistent reads, so this is recorded as a hazard, not a property.

### S3Deploy (`S3Deploy.tla`, `MC_S3Deploy.tla`)

`S3Deployer.deployArchive` (`repositories.gradle` 110-141). The bean is
`@ApplicationScoped`, so several calls can run at once on one client. Each call is a
`Deployer` with its archive, a sequence of entry names. The tar and gzip decoding is
abstracted to that sequence.

**Variables.** `bucket` is whether the deployment bucket exists. Init chooses it, since the
comment at 131 says it is "normally" created on startup. `idempotent` is whether
`createBucket` of an existing own bucket succeeds (us-east-1) or throws
`BucketAlreadyOwnedByYou` (other regions). `objects` is the set of keys in the bucket.
`pc` and `next` are each call's position, and `faults` counts the S3 calls that failed for
reasons of their own.

**Actions.** `NextEntry` is `getNextTarEntry`, where null returns. `Put` is the first
`putObject`: it stores the entry under `TargetPath` (the name with `./` stripped), or goes
to the catch block on a missing bucket. `CreateBucket` creates the bucket. If another call
created it in between and the call is not idempotent, it throws. `Retry` is the second
`putObject`, outside any try. `Fault` is any S3 call failing, which leaves the method.

**No liveness.** The entry loop is bounded by the archive, so the termination of a call
is not a question worth a run; a call that fails on `BucketAlreadyOwnedByYou` ends too,
so termination would not tell that race apart. The model has no fairness.

**Bounds.** There are two concurrent calls. One archive has an entry named with `./` and
one without. The other archive shares a key with the first, as two archives of one
artifact do. At most one fault is allowed. The bucket is present or missing, and
`createBucket` is idempotent or not. The run reaches 165 states, and every branch fires,
including the `BucketAlreadyOwnedByYou` race.

**Runs.** `s3_pass` checks two properties.

- `TypeOK`: no key keeps the `./`.
- `ReturnsOnlyWhenDeployed`: a call that returns has put every entry of its archive,
  including entries that went through create-and-retry while the other call raced on the
  bucket.

The race at 132 makes a call fail without any S3 fault of its own. The code declares
`throws Exception` and promises nothing more, so this is a hazard, not a run. So is the
partial deployment a failed call leaves behind.

### BuildViewFetch (`BuildViewFetch.tla`, `MC_BuildViewFetch.tla`)

The dashboard's build page, `BuildView` (`src/unnamed/part_001` 223-306). Each change of
the route's `name` runs the effect at 259-272: state goes to `loading` and
`getBuild(name)` starts. Its response sets `success` and the build; its rejection sets
`error`. Nothing cancels the request of a previous name or ignores its answer. The
Rebuild button (393) is shown in any other state. `rebuild` posts `build.name` (298-299)
and, when the POST resolves, writes back the build it captured at the click with
`inQueue` set (300-305).

| Code | Model |
|---|---|
| `name`, `state`, `build` hooks | `name`, `state`, `build` (a build is its name and `inQueue`) |
| `getBuild` promises pending | `gets`, a set, answered in any order |
| POST promises pending | `posts`, the builds captured at the clicks |
| effect on `[name]` | `Navigate(n)` |
| `.then` / `.catch` of `getBuild` | `GetResolves(n)` / `GetFails(n)` |
| Rebuild click / its `.then` | `Rebuild` / `PostResolves(b)` (a rejected POST has no catch: no change) |
| server build queue | `queued`, `Dequeue(n)` (spec-modelled: the server is not in this repository) |

**Bounds.** Two build names, and at most three navigations and clicks in all
(`MaxClicks`). A stale response needs one navigation, a stale write-back a click and a
navigation. The model has no fairness: a page may sit idle, and the only question is a
safety one, so `CHECK_DEADLOCK` is off.

**Run.** `buildview_stale_response` (violation) checks `ShowsCurrentBuild`: once the page
has left `loading`, the build shown is the one of the route's name. TLC finds it
violated in two steps. The user opens one build and moves to the other before the first
response arrives. That late response then sets `success` with the first build under the
second build's URL (which of `b1`, `b2` comes first depends on the initial state TLC
picks).
The same holds for a rebuild POST that resolves after a navigation: it writes back the
old build. This is a finding (code bug).

`DeploymentList` and `BuildAttempt` are not modelled. `DeploymentList` does one fetch on
mount and renders a list. `BuildAttempt`'s approve button is disabled only once the
response has set `prUrl`, so a second click sends the approval twice. What a repeated
approval does is decided by the server, which is not in this repository, so this is a
hazard without a property.

## 4. Not modelled (yet) and why

- The dashboard's `DeploymentList` and `BuildAttempt` views (see `BuildViewFetch`).
- `DeployPipeline` is modelled only for its resources, in `ResourceLimits`. Its tag task
  binds `$(params.IMAGE)` and `$(params.PRE_BUILD_IMAGE_DIGEST)` (lines 131-135), but the
  pipeline declares only `IMAGE_DIGEST` (line 128). Whether Tekton accepts this depends on
  its validation and on the PipelineRun the reconciler creates. Neither is in this
  repository, so the graph is not modelled.
- `TaskExecution` is planned for a later sitting.
- Which parameters the reconciler puts in `paramValues` is not in this repository, so
  the `CACHE_URL` override of `doSubstitution` is a hazard, not a run.
- `RecipeRepositoryManager.toString` is formatting.
- `ImageResource`, `ExternalProxyEndpoint`, the deploy shell script and the CI
  `PipelineRun` YAML are not modelled. They are stateless request handlers or
  configuration, with no control a model checker adds to a unit test.
- Formatting of the Dockerfile and the YAML layout is abstracted away.
