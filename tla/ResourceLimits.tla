--------------------------- MODULE ResourceLimits ---------------------------
(***************************************************************************)
(* The memory and CPU quantities of createPipelineSpec                     *)
(* (pkg/reconciler/dependencybuild/buildrecipeyaml.go): the clamp of the   *)
(* recipe's additional memory (206-210), memoryLimits (764-799) with       *)
(* settingOrDefault (1050-1055), the early return on a parse error         *)
(* (336-339), and the Requests/Limits each step of the generated tasks is  *)
(* given (388-656); and the same for createDeployPipelineSpec (63-153),    *)
(* which calls memoryLimits with no additional memory.  Memory is in Mi and CPU in millicores; a setting is   *)
(* empty, blank, unparseable, or a quantity.                               *)
(***************************************************************************)
EXTENDS Naturals, Sequences, TLC

CONSTANTS
    Overrides,           \* possible BuildSettings: functions Keys -> setting values
    AdditionalMemories,  \* possible recipe.AdditionalMemory
    MaxMemories,         \* possible systemConfig.Spec.MaxAdditionalMemory
    Empty, Blank, Bad    \* "", whitespace only, and a string ParseQuantity rejects

\* The BuildSettings fields memoryLimits parses, in the order it parses them
Keys == <<"TaskRequestMemory", "BuildRequestMemory", "TaskRequestCPU",
          "TaskLimitCPU", "BuildRequestCPU", "BuildLimitCPU">>
\* A memory quantity in Mi and a CPU quantity in millicores
Mi(n)    == [mi |-> n]
Milli(n) == [milli |-> n]
\* Their defaults: 512Mi, 1024Mi, 10m, 300m, 300m, 2
Defaults == [TaskRequestMemory |-> Mi(512), BuildRequestMemory |-> Mi(1024),
             TaskRequestCPU |-> Milli(10), TaskLimitCPU |-> Milli(300),
             BuildRequestCPU |-> Milli(300), BuildLimitCPU |-> Milli(2000)]
KeySet == {Keys[n] : n \in 1..Len(Keys)}

\* Mutant: the build step's memory is taken from the build CPU request
StepMemoryBuildCpu ==
    [git_clone_and_settings |-> "TaskRequestMemory",
     preprocessor |-> "TaskRequestMemory",
     create_pre_build_source |-> "BuildRequestMemory",
     create_pre_build_image |-> "BuildRequestMemory",
     build |-> "BuildRequestCPU",
     deploy_ant_artifacts |-> "BuildRequestMemory",
     verify_and_check_for_contaminates |-> "BuildRequestMemory"]

\* The steps that set ComputeResources, and the memLimits field whose
\* quantity is both their memory request and their memory limit
StepMemory ==
    [git_clone_and_settings |-> "TaskRequestMemory",     \* 388-389
     preprocessor |-> "TaskRequestMemory",               \* 406-407
     create_pre_build_source |-> "BuildRequestMemory",   \* 418-419
     create_pre_build_image |-> "BuildRequestMemory",    \* 430-431
     build |-> "buildRequestMemory",                     \* 559-560
     deploy_ant_artifacts |-> "BuildRequestMemory",      \* 572-573
     verify_and_check_for_contaminates |-> "BuildRequestMemory"]  \* 655-656
\* The one step of the deploy pipeline's tag task that sets ComputeResources
DeployStepMemory ==
    [maven_deployment |-> "BuildRequestMemory"]          \* 113-114
NoSteps == [s \in {} |-> 0]

VARIABLES
    pipeline,         \* which generator runs: createPipelineSpec or createDeployPipelineSpec
    override,         \* jbsConfig.Spec.BuildSettings
    recipeMemory,     \* recipe.AdditionalMemory
    maxMemory,        \* systemConfig.Spec.MaxAdditionalMemory
    additionalMemory, \* after the clamp
    k,                \* the next field memoryLimits parses
    limits,           \* memLimits: Keys and "buildRequestMemory" -> quantity
    resources,        \* step -> [request, limit] memory, once the tasks are built
    pc

vars == <<pipeline, override, recipeMemory, maxMemory, additionalMemory, k, limits, resources, pc>>

\* The steps of the pipeline being generated
PipelineStepMemory == IF pipeline = "build" THEN StepMemory ELSE DeployStepMemory

\* Lines 1050-1055
SettingOrDefault(setting, def) == IF setting \in {Empty, Blank} THEN def ELSE setting

(* createPipelineSpec starts with the clamp; createDeployPipelineSpec     *)
(* calls memoryLimits(jbsConfig, 0) at once (66).                          *)
Init ==
    /\ pipeline \in {"build", "deploy"}
    /\ override \in Overrides
    /\ recipeMemory \in AdditionalMemories
    /\ maxMemory \in MaxMemories
    /\ additionalMemory = IF pipeline = "build" THEN recipeMemory ELSE 0
    /\ k = 1
    /\ limits = [f \in {} |-> 0]
    /\ resources = NoSteps
    /\ pc = IF pipeline = "build" THEN "clamp" ELSE "parse"

\* Mutant: the recipe's memory is passed to memoryLimits unclamped
ClampAfterUse ==
    /\ pc = "clamp"
    /\ pc' = "parse"
    /\ UNCHANGED <<pipeline, override, recipeMemory, maxMemory, additionalMemory, k, limits, resources>>

\* Lines 206-210: clamp only when a positive maximum is configured
Clamp ==
    /\ pc = "clamp"
    /\ additionalMemory' = IF maxMemory > 0 /\ recipeMemory > maxMemory
                           THEN maxMemory ELSE recipeMemory
    /\ pc' = "parse"
    /\ UNCHANGED <<pipeline, override, recipeMemory, maxMemory, k, limits, resources>>

\* Mutant: the error of the last ParseQuantity is not checked; the zero Quantity is kept
ParseSettingNoLastCheck ==
    LET key == Keys[k]
        s   == SettingOrDefault(override[key], Defaults[key])
    IN  /\ pc = "parse"
        /\ IF s = Bad /\ k < Len(Keys)
           THEN /\ pc' = "error"
                /\ UNCHANGED <<k, limits>>
           ELSE /\ limits' = limits @@ (key :> IF s = Bad THEN [u \in DOMAIN Defaults[key] |-> 0] ELSE s)
                /\ k' = k + 1
                /\ pc' = IF k = Len(Keys) THEN "add" ELSE "parse"
        /\ UNCHANGED <<pipeline, override, recipeMemory, maxMemory, additionalMemory, resources>>

(* One resource.ParseQuantity(settingOrDefault(...)) of lines 767-790;    *)
(* an error returns nil and createPipelineSpec returns it (336-339).      *)
ParseSetting ==
    LET key == Keys[k]
        s   == SettingOrDefault(override[key], Defaults[key])
    IN  /\ pc = "parse"
        /\ IF s = Bad
           THEN /\ pc' = "error"
                /\ UNCHANGED <<k, limits>>
           ELSE /\ limits' = limits @@ (key :> s)
                /\ k' = k + 1
                /\ pc' = IF k = Len(Keys) THEN "add" ELSE "parse"
        /\ UNCHANGED <<pipeline, override, recipeMemory, maxMemory, additionalMemory, resources>>

(* Lines 792-797: buildRequestMemory is a copy of defaultBuildRequestMemory; *)
(* a positive additional memory is added to it and to defaultRequestMemory. *)
AddAdditional ==
    LET extra == IF additionalMemory > 0 THEN additionalMemory ELSE 0 IN
    /\ pc = "add"
    /\ limits' = [limits EXCEPT !["TaskRequestMemory"] = Mi(@.mi + extra)]
                 @@ ("buildRequestMemory" :> Mi(limits["BuildRequestMemory"].mi + extra))
    /\ pc' = "assign"
    /\ UNCHANGED <<pipeline, override, recipeMemory, maxMemory, additionalMemory, k, resources>>

\* The ComputeResources of the steps built in lines 374-680, or in 107-115
AssignSteps ==
    LET sm == PipelineStepMemory IN
    /\ pc = "assign"
    /\ resources' = [s \in DOMAIN sm |-> [request |-> limits[sm[s]],
                                          limit   |-> limits[sm[s]]]]
    /\ pc' = "done"
    /\ UNCHANGED <<pipeline, override, recipeMemory, maxMemory, additionalMemory, k, limits>>

Next == Clamp \/ ParseSetting \/ AddAdditional \/ AssignSteps

Spec == Init /\ [][Next]_vars

-----------------------------------------------------------------------------
(* Reference, spec 4.1 and 8: each field is its override or, when that is *)
(* empty or blank, its default; the additional memory is clamped to the    *)
(* system ceiling (0 meaning none is configured) and added to the          *)
(* build-stage and the default request memory.                             *)

Base(f) == SettingOrDefault(override[f], Defaults[f])
Capped  == IF maxMemory > 0 /\ recipeMemory > maxMemory THEN maxMemory ELSE recipeMemory
Extra   == IF pipeline = "build" THEN Capped ELSE 0
BaseField(s) == IF PipelineStepMemory[s] = "buildRequestMemory" THEN "BuildRequestMemory"
                ELSE PipelineStepMemory[s]
Raised(s) == PipelineStepMemory[s] \in {"TaskRequestMemory", "buildRequestMemory"}

-----------------------------------------------------------------------------
(* Properties.                                                             *)

TypeOK ==
    /\ pipeline \in {"build", "deploy"}
    /\ override \in Overrides
    /\ additionalMemory \in AdditionalMemories \cup MaxMemories
    /\ k \in 1..Len(Keys) + 1
    /\ pc \in {"clamp", "parse", "add", "assign", "done", "error"}
    /\ resources \in [DOMAIN PipelineStepMemory -> [request : [mi : Nat], limit : [mi : Nat]]] \/ resources = NoSteps

(* Spec 4.4: a setting ParseQuantity rejects aborts generation, whichever  *)
(* of the six it is, and generation succeeds when all six parse: no       *)
(* pipeline is built with a zero quantity in place of a bad setting.       *)
ParseErrorAborts ==
    pc \in {"done", "error"} =>
        (pc = "error" <=> \E key \in KeySet : Base(key) = Bad)

(* Spec 4.1 and 8: in the generated tasks every step's memory request is   *)
(* its setting or default, plus the additional memory clamped to the       *)
(* ceiling for the steps on defaultRequestMemory and the build step, and   *)
(* nothing for the steps on defaultBuildRequestMemory; the deploy          *)
(* pipeline, which has no recipe, adds nothing.                            *)
MemoryAsSpecified ==
    pc = "done" =>
        \A s \in DOMAIN PipelineStepMemory :
            resources[s].request = Mi(Base(BaseField(s)).mi + (IF Raised(s) THEN Extra ELSE 0))

=============================================================================
