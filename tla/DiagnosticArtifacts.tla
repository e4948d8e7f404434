------------------------- MODULE DiagnosticArtifacts -------------------------
(***************************************************************************)
(* The script text createPipelineSpec                                      *)
(* (pkg/reconciler/dependencybuild/buildrecipeyaml.go) derives from the    *)
(* assembled build script: doSubstitution (1037-1048), extractArrayParam   *)
(* (1014-1027) and extractEnvVar (1029-1035) feeding the diagnostic        *)
(* Dockerfile and the Konflux Containerfile and run-build.sh (257-331),    *)
(* and createBuildScript and createKonfluxScripts (732-750), the heredocs  *)
(* through which the pre-build task's steps write build.sh, the            *)
(* Containerfile and run-build.sh (391, 421).                              *)
(*                                                                         *)
(* A script is a sequence of lines, a line a sequence of tokens: a word,   *)
(* a $(params.NAME) or $(workspaces.NAME.path) reference, a local path or  *)
(* the loopback cache URL.  A parameter value is a sequence of tokens, so  *)
(* it may itself hold a reference.  The heredoc delimiter RHTAPEOF is a    *)
(* line of one word.  Base64 embedding in the Dockerfile decodes to the    *)
(* bytes it encoded, so an embedded script is that script.                 *)
(***************************************************************************)
EXTENDS Naturals, Sequences, SequencesExt

CONSTANTS
    Builds,          \* possible assembled build scripts
    ParamLists,      \* possible paramValues
    Tools,           \* possible tool arguments
    VersionedTools   \* tools recipe.ToolVersions may name

Tok(k, v)   == [k |-> k, v |-> v]
W(v)        == Tok("word", v)
P(n)        == Tok("param", n)
WsRef(n)    == Tok("ws", n)
Path(n)     == Tok("path", n)
Loopback    == Tok("url", "loopback")
Delimiter   == <<W("RHTAPEOF")>>
TeeLine(f)  == <<W("tee"), W(f), W("<<'RHTAPEOF'")>>
Chmod(f)    == <<W("chmod"), W(f)>>
Keystore    == <<W("install-keystore-into-brp")>>

\* Lines 839-851: the clone and reset; the private-repository and submodule
\* branches add words with no references
GitScript == <<W("git-clone"), P("SCM_URL"), WsRef("source"), P("SCM_HASH")>>

\* Lines 189-200: the variables (*_HOME, SBT_DIST) of the tools with a version,
\* in this order; the four fixed variables of 201-204 are left out (data)
ToolEnv(versions) ==
    SelectSeq(<<"maven", "gradle", "ant", "sbt">>, LAMBDA x : x \in versions)

\* Every occurrence of token tok in a line, or in each line of a script,
\* replaced by the tokens by; the inserted tokens are not rescanned
RECURSIVE ReplaceInLine(_, _, _)
ReplaceInLine(l, tok, by) ==
    IF l = <<>> THEN <<>>
    ELSE (IF Head(l) = tok THEN by ELSE <<Head(l)>>) \o ReplaceInLine(Tail(l), tok, by)

RECURSIVE ReplaceToken(_, _, _)
ReplaceToken(script, tok, by) ==
    IF script = <<>> THEN <<>>
    ELSE <<ReplaceInLine(Head(script), tok, by)>> \o ReplaceToken(Tail(script), tok, by)

\* Mutant: the parameter's type is not checked
SubstituteParamAnyType(s, p) == ReplaceToken(s, P(p.name), p.str)

\* Lines 1039-1041: a string parameter's references become its value
SubstituteParam(s, p) ==
    IF p.type = "string" THEN ReplaceToken(s, P(p.name), p.str) ELSE s

\* Mutant: the $(workspaces.source.path) rewrite is missing
DoSubstitutionNoSourcePath(script, paramValues) ==
    LET s1 == FoldLeft(SubstituteParam, script, paramValues)
        s2 == ReplaceToken(s1, P("CACHE_URL"), <<Loopback>>)
        s3 == ReplaceToken(s2, WsRef("build-settings"), <<Path("build-settings")>>)
    IN  ReplaceToken(s3, WsRef("tls"), <<Path("tls")>>)

\* Lines 1037-1048: the string parameters in list order, then CACHE_URL, then
\* the three workspace paths, each a ReplaceAll over the text so far
DoSubstitution(script, paramValues) ==
    LET s1 == FoldLeft(SubstituteParam, script, paramValues)
        s2 == ReplaceToken(s1, P("CACHE_URL"), <<Loopback>>)
        s3 == ReplaceToken(s2, WsRef("build-settings"), <<Path("build-settings")>>)
        s4 == ReplaceToken(s3, WsRef("source"), <<Path("source")>>)
    IN  ReplaceToken(s4, WsRef("tls"), <<Path("tls")>>)

\* Lines 1014-1027: the array values of every parameter named key, each with
\* its parentheses removed and followed by a space
ExtractArrayParam(key, paramValues) ==
    LET named == SelectSeq(paramValues, LAMBDA p : p.name = key)
        arg(e) == SelectSeq(e, LAMBDA c : c \notin {"(", ")"}) \o <<" ">>
    IN  FlattenSeq([i \in 1..Len(named) |->
            FlattenSeq([j \in 1..Len(named[i].arr) |-> arg(named[i].arr[j])])])

\* Lines 1029-1035: one export line per variable, in order
ExtractEnvVar(env) == [i \in 1..Len(env) |-> <<W("export"), W(env[i])>>]

\* Mutant: the heredoc is not closed
CreateBuildScriptUnterminated(build) ==
    <<TeeLine("build.sh")>> \o build \o <<Chmod("build.sh")>>

\* Lines 732-738
CreateBuildScript(build) ==
    <<TeeLine("build.sh")>> \o build \o <<Delimiter, Chmod("build.sh")>>

\* Lines 740-750
CreateKonfluxScripts(containerfile, konfluxScript) ==
    <<<<W("mkdir"), W(".jbs")>>, TeeLine("Containerfile")>> \o containerfile
    \o <<Delimiter, TeeLine("run-build.sh")>> \o konfluxScript
    \o <<Delimiter, Chmod("run-build.sh")>>

\* Lines 303-331: the ant tool gets a stage on the build-request-processor
\* image; the last stage always copies the artifacts alone from scratch
KonfluxContainerfile(tool) ==
    << <<W("FROM"), W("recipe-image")>>, <<W("COPY"), W("run-build.sh")>>,
       <<W("RUN"), W("run-build.sh")>> >>
    \o (IF tool = "ant"
        THEN << <<W("FROM"), W("build-request-processor")>>,
                <<W("RUN"), W("copy-artifacts")>>,
                <<W("FROM"), W("scratch")>>, <<W("COPY"), W("--from=1")>> >>
        ELSE << <<W("FROM"), W("scratch")>>, <<W("COPY"), W("--from=0")>> >>)

KonfluxScriptHeader == <<W("#!/bin/sh")>>
\* set -- "$@" followed by the goals extractArrayParam gave, as one word
SetArgs(goals) == <<W("set"), W("--"), W("$@"), W(goals)>>

VARIABLES
    build,          \* the assembled build script (ScriptAssembly)
    paramValues,    \* the paramValues argument
    tool,           \* the tool argument
    toolVersions,   \* the tools recipe.ToolVersions gives a version
    buildScript,    \* doSubstitution(build, ...), 267
    envVars,        \* extractEnvVar(toolEnv), 268
    cmdArgs,        \* extractArrayParam(GOALS, ...), 269
    konfluxScript,  \* 270
    df,             \* what the diagnostic Dockerfile embeds, 276-299
    kf,             \* the Konflux Containerfile, 303-331
    steps,          \* the scripts of the two pre-build steps that write files
    pc

vars == <<build, paramValues, tool, toolVersions, buildScript, envVars, cmdArgs,
          konfluxScript, df, kf, steps, pc>>

Init ==
    /\ build \in Builds
    /\ paramValues \in ParamLists
    /\ tool \in Tools
    /\ toolVersions \in SUBSET VersionedTools
    /\ buildScript = <<>> /\ envVars = <<>> /\ cmdArgs = <<>> /\ konfluxScript = <<>>
    /\ df = [cacheUrl |-> <<>>, git |-> <<>>, buildSh |-> <<>>, runFull |-> <<>>]
    /\ kf = <<>>
    /\ steps = [gitClone |-> <<>>, preBuildSource |-> <<>>]
    /\ pc = "scripts"

\* Mutant: run-build.sh is given the unsubstituted build script
ScriptsUnsubstituted ==
    LET env   == ExtractEnvVar(ToolEnv(toolVersions))
        goals == ExtractArrayParam("GOALS", paramValues)
    IN
    /\ pc = "scripts"
    /\ buildScript' = DoSubstitution(build, paramValues)
    /\ envVars' = env
    /\ cmdArgs' = goals
    /\ konfluxScript' = <<KonfluxScriptHeader>> \o env \o <<<<>>, SetArgs(goals), <<>>>> \o build
    /\ pc' = "dockerfile"
    /\ UNCHANGED <<build, paramValues, tool, toolVersions, df, kf, steps>>

\* Lines 266-270: the substituted build script, the exports, the goals and
\* run-build.sh (shebang, exports, a blank line, set -- "$@" goals, a blank
\* line, the script)
Scripts ==
    LET env   == ExtractEnvVar(ToolEnv(toolVersions))
        goals == ExtractArrayParam("GOALS", paramValues)
        bs    == DoSubstitution(build, paramValues)
    IN  /\ pc = "scripts"
        /\ buildScript' = bs
        /\ envVars' = env
        /\ cmdArgs' = goals
        /\ konfluxScript' = <<KonfluxScriptHeader>> \o env \o <<<<>>, SetArgs(goals), <<>>>> \o bs
        /\ pc' = "dockerfile"
        /\ UNCHANGED <<build, paramValues, tool, toolVersions, df, kf, steps>>

\* Lines 276-299: ENV CACHE_URL, the git RUN line, and the embedded build.sh
\* and run-full-build.sh (preprocessor, exports, build.sh with the goals)
Dockerfile ==
    /\ pc = "dockerfile"
    /\ df' = [cacheUrl |-> DoSubstitution(<<<<P("CACHE_URL")>>>>, paramValues)[1],
              git      |-> DoSubstitution(<<GitScript>>, paramValues)[1],
              buildSh  |-> buildScript,
              runFull  |-> <<KonfluxScriptHeader, <<W("preprocessor.sh")>>>> \o envVars
                           \o <<<<>>, <<W("build.sh"), W(cmdArgs)>>>>]
    /\ pc' = "containerfile"
    /\ UNCHANGED <<build, paramValues, tool, toolVersions, buildScript, envVars, cmdArgs,
                   konfluxScript, kf, steps>>

Containerfile ==
    /\ pc = "containerfile"
    /\ kf' = KonfluxContainerfile(tool)
    /\ pc' = "steps"
    /\ UNCHANGED <<build, paramValues, tool, toolVersions, buildScript, envVars, cmdArgs,
                   konfluxScript, df, steps>>

\* Lines 341, 391 and 421: git-clone-and-settings writes build.sh after the
\* clone; create-pre-build-source writes the Containerfile and run-build.sh
Steps ==
    /\ pc = "steps"
    /\ steps' = [gitClone       |-> <<GitScript>> \o CreateBuildScript(build),
                 preBuildSource |-> CreateKonfluxScripts(kf, konfluxScript) \o <<Keystore>>]
    /\ pc' = "done"
    /\ UNCHANGED <<build, paramValues, tool, toolVersions, buildScript, envVars, cmdArgs,
                   konfluxScript, df, kf>>

Next == Scripts \/ Dockerfile \/ Containerfile \/ Steps

Spec == Init /\ [][Next]_vars

-----------------------------------------------------------------------------
(* How sh runs a step script: a tee line with a heredoc sends the lines    *)
(* that follow into its file up to the first line that is exactly the      *)
(* delimiter (to the end of the script if there is none); every other     *)
(* line is executed by the step.                                           *)

FileNames == {"build.sh", "Containerfile", "run-build.sh"}
Shell0 == [files |-> [f \in FileNames |-> <<>>], exec |-> <<>>, into |-> ""]
IsTee(l) == Len(l) = 3 /\ l[1] = W("tee") /\ l[3] = W("<<'RHTAPEOF'")

RECURSIVE Sh(_, _)
Sh(lines, st) ==
    IF lines = <<>> THEN st
    ELSE LET l == Head(lines) IN
         Sh(Tail(lines),
            IF st.into # ""
            THEN IF l = Delimiter THEN [st EXCEPT !.into = ""]
                 ELSE [st EXCEPT !.files[st.into] = Append(@, l)]
            ELSE IF IsTee(l) THEN [st EXCEPT !.into = l[2].v, !.files[l[2].v] = <<>>]
            ELSE [st EXCEPT !.exec = Append(@, l)])

(* Reference, spec 4.4: each string parameter reference becomes its value, *)
(* the cache URL reference the loopback URL whatever the parameters say,   *)
(* each workspace reference its local path, all at once; array parameter   *)
(* references stay.                                                        *)
SpecSubstitution(script, pv) ==
    LET value(t) ==
          LET i == SelectInSeq(pv, LAMBDA p : p.name = t.v /\ p.type = "string") IN
          CASE t = P("CACHE_URL")        -> <<Loopback>>
            [] t.k = "param" /\ i # 0    -> pv[i].str
            [] t.k = "ws"                -> <<Path(t.v)>>
            [] OTHER                     -> <<t>>
    IN  [n \in 1..Len(script) |-> FlattenSeq([j \in 1..Len(script[n]) |-> value(script[n][j])])]

-----------------------------------------------------------------------------
(* Properties.                                                             *)

\* No workspace reference is left in the substituted build script
TypeOK ==
    /\ pc \in {"scripts", "dockerfile", "containerfile", "steps", "done"}
    /\ \A n \in 1..Len(buildScript) : \A j \in 1..Len(buildScript[n]) :
          buildScript[n][j].k \in {"word", "param", "path", "url"}

(* Spec 8, script consistency: the build.sh that git-clone-and-settings    *)
(* writes through its heredoc (createBuildScript, 732-738) is the assembled *)
(* build script, and the step itself runs nothing but the clone and the    *)
(* chmod.                                                                  *)
BuildShAsAssembled ==
    pc = "done" =>
        LET r == Sh(steps.gitClone, Shell0) IN
        /\ r.files["build.sh"] = build
        /\ r.exec = <<GitScript, Chmod("build.sh")>>

(* Spec 4.9 and 8: the run-build.sh and Containerfile that                *)
(* create-pre-build-source writes (createKonfluxScripts, 740-750) are the *)
(* Konflux Containerfile and a run-build.sh with the same exports and the  *)
(* same build script as the diagnostic Dockerfile embeds, and the step     *)
(* runs nothing else but the mkdir, the chmod and its own command.         *)
ArtifactsAgree ==
    pc = "done" =>
        LET r == Sh(steps.preBuildSource, Shell0)
            exports == SubSeq(df.runFull, 3, Len(df.runFull) - 2)
            goals   == Last(df.runFull)[2].v
        IN  /\ r.files["Containerfile"] = kf
            /\ r.files["run-build.sh"] =
                  <<KonfluxScriptHeader>> \o exports \o <<<<>>, SetArgs(goals), <<>>>> \o df.buildSh
            /\ r.exec = <<<<W("mkdir"), W(".jbs")>>, Chmod("run-build.sh"), Keystore>>

(* Spec 4.4: the diagnostic build.sh and CACHE_URL are the text with every *)
(* reference replaced once by its value, the cache URL by the loopback     *)
(* URL.                                                                    *)
SubstitutionAsSpecified ==
    pc \notin {"scripts", "dockerfile"} =>
        /\ df.buildSh = SpecSubstitution(build, paramValues)
        /\ df.cacheUrl = <<Loopback>>

=============================================================================
