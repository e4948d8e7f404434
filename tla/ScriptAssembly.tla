--------------------------- MODULE ScriptAssembly ---------------------------
(***************************************************************************)
(* The build.sh of createPipelineSpec                                      *)
(* (pkg/reconciler/dependencybuild/buildrecipeyaml.go): the                *)
(* additionalPackages loop (801-837, called at 164), the tool section      *)
(* (211-236), the keystore preamble (241) and the four successive          *)
(* ReplaceAll calls on the entry template (253-256).                       *)
(*                                                                         *)
(* A script is a sequence of commands.  A command is a record whose op     *)
(* says what it does when the script runs: "install" a package, "fail"     *)
(* (an echo ... exit 1 line), "build" with a tool, "settings", "keystore", *)
(* "user" (a line of a recipe hook), or "placeholder" (a {{NAME}} marker   *)
(* left in the text).  Text inside a package template other than the       *)
(* package's URI is abstracted away.                                       *)
(***************************************************************************)
EXTENDS Naturals, Sequences, SequencesExt

CONSTANTS
    Tools,          \* tool names, unknown ones included
    Downloads,      \* possible recipe.AdditionalDownloads
    PreScripts,     \* possible recipe.PreBuildScript
    PostScripts,    \* possible recipe.PostBuildScript
    NoUri

KnownTools == {"maven", "gradle", "sbt", "ant"}
KnownTypes == {"tar", "executable", "rpm"}

Cmd(op, arg)   == [op |-> op, arg |-> arg]
Placeholder(n) == Cmd("placeholder", n)
BUILD          == Placeholder("BUILD")
INSTALL        == Placeholder("INSTALL_PACKAGE_SCRIPT")
PRE            == Placeholder("PRE_BUILD_SCRIPT")
POST           == Placeholder("POST_BUILD_SCRIPT")

\* scripts/build-entry.sh (embedded, not in this repository): one line per placeholder
EntryScript == <<INSTALL, PRE, BUILD, POST>>

\* strings.ReplaceAll(s, marker, by): every marker is replaced, the inserted text is not rescanned
ReplaceAllOf(s, marker, by) ==
    FlattenSeq([n \in 1..Len(s) |-> IF s[n] = marker THEN by ELSE <<s[n]>>])

VARIABLES
    tool, downloads, preBuildScript, postBuildScript,   \* the inputs
    count,     \* index of the additionalPackages loop
    install,   \* the install string it builds
    build,     \* the build string of createPipelineSpec
    pc

vars == <<tool, downloads, preBuildScript, postBuildScript, count, install, build, pc>>

Init ==
    /\ tool \in Tools
    /\ downloads \in Downloads
    /\ preBuildScript \in PreScripts
    /\ postBuildScript \in PostScripts
    /\ count = 0
    /\ install = <<>>
    /\ build = <<>>
    /\ pc = "packages"

\* The type-specific field a package needs (808, 812, 816)
Complete(d) == d.field

\* The echo ... exit 1 line for a bad package; the rpm message names no URI (817)
FailLine(d) == <<Cmd("fail", IF d.type = "rpm" THEN NoUri ELSE d.uri)>>

\* Mutant: a missing package name of an rpm package is not detected
AdditionalPackageNoRpmCheck(d) == d.type \in {"tar", "executable"} /\ ~Complete(d)

\* A package of a known type whose required field is missing
Incomplete(d) == d.type \in KnownTypes /\ ~Complete(d)

\* Mutant: the failing line is appended to install instead of assigned
AddPackageAppendFail ==
    LET d == downloads[count + 1] IN
    /\ pc = "packages"
    /\ count < Len(downloads)
    /\ IF d.type \notin KnownTypes
       THEN /\ install' = install \o FailLine(d)
            /\ pc' = "tool"
            /\ UNCHANGED count
       ELSE /\ install' = (IF Incomplete(d) THEN install \o FailLine(d) ELSE install)
                          \o <<Cmd("install", d.uri)>>
            /\ count' = count + 1
            /\ UNCHANGED pc
    /\ UNCHANGED <<tool, downloads, preBuildScript, postBuildScript, build>>

(* One iteration of lines 803-835.  A bad package of a known type replaces *)
(* what install holds so far by its failing line and then still appends   *)
(* its template; an unknown type sets install to its failing line and     *)
(* breaks out of the loop.                                                 *)
AddPackage ==
    LET d == downloads[count + 1] IN
    /\ pc = "packages"
    /\ count < Len(downloads)
    /\ IF d.type \notin KnownTypes
       THEN /\ install' = FailLine(d)
            /\ pc' = "tool"
            /\ UNCHANGED count
       ELSE /\ install' = (IF Incomplete(d) THEN FailLine(d) ELSE install)
                          \o <<Cmd("install", d.uri)>>
            /\ count' = count + 1
            /\ UNCHANGED pc
    /\ UNCHANGED <<tool, downloads, preBuildScript, postBuildScript, build>>

\* The loop ends when every download has been processed
PackagesDone ==
    /\ pc = "packages"
    /\ count = Len(downloads)
    /\ pc' = "tool"
    /\ UNCHANGED <<tool, downloads, preBuildScript, postBuildScript, count, install, build>>

(* Lines 211-236: maven, gradle and ant get the maven settings and their  *)
(* build script, sbt its script alone, any other tool an echo ... exit 1.  *)
BuildToolSection(t) ==
    CASE t \in {"maven", "gradle", "ant"} -> <<Cmd("settings", t), Cmd("build", t)>>
      [] t = "sbt"                       -> <<Cmd("build", t)>>
      [] OTHER                           -> <<Cmd("fail", t)>>

(* Lines 237-256: the keystore preamble is prepended to the entry script, *)
(* then the four placeholders are replaced one after another.              *)
AssembleBuild ==
    LET withKeystore == <<Cmd("keystore", "")>> \o EntryScript
        s1 == ReplaceAllOf(withKeystore, BUILD, BuildToolSection(tool))
        s2 == ReplaceAllOf(s1, INSTALL, install)
        s3 == ReplaceAllOf(s2, PRE, preBuildScript)
    IN  /\ pc = "tool"
        /\ build' = ReplaceAllOf(s3, POST, postBuildScript)
        /\ pc' = "done"
        /\ UNCHANGED <<tool, downloads, preBuildScript, postBuildScript, count, install>>

Next == AddPackage \/ PackagesDone \/ AssembleBuild

Spec == Init /\ [][Next]_vars

-----------------------------------------------------------------------------
(* Reference definitions, spec 4.3.                                        *)

\* A package is invalid when its type is unknown or its type's field is missing
Invalid(d) == d.type \notin KnownTypes \/ ~d.field

\* The downloads processed: all of them, or up to the first unknown type
Processed ==
    LET stop == SelectInSeq(downloads, LAMBDA d : d.type \notin KnownTypes)
    IN  IF stop = 0 THEN downloads ELSE SubSeq(downloads, 1, stop)

\* Each processed package gives its template, or a failing line in its place
SpecInstall ==
    FlattenSeq([n \in 1..Len(Processed) |->
                   IF Invalid(Processed[n]) THEN FailLine(Processed[n])
                   ELSE <<Cmd("install", Processed[n].uri)>>])

\* Running a script: commands run in order until the first failing one
Exec(st, c) ==
    IF st.failed THEN st
    ELSE CASE c.op = "fail"    -> [st EXCEPT !.failed = TRUE]
           [] c.op = "install" -> [st EXCEPT !.installed = @ \cup {c.arg}]
           [] c.op = "build"   -> [st EXCEPT !.built = TRUE]
           [] OTHER            -> st
Run(script) == FoldLeft(Exec, [installed |-> {}, failed |-> FALSE, built |-> FALSE], script)

-----------------------------------------------------------------------------
(* Properties.                                                             *)

\* install holds commands of the package template, at most one failing line, and that first
TypeOK ==
    /\ tool \in Tools
    /\ downloads \in Downloads
    /\ count \in 0..Len(downloads)
    /\ pc \in {"packages", "tool", "done"}
    /\ \A c \in ToSet(install) : c.op \in {"install", "fail"}
    /\ \A n \in 1..Len(install) : install[n].op = "fail" => n = 1

(* Spec 4.3, "fail at run time": the assembled build.sh, when it runs,     *)
(* fails before the build tool runs exactly when the tool is unknown or a *)
(* declared package is invalid, and otherwise installs every package and  *)
(* runs the build.  This is about the additionalPackages loop overwriting *)
(* install, its break on an unknown type, and the order of the            *)
(* substitutions.                                                          *)
FailsAtRunTimeIffInvalid ==
    pc = "done" =>
        LET o == Run(build) IN
        /\ o.failed <=> (tool \notin KnownTools \/ \E n \in 1..Len(downloads) : Invalid(downloads[n]))
        /\ o.failed => ~o.built
        /\ ~o.failed => o.built /\ o.installed = {downloads[n].uri : n \in 1..Len(downloads)}

(* Spec 4.3: an invalid package gets a failing line in place of its own   *)
(* install lines, and the packages before it keep theirs.  This is about  *)
(* additionalPackages assigning, not appending, the failing line (806,    *)
(* 811, 816) and then appending the bad package's own template (834).     *)
InstallAsSpecified ==
    pc # "packages" => install = SpecInstall

=============================================================================
