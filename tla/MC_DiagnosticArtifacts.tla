----------------------- MODULE MC_DiagnosticArtifacts -----------------------
(* Build scripts of up to two lines after the keystore preamble, over     *)
(* lines that reference a string parameter, the GOALS array parameter,    *)
(* CACHE_URL and a workspace; parameter lists in several orders, with and *)
(* without the array parameter; maven and ant.  MCHookLines adds a recipe  *)
(* hook line that is exactly the heredoc delimiter.                        *)
EXTENDS DiagnosticArtifacts

MCLines == { <<W("mvn"), P("GOALS")>>,
             <<W("curl"), P("CACHE_URL")>>,
             <<W("cd"), WsRef("source"), P("SCM_TAG")>> }
MCBuilds == { <<Keystore>> \o s : s \in BoundedSeq(MCLines, 2) }
MCHookLines == MCLines \cup {Delimiter, <<W("rm"), W("-rf")>>}
MCHookBuilds == { <<Keystore>> \o s : s \in BoundedSeq(MCHookLines, 2) }

Param(n, t, s, a) == [name |-> n, type |-> t, str |-> s, arr |-> a]
Tag   == Param("SCM_TAG", "string", <<W("v1")>>, <<>>)
Url   == Param("SCM_URL", "string", <<W("repo")>>, <<>>)
Goals == Param("GOALS", "array", <<>>, <<<<"-", "P", "(", "V", ")">>, <<"x">>>>)
MCParamLists == { <<>>, <<Tag>>, <<Goals, Tag>>, <<Tag, Goals, Url>> }
MCTools == {"maven", "ant"}
MCVersionedTools == {"maven", "ant"}
=============================================================================
