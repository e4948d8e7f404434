------------------------- MODULE MC_ScriptAssembly -------------------------
(* Up to two downloads of every type (one unknown), with and without       *)
(* their required field; a known, a field-less and an unknown tool; a      *)
(* pre-build hook that is empty, a command, or contains the text           *)
(* {{POST_BUILD_SCRIPT}}.                                                   *)
EXTENDS ScriptAssembly

CONSTANTS noUri

MCTools == {"maven", "sbt", "foo"}
MCPackages == [type : {"tar", "executable", "rpm", "zip"}, field : BOOLEAN, uri : {"u1", "u2"}]
MCDownloads == BoundedSeq(MCPackages, 2)
MCPreScripts == {<<>>, <<Cmd("user", "pre")>>, <<POST>>}
MCPostScripts == {<<Cmd("user", "post")>>}
=============================================================================
