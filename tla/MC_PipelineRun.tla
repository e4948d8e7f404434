--------------------------- MODULE MC_PipelineRun ---------------------------
(* Two recipes on one builder image with the same tool and different       *)
(* build.sh (as when the recipe's pre/post-build scripts or additional     *)
(* downloads change between attempts), and one with the other tool.       *)
EXTENDS PipelineRun

CONSTANTS i1, maven, gradle, s1, s2, s3, none, noArchive, noScript

MCImages  == {i1}
MCTools   == {maven, gradle}
MCScripts == {s1, s2, s3}
MCRecipes == {[image |-> i1, tool |-> maven,  script |-> s1],
              [image |-> i1, tool |-> maven,  script |-> s2],
              [image |-> i1, tool |-> gradle, script |-> s3]}
MCMaxAttempts == 3
=============================================================================
