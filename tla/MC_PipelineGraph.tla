------------------------- MODULE MC_PipelineGraph -------------------------
(* Instantiates PipelineGraph: one builder image, two tools and one        *)
(* earlier pre-build image, so that the index can hold an image for the    *)
(* recipe's own (image, tool) key, for the other tool only, or for none.   *)
EXTENDS PipelineGraph

CONSTANTS i1, maven, gradle, c1, none

MCImages       == {i1}
MCTools        == {maven, gradle}
MCCachedImages == {c1}
=============================================================================
