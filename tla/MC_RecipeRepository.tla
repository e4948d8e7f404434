------------------------ MODULE MC_RecipeRepository ------------------------
(* Two threads, two lookups each, an interval of one tick or none, and a  *)
(* clock that runs long enough for the data to expire twice.              *)
EXTENDS RecipeRepository

CONSTANTS t1, t2

MCThreads    == {t1, t2}
MCIntervals  == {1}
MCMaxTime    == 4
MCMaxCalls   == 2
MCMaxVersion == 1
=============================================================================
