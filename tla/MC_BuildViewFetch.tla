--------------------------- MODULE MC_BuildViewFetch ---------------------------
(* Two builds, a user who navigates or clicks up to three times.          *)
EXTENDS BuildViewFetch

CONSTANTS b1, b2, noBuild

MCNames == {b1, b2}
MCMaxClicks == 3
=============================================================================
