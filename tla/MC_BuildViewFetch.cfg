CONSTANTS
    b1 = b1
    b2 = b2
    noBuild = noBuild
    Names <- MCNames
    NoBuild <- noBuild
    MaxClicks <- MCMaxClicks

SPECIFICATION Spec

INVARIANT
    ShowsCurrentBuild

\* The user may stop navigating and clicking, and every request may have answered.
CHECK_DEADLOCK FALSE
