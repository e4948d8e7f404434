\* The generator is a function that returns: its final state has no successor.
CONSTANTS
    i1 = i1
    maven = maven
    gradle = gradle
    c1 = c1
    none = none
    Images <- MCImages
    Tools <- MCTools
    CachedImages <- MCCachedImages
    NoImage <- none

SPECIFICATION Spec

INVARIANT TypeOK
INVARIANT CacheShortCircuit
INVARIANT ResultReferencesResolve
INVARIANT FanOutComplete

CHECK_DEADLOCK FALSE
