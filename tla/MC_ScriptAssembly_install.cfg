CONSTANTS
    noUri = noUri
    NoUri <- noUri
    Tools <- MCTools
    Downloads <- MCDownloads
    PreScripts <- MCPreScripts
    PostScripts <- MCPostScripts

SPECIFICATION Spec

INVARIANTS
    InstallAsSpecified

\* createPipelineSpec returns the script: the final state has no successor.
CHECK_DEADLOCK FALSE
