CONSTANTS
    Builds <- MCHookBuilds
    ParamLists <- MCParamLists
    Tools <- MCTools
    VersionedTools <- MCVersionedTools
SPECIFICATION Spec
INVARIANTS
    BuildShAsAssembled
\* Generation ends once the step scripts are built.
CHECK_DEADLOCK FALSE
