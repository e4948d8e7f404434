CONSTANTS
    Builds <- MCBuilds
    ParamLists <- MCParamLists
    Tools <- MCTools
    VersionedTools <- MCVersionedTools
SPECIFICATION Spec
INVARIANTS
    TypeOK
    BuildShAsAssembled
    ArtifactsAgree
    SubstitutionAsSpecified
\* Generation ends once the step scripts are built.
CHECK_DEADLOCK FALSE
