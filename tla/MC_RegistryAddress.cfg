CONSTANTS
    Registries <- MCRegistries
    TagInputs <- MCTagInputs
    TagMax <- MCTagMax

SPECIFICATION Spec

INVARIANTS
    TypeOK
    ResolvesAsSpecified

\* registryArgsWithDefaults returns: the final state has no successor.
CHECK_DEADLOCK FALSE
