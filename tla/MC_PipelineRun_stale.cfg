CONSTANTS
    i1 = i1
    maven = maven
    gradle = gradle
    s1 = s1
    s2 = s2
    s3 = s3
    none = none
    noArchive = noArchive
    noScript = noScript
    Images <- MCImages
    Tools <- MCTools
    Scripts <- MCScripts
    Recipes <- MCRecipes
    MaxAttempts <- MCMaxAttempts
    NoImage <- none
    NoArchive <- noArchive
    NoScript <- noScript

SPECIFICATION Spec

INVARIANT BuildRunsGeneratedScript

\* The reconciler stops after a successful PipelineRun or after MaxAttempts.
CHECK_DEADLOCK FALSE
