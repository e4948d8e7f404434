CONSTANTS
    empty = empty
    blank = blank
    bad = bad
    Empty <- empty
    Blank <- blank
    Bad <- bad
    Overrides <- MCOverrides
    AdditionalMemories <- MCAdditionalMemories
    MaxMemories <- MCMaxMemories

SPECIFICATION Spec

INVARIANTS
    TypeOK
    ParseErrorAborts
    MemoryAsSpecified

\* createPipelineSpec returns the pipeline or the error: the final state has no successor.
CHECK_DEADLOCK FALSE
