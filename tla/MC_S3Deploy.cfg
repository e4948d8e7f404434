CONSTANTS
    d1 = d1
    d2 = d2
    dot = dot
    a = a
    b = b
    Deployers <- MCDeployers
    Archives <- MCArchives
    Dot <- dot
    MaxFaults <- MCMaxFaults

SPECIFICATION Spec

INVARIANTS
    TypeOK
    ReturnsOnlyWhenDeployed

\* Every call stops, by returning or by an exception.
CHECK_DEADLOCK FALSE
