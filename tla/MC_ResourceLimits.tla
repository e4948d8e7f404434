------------------------- MODULE MC_ResourceLimits -------------------------
(* Memory settings empty, blank, bad or set; a bad setting in the first    *)
(* and in the last field parsed; additional memory none, under and over    *)
(* the ceiling, with and without a ceiling.                                *)
EXTENDS ResourceLimits

CONSTANTS empty, blank, bad

MCOverrides ==
    [TaskRequestMemory : {empty, blank, bad, Mi(2048)},
     BuildRequestMemory : {empty, bad, Mi(4096)},
     TaskRequestCPU : {empty},
     TaskLimitCPU : {empty},
     BuildRequestCPU : {blank},
     BuildLimitCPU : {empty, bad}]
MCAdditionalMemories == {0, 256, 2048}
MCMaxMemories == {0, 1024}
=============================================================================
