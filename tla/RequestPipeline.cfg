SPECIFICATION MCSpec
CONSTANTS
    PipelineSize = 2
    MaxItems = 5
    Ops = {"m1", "i1", "i2"}
    Iqs = {"i1", "i2"}
INVARIANTS
    RepliesSafe
    WindowKept
    PorterSafe
PROPERTIES
    EveryRequestCompletes
    ForceEndsAll
\* a disposed pipeline and a closed porter do nothing more
CHECK_DEADLOCK FALSE
