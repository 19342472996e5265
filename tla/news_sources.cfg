SPECIFICATION Spec
CONSTANTS
    News = {0, 1, 2}
    BatchSize = 2
    MaxEvents = 2
INVARIANTS
    SourcesAreReported
CHECK_DEADLOCK FALSE
