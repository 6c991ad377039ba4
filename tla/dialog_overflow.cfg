\* Timeouts whose milliseconds overflow the parent's i32.
SPECIFICATION Spec
CONSTANTS
    IntMax = 31
    TickMs = 2
    MsPerSec = 4
    GraceSecs = 2
    FallbackSecs = 3
    Timeouts = {0, 1, 2, 5, 7, 14, 16, 32}
    MinTimes = {0, 3, 6, 12, 40}
    Offers = {0, 1}
INVARIANTS ParentOutlastsDialog
CHECK_DEADLOCK FALSE
