\* Timeouts that fit and that do not, gates shorter and longer than them.
SPECIFICATION FairSpec
CONSTANTS
    IntMax = 31
    TickMs = 2
    MsPerSec = 4
    GraceSecs = 2
    FallbackSecs = 3
    Timeouts = {0, 1, 2, 5, 7, 14, 16, 32}
    MinTimes = {0, 3, 6, 12, 40}
    Offers = {0, 1}
INVARIANTS TypeOK NoEarlyAllow NoEarlyEnd
PROPERTIES AutoDenies
CHECK_DEADLOCK FALSE
