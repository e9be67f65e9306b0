\* Two-bit words, a host whose clock is stepped between 1 and 4 ahead and
\* whose read() fails once.
CONSTANTS
    Half = 4
    U64 = 32
    SYNC_PERIOD_NS = 1
    Slots = 1
    HostOffsets = {1, 4}
    MaxReadErrors = 1
    MaxNow = 2
SPECIFICATION FairSpec
INVARIANT TypeOK
INVARIANT ClockIsHosts
INVARIANT SyncInTime
PROPERTY PollExact
PROPERTY SyncEnds
\* A program whose start fails stops.
CHECK_DEADLOCK FALSE
