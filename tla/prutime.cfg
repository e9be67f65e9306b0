\* A two-bit counter: 3/8 ns per count, so that one turn of it is no whole
\* number of nanoseconds; two turns and more fit into a behaviour.
CONSTANTS
    Wrap = 4
    Mult = 3
    Scale = 8
    SlewResults = {FALSE, TRUE}
    HostOffset = 7
    HostErrors <- Errors
    MaxCycles = 10
SPECIFICATION Spec
INVARIANT TypeOK
INVARIANT ClockExact
INVARIANT SyncExact
