\* A three-bit counter that turns twice; a gap of 4 counts overflows.
CONSTANTS
    Wrap = 8
    Mult = 2
    HostOffset = 5
    HostErrors <- Errors
    MaxCycles = 16
SPECIFICATION Spec
INVARIANT TypeOK
INVARIANT LagsByRollovers
PROPERTY SyncLag
