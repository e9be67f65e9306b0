\* The instance of ieptime.cfg.
CONSTANTS
    Wrap = 8
    Mult = 2
    HostOffset = 5
    HostErrors <- Errors
    MaxCycles = 16
SPECIFICATION Spec
PROPERTY HandlesRollover
