\* 2 ns per count, offsets of up to 9 ns are slewed: increments of up to 4, of
\* which the field of two bits does not hold the last.
CONSTANTS
    Wrap = 8
    Mult = 2
    Scale = 1
    SlewResults = {FALSE}
    HostOffset = 20
    HostErrors <- Errors
    MaxCycles = 7
    Limit = 10
    Bits = 2
SPECIFICATION SlewSpec
INVARIANT SlewTypeOK
INVARIANT CorrectionSettles
PROPERTY NoSmallStepBack
