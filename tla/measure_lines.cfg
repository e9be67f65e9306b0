\* A signal that is low at the start and waits for the PRU, no failing read().
CONSTANTS
    Samples = 2
    MaxSyncs = 1
    MaxAssertions = 2
    Slots = 2
    EarlySignal = FALSE
    StartLevels = {FALSE}
    MaxReadErrors = 0
SPECIFICATION Spec
INVARIANT LinesArePaired
\* The program ends.
CHECK_DEADLOCK FALSE
