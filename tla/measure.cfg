\* A host that may be late and whose read() fails once, any signal.
CONSTANTS
    Samples = 2
    MaxSyncs = 1
    MaxAssertions = 2
    Slots = 2
    EarlySignal = TRUE
    StartLevels = {FALSE, TRUE}
    MaxReadErrors = 1
SPECIFICATION Spec
INVARIANT TypeOK
INVARIANT SamePulse
INVARIANT PairedUnlessDisturbed
INVARIANT NoReportLeftBehind
\* The program ends.
CHECK_DEADLOCK FALSE
