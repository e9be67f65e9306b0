\* A host that may be late, so that reports pile up and are dropped, and whose
\* read() may fail twice.
CONSTANTS
    Rounds = 5
    SyncEvery = 2
    Slots = 2
    MaxReadErrors = 2
SPECIFICATION FairSpec
INVARIANT TypeOK
INVARIANT SamePulse
INVARIANT NoLostWakeup
INVARIANT HostReadsInitialised
INVARIANT NoUseAfterUnmap
INVARIANT AllReportsPrinted
PROPERTY Terminates
\* The program ends.
CHECK_DEADLOCK FALSE
