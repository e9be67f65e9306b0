\* A host that may be late for so long that the buffer fills up.
CONSTANTS
    Rounds = 7
    Slots = 3
SPECIFICATION FairSpec
INVARIANT TypeOK
INVARIANT Backlog
INVARIANT StaleByMerged
INVARIANT ReadsFindReports
INVARIANT NoUseAfterUnmap
INVARIANT AllReportsPrinted
PROPERTY Terminates
\* The program ends.
CHECK_DEADLOCK FALSE
