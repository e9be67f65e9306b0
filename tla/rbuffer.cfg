\* The smallest buffer in which a 64-bit write both wraps and finds one free
\* cell: RBUF_SIZE 4 holds three words.
CONSTANTS
    RBUF_SIZE = 4
    Word <- MCWord
    WriteArgs <- MixedArgs
    ReadSizes = {1, 2}
SPECIFICATION FairSpec
INVARIANT TypeOK
INVARIANT NoCellConflict
INVARIANT LoadsStayValid
PROPERTY ImplementsFifo
PROPERTY WordsGetRead
