\* An earlier user of two of the steps set up here and two others.
CONSTANT
    Leftover = {2, 5, 8, 11}
SPECIFICATION FairSpec
INVARIANT TypeOK
INVARIANT PrintsThisSequence
PROPERTY Terminates
\* The program ends.
CHECK_DEADLOCK FALSE
