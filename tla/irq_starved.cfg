SPECIFICATION FairSpec
CONSTANTS
    N = 3
    Spinners <- Shipped
    Readers = {2}
    KBD = 2
PROPERTY EveryoneRuns
CHECK_DEADLOCK FALSE
