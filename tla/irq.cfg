SPECIFICATION FairSpec
CONSTANTS
    N = 5
    Spinners <- OnlyLoop
    Readers = {2, 3, 4}
    KBD = 2
INVARIANTS EoiOwed
PROPERTIES Acknowledged EveryoneRuns
