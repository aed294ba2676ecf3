SPECIFICATION FairSpec
CONSTANTS
    Client = {c1, c2, c3}
    MaxStarts = 2
    MaxWait = 2
INVARIANTS TypeOK ClosedHandles StartWaits
PROPERTIES ServerCloses
