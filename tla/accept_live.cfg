SPECIFICATION FairSpec
CONSTANTS
    MaxFrame = 2
    MaxText = 1
    Req = {r1, r2, r3, r4}
    NoReq = {r1, r2, r3, r4}
    Reporters = {"loop", "video"}
INVARIANTS RequestsOnce DeletedIsQuiet
PROPERTIES CloseEnds QueueDrains
