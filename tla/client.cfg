SPECIFICATION FairSpec
CONSTANTS
    MaxConnects = 3
    MaxWait = 2
    Req = {r1, r2}
    NoReq = NoReq
INVARIANTS TypeOK ClosedOnce ConnectIsTrue RequestsOnce RequestsFreed
PROPERTIES DestructorEnds
