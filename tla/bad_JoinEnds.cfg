SPECIFICATION FairSpec
CONSTANTS
    MaxClient = 1
    Key = {1, 2}
    Video = {1, 2}
    Thread = {t1, t2}
    NoThread = NoThread
    Absent = Absent
    MaxRequests = 2
    Failure = {}
PROPERTIES JoinEnds
CHECK_DEADLOCK FALSE
