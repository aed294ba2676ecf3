SPECIFICATION Spec
CONSTANTS
    MaxClient = 2
    Key = {1}
    Video = {1}
    Thread = {t1, t2}
    NoThread = NoThread
    Absent = Absent
    MaxRequests = 1
    Failure = {}
SYMMETRY ThreadSymmetry
INVARIANTS LastViewerStopsThread
