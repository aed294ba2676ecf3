SPECIFICATION Spec
CONSTANTS
    MaxClient = 2
    Key = {1, 2, 3}
    Video = {1, 2}
    Thread = {t1, t2}
    NoThread = NoThread
    Absent = Absent
    MaxRequests = 1
    Failure = {"create", "stream", "callback", "preview", "receive", "convert", "encode"}
SYMMETRY ThreadSymmetry
INVARIANTS ViewersAreConnected FramesAsAsked RightVideo
PROPERTIES CrashesHaveCauses ViewingSpec
