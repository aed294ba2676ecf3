SPECIFICATION Spec
CONSTANTS
    MaxFrame = 3
    MaxText = 2
    Req = {r1, r2, r3, r4, r5, r6}
    NoReq = {r1, r2, r3, r4, r5, r6}
    Reporters = {"loop"}
SYMMETRY ReqSymmetry
INVARIANTS TypeOK FramesInOrder NoFrameLost
PROPERTIES ChannelSpec
