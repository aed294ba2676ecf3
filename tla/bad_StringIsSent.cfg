SPECIFICATION Spec
CONSTANTS
    MaxFrame = 1
    MaxText = 1
    Req = {r1, r2, r3}
    NoReq = {r1, r2, r3}
    Reporters = {"video"}
SYMMETRY ReqSymmetry
INVARIANTS StringIsSent
