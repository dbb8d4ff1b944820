SPECIFICATION Spec
CONSTANTS
    Conn = {c1, c2}
    MaxConn = 2
    FrmSize = 4
    LenAt = 1
    LenBytes = 1
    MidBytes = 0
    TailBytes = 1
    PayloadLen = {1}
    FrameType = {"data", "control"}
    Window = 1
    MaxFrames = 3
    StartPos = {15}
    None = None
    Torn = Torn
INVARIANTS PacedNeverWaits
PROPERTY ImplementsLoop
SYMMETRY Perm
