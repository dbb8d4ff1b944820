SPECIFICATION ServerSpec
CONSTANTS
    Conn = {c1}
    MaxConn = 1
    FrmSize = 6
    LenAt = 1
    LenBytes = 2
    MidBytes = 0
    TailBytes = 1
    PayloadLen = {1}
    FrameType = {"control"}
    Window = 2
    MaxFrames = 2
    StartPos = {22}
    None = None
    Torn = Torn
    MaxConns = {1}
    MaxAnswers = 2
    MaxInits = 1
    MaxWrites = 1
CHECK_DEADLOCK FALSE
INVARIANT SendsReturn
