SPECIFICATION ServerSpec
CONSTANTS
    Conn = {c1, c2}
    MaxConn = 2
    FrmSize = 6
    LenAt = 1
    LenBytes = 2
    MidBytes = 0
    TailBytes = 1
    PayloadLen = {1}
    FrameType = {"control"}
    Window = 2
    MaxFrames = 2
    StartPos = {22}
    None = None
    Torn = Torn
    MaxConns = {1, 2}
    MaxAnswers = 1
    MaxInits = 2
    MaxWrites = 1
CHECK_DEADLOCK FALSE
SYMMETRY Perm
INVARIANTS ServerTypeOK StreamIntact ClientTableAgrees SetupSound
PROPERTY ImplementsQueue
