SPECIFICATION FairSpec
CONSTANTS
    Main = Main
    Other = Other
    None = None
    Destroyed = Destroyed
    MaxInits = 2
CHECK_DEADLOCK FALSE
INVARIANTS FaultsHaveCause InitMeansReady NothingLeaks LinesWhole DatagramsAddressed
PROPERTY MutexesComeFree
