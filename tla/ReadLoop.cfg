SPECIFICATION FairSpec
CONSTANTS
    MaxConn = 3
    MaxBytes = 2
PROPERTY ServedInTurn
