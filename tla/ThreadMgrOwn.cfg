SPECIFICATION Spec
CONSTANTS
    c1 = c1
    c2 = c2
    Caller = {c1, c2}
    Iden = {0, 1, 2, 3}
    MayUse <- OwnIdentities
    MGR_THREAD_MAX = 2
    Wrap = 16
    MaxCalls = 4
    None = None
INVARIANTS IdenUnique SerialBindingKept
CHECK_DEADLOCK FALSE
