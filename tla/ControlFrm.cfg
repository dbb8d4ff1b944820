SPECIFICATION FairSpec
CONSTANTS
    Elf = {"a"}
    Id = {1}
    MaxForks = 2
    MaxCmds = 2
    None = None
INVARIANTS TypeOK ReconfigureAlone ResetAsTold NothingAfterFailure EveryCommandOnce CursorAtCommand
PROPERTY HandlerReturns
CHECK_DEADLOCK FALSE
