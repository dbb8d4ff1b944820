SPECIFICATION FairSpec
CONSTANTS
    Iden = {1, 2, 3}
    MGR_THREAD_MAX = 2
    MaxWorkers = 2
    None = None
INVARIANTS TypeOK ReleaseEndsWorker ParamStaysValid
PROPERTIES CallsReturn SupersededEnds RecordedWorks
CHECK_DEADLOCK FALSE
