SPECIFICATION Spec
CONSTANTS
    Program = {"MDKServer", "demo-process"}
    Elf = {"a", "b"}
    MaxForks = 3
    None = None
INVARIANTS FlagTracks CrashNeedsSignal SingleRunning StopStops
CHECK_DEADLOCK FALSE
