SPECIFICATION Spec
CONSTANTS
    Program = {"MDKServer"}
    Elf = {"a", "b"}
    MaxForks = 3
    None = None
INVARIANT AtMostOneSimulator
CHECK_DEADLOCK FALSE
