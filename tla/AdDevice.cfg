SPECIFICATION Spec
CONSTANTS
    p1 = p1
    p2 = p2
    phy0 = phy0
    phy1 = phy1
    AD_ARRAY_SIZE = 2
    Id = {0, 1, 2, 3}
    Path <- MCPath
    Name = {}
    Tag <- MCTag
    NULL = NULL
    NameFile <- MCNameFile
    Preset <- MCPreset
    Value = {1}
    MaxSets = 1
INVARIANTS TypeOK SettingsAsTold ReadsAreTrue
PROPERTY ImplementsMap
CHECK_DEADLOCK FALSE
