CONSTANTS
    Configs <- MCConfigs
    MaxConfigs = 2
    PrepSizes <- MCPrepSizes
    Unit = 2
    DefaultSize = 8

SPECIFICATION Spec

INVARIANTS
    WithinFile
    StreamsDisjoint
    HolesAreUnfilled
