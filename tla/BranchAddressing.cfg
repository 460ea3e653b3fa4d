SPECIFICATION Spec
CONSTANTS
    MaxBranch  = 254
    Releasable = {2, 254}
INVARIANTS
    RefusedOnlyWhenFull
    VpnBlocksDisjoint
    VpnBlocksInPool
    OnlyGoldenAliases
    TunnelUnitsDistinct
