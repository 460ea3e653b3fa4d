SPECIFICATION Spec
CONSTANTS
    Ids <- TwoIds
    Hosts <- TwoHosts
    Credentials <- TwoLogins
    Requests <- FourRequests
    i1 = i1
    i2 = i2
    h1 = h1
    h2 = h2
    c1 = c1
    c2 = c2
    r1 = r1
    r2 = r2
    r3 = r3
    r4 = r4
    MaxFaults = 1
    MaxRestarts = 1
SYMMETRY RegistrySymmetry
INVARIANTS
    TypeOK
    OneDevicePerHost
    QuietHostsAgree
    RetiredStaysRetired
PROPERTY
    ImplementsLooseInventory
CHECK_DEADLOCK FALSE
