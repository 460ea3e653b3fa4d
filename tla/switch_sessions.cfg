SPECIFICATION Spec
CONSTANTS
    s1 = s1
    s2 = s2
    Switches = {s1, s2}
    r1 = r1
    r2 = r2
    Requests = {r1, r2}
    p1 = p1
    p2 = p2
    g = g
    Ports = {p1, p2}
    General = g
    vlan1 = vlan1
    vlan10 = vlan10
    vlan100 = vlan100
    Values = {vlan1, vlan10, vlan100}
    Base = vlan1
    Prefixes <- MCPrefixes
    Versions = {standard, adjusted}
    Generated = standard
    Blocks = 2
    Operations <- MCOperations
    MaxWorkers = 1
    MaxFaults = 1
    MaxReloads = 1
INVARIANTS TypeOK NoPortLeftDown DeployInOrder
PROPERTY OkMeansDone
CHECK_DEADLOCK FALSE
SYMMETRY Symmetric
