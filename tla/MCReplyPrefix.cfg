SPECIFICATION Spec
CONSTANTS
    a = a
    b = b
    s = s
    s2 = s2
    e1 = e1
    e2 = e2
    other = other
    Clients = {a, b}
    Servers = {s, s2}
    ExtPorts = {1, 2}
    ClientPort = 7
    ServerPort = 80
    Pool <- MCPool
    Hash <- MCHash
    Prefix = prefix
    WellKnown = wellknown
    ZeroHalves <- MCZeroHalves
    Arriving6 <- MCArriving6
    Arriving4 <- MCArriving4
    Failures = FALSE
INVARIANT RepliesComeFromPrefix
