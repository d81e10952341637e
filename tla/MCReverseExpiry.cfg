SPECIFICATION FairSpec
CONSTANTS
    c1 = c1
    c2 = c2
    f1 = f1
    f2 = f2
    ext = ext
    rem = rem
    Cpus = {c1, c2}
    Flows = {f1}
    Externals = {ext}
    Remotes = {rem}
    Ports = {1}
    ExternalOf <- MCExternalOf
    RemoteOf <- MCRemoteOf
    Timeout = 2
    Confirm = 1
    RunTicks = 0
    FireTicks = 1
    Evictions = FALSE
    Failures = FALSE
    MaxTime = 8
    PacketsUntil = 2
    MaxGen = 2
PROPERTY ReverseEntriesExpire
CHECK_DEADLOCK FALSE
