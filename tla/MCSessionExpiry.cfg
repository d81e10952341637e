SPECIFICATION FairSpec
CONSTANTS
    c1 = c1
    c2 = c2
    f1 = f1
    f2 = f2
    ext = ext
    rem = rem
    Cpus = {c1, c2}
    Flows = {f1}
    Externals = {ext}
    Remotes = {rem}
    Ports = {1}
    ExternalOf <- MCExternalOf
    RemoteOf <- MCRemoteOf
    Timeout = 2
    Confirm = 1
    RunTicks = 1
    FireTicks = 1
    Evictions = FALSE
    Failures = TRUE
    MaxTime = 11
    PacketsUntil = 5
    MaxGen = 3
INVARIANT RemovesOwnSession
PROPERTY SessionsExpire
CHECK_DEADLOCK FALSE
