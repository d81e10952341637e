SPECIFICATION Spec
CONSTANTS
    c1 = c1
    c2 = c2
    f1 = f1
    f2 = f2
    ext = ext
    rem = rem
    Cpus = {c1, c2}
    Flows = {f1}
    Externals = {ext}
    Remotes = {rem}
    Ports = {1, 2}
    ExternalOf <- MCExternalOf
    RemoteOf <- MCRemoteOf
    Timeout = 3
    Confirm = 1
    RunTicks = 1
    FireTicks = 1
    Evictions = TRUE
    Failures = TRUE
    MaxTime = 8
    PacketsUntil = 6
    MaxGen = 2
INVARIANTS TypeOK TimersCoverSessions ExpiresOnlyIdle
SYMMETRY Symmetry
CHECK_DEADLOCK FALSE
