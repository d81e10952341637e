SPECIFICATION Spec
CONSTANTS
    c1 = c1
    f1 = f1
    f2 = f2
    ext = ext
    rem = rem
    NoTuple = NoTuple
    Nobody = Nobody
    Cpus = {c1}
    Flows = {f1, f2}
    Externals = {ext}
    Remotes = {rem}
    Ports = {1, 2}
    ExternalOf <- MCExternalOf
    RemoteOf <- MCRemoteOf
    Timeout = 2
    Confirm = 1
    RunTicks = 1
    FireTicks = 1
    Evictions = FALSE
    Failures = FALSE
    MaxTime = 7
    PacketsUntil = 6
    MaxGen = 3
INVARIANT MapsMirror
PROPERTY ImplementsBindings
CHECK_DEADLOCK FALSE
