SPECIFICATION Spec
CONSTANTS
    a = a
    b = b
    s = s
    s2 = s2
    e1 = e1
    e2 = e2
    other = other
    Clients = {a, b}
    Servers = {s, s2}
    ExtPorts = {1, 2}
    ClientPort = 7
    ServerPort = 80
    Pool <- MCPool
    Hash <- MCHash
    Prefix = wellknown
    WellKnown = wellknown
    ZeroHalves <- MCZeroHalves
    Arriving6 <- MCArriving6
    Arriving4 <- MCArriving4
    Failures = TRUE
INVARIANTS TypeOK ForwardTranslates AnswerIsAdmitted ReplyTranslates StatelessPassIntact CountersAgree
