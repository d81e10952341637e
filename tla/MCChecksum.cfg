SPECIFICATION Spec
CONSTANTS
    Base = 16
    BodyWords = 13
    TcpNumber = 6
    UdpNumber = 11
INVARIANTS TypeOK SumExact FilledVerifies VerdictPreserved
PROPERTIES FoldsAgree
CHECK_DEADLOCK FALSE
