SPECIFICATION Spec
CONSTANTS
    br = br
    eth = eth
    f = f
    x = x
    y = y
    doc = doc
    Interfaces = {br, eth}
    Pairs <- MCPairs
    Policies <- MCPolicies
    DefaultSource = doc
    Addresses = {x, y, doc}
    Flows = {f}
    Hash <- MCHash
    PoolMax = 2
    NanosPerSec = 2
    SecsMax = 3
    MaxIndex = 3
INVARIANTS TypeOK RunsUnderAcceptedPolicy AttachedTranslatesBothWays SessionsFollowPolicy TimeoutKept
SYMMETRY Symmetry
