SPECIFICATION PooledFairSpec
CONSTANTS
    Request = {r1, r2}
    Session = {s1}
    Sid = {h1}
    NoRequest = NoRequest
    MaxPair = 2
    PoolSizes = {1, 2}
VIEW View
INVARIANT NobodyStuck
PROPERTY EveryRequestEnds
