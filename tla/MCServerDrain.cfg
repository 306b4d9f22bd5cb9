SPECIFICATION Spec
CONSTANTS
    r1 = r1
    r2 = r2
    r3 = r3
    c1 = c1
    c2 = c2
    s1 = s1
    s2 = s2
    Requests = {r1, r2, r3}
    Conns = {c1, c2}
    Shards = {s1, s2}
    Main = s1
    ShardOf <- MCShardOf
    ConnOf <- MCConnOf
    ModeOf <- MCModeOf
    Workers = 1
    MaxQueue = 1
    MaxConnections = 2
    MaxInflight = 2
INVARIANTS
    CountersBalanced
    LastOneFinishes
    DrainedIsQuiet
    NothingLeftOver
PROPERTIES
    DrainEnds
