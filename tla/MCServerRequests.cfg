SPECIFICATION Spec
CONSTANTS
    r1 = r1
    r2 = r2
    r3 = r3
    c1 = c1
    c2 = c2
    s1 = s1
    s2 = s2
    k1 = k1
    k2 = k2
    k3 = k3
    NoKey = NoKey
    Requests = {r1, r2, r3}
    Conns = {c1, c2}
    Shards = {s1, s2}
    Keys = {k1, k2, k3}
    ShardOf <- MCShardOf
    Contents <- MCContents
    Timed = {r2}
    InlineViewHandler = TRUE
    MaxInflight = 3
    MaxPerConnection = 2
    Workers = 1
    MaxQueue = 1
    MaxEntries = 2
INVARIANTS
    InflightBalanced
    RecordHasTask
    SingleFlight
    AnswerExplained
    CacheBounded
PROPERTIES
    AnsweredOnce
    EveryRequestEnds
CHECK_DEADLOCK FALSE
