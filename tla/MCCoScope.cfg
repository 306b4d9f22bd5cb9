CONSTANTS
    t1 = t1  t2 = t2  t3 = t3
    Tasks = {t1, t2, t3}
    User = user
    NoTask = none
SPECIFICATION FairSpec
INVARIANTS JoinReleasesGather ExceptionReported CvSafe NoTokenLeak
PROPERTY CvJoinReturns
CHECK_DEADLOCK FALSE
