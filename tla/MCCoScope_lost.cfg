CONSTANTS
    t1 = t1  t2 = t2  t3 = t3
    Tasks = {t1, t2}
    User = user
    NoTask = none
SPECIFICATION FairSpec
PROPERTY JoinReturns
CHECK_DEADLOCK FALSE
