CONSTANTS
    t1 = t1  t2 = t2  t3 = t3
    Tasks = {t1, t2, t3}
    User = user
    NoTask = none
SPECIFICATION Spec
INVARIANT JoinWaitsForBatch
CHECK_DEADLOCK FALSE
