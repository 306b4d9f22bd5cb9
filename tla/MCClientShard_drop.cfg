CONSTANTS
    t1 = t1  t2 = t2  t3 = t3
    Tasks = {t1, t2}
    Nobody = nobody
    HardCapacity = 2
SPECIFICATION Spec
INVARIANT NothingDropped
