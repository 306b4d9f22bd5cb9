CONSTANTS
    t1 = t1  t2 = t2  t3 = t3
    Tasks = {t1, t2, t3}
    Nobody = nobody
    HardCapacity = 2
SPECIFICATION FairSpec
INVARIANTS SlotsBalanced NoLostWakeup HeldOnce 
PROPERTIES TaskStarts StopObserved
