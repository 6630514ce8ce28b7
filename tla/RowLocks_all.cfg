CONSTANTS
    t1 = t1
    t2 = t2
    t3 = t3
    Nobody = Nobody
    Txs = {t1, t2, t3}
    PoolMax = 3
SPECIFICATION MCSpec
INVARIANT LocksSound
PROPERTY EachEnds
CHECK_DEADLOCK FALSE
