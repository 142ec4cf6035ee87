\* maxConnections 1 lets the pool have two connections (one more during a
\* handover).  Two calls of one session share a transaction.
SPECIFICATION FairSpec
CONSTANTS
    t1 = t1
    t2 = t2
    x1 = x1
    Conn = {c1, c2}
    Task = {t1, t2, t3, t4}
    Txn = {x1}
    None = None
    TxnOf <- TwoInOneTransaction
    MaxConnections = 1
    Drift = 0
CHECK_DEADLOCK FALSE
INVARIANTS Accounted OnlyFirstIsShared OpenWhileNeeded
PROPERTIES WaiterServed
