\* maxPoolSize 1 lets the pool have two connections.  Two calls of one session
\* share a transaction, two others have none.
SPECIFICATION FairSpec
CONSTANTS
    t1 = t1
    t2 = t2
    x1 = x1
    Conn = {c1, c2}
    Task = {t1, t2, t3, t4}
    Txn = {x1}
    None = None
    TxnOf <- TwoInOneTransaction
    MaxPoolSize = 1
    MinPoolSize = 1
CHECK_DEADLOCK FALSE
INVARIANTS OneOwner AnswerReachesAsker IdleTimerMeansIdle NoPlainLeak
PROPERTIES WaiterServed
