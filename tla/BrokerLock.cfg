\* Two requests for one name, from one or two connections, with and without ttl
\* and timeout.  The broker may stop for good: when every connection is closed
\* and a lock without ttl was granted to a dead one, nothing is left to happen.
SPECIFICATION BrokerFairSpec
CONSTANTS
    Lock = {l1, l2}
    Id = {a}
    Conn = {c1, c2}
    Ttls = {TRUE, FALSE}
    Timeouts = {TRUE, FALSE}
INVARIANTS BrokerSafe
PROPERTIES EndsByOwnerOnly UsesProcessLock DeadClientsReleased
CHECK_DEADLOCK FALSE
