\* Three callers, two names, every combination of ttl and timeout.  Timers fire.
SPECIFICATION FairSpec
CONSTANTS
    Lock = {l1, l2, l3}
    Id = {a, b}
    Ttls = {TRUE, FALSE}
    Timeouts = {TRUE, FALSE}
INVARIANTS LockSafe
PROPERTIES NoOvertaking ServiceSpec TimersServe
