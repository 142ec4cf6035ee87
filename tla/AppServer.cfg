\* No worker process, one (the same as none), or two of which two may crash.
SPECIFICATION Spec
CONSTANTS
    MaxWorkers = 2
    MaxCrashes = 2
\* The process ends.
CHECK_DEADLOCK FALSE
INVARIANTS Counted OrderlyShutdown
PROPERTIES Serves SigintEnds
