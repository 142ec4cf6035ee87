\* Chunks of any size.
SPECIFICATION Spec
CONSTANTS
    Header = 4
    Streams <- AllStreams
    Garbage = 5
INVARIANT Framed
\* The stream ends.
CHECK_DEADLOCK FALSE
