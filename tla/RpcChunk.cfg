\* Four messages in both directions and a reconnect anywhere.
SPECIFICATION ChunkFairSpec
CONSTANTS
    Sends <- MixedSends
    From <- MixedFrom
    Bytes <- MixedBytes
    Id <- MixedId
    ChunkSize = 2
    Before <- NewBefore
    MaxBreaks = 1
INVARIANTS Paced WholeMessages
PROPERTY Delivered
\* Everything has been sent.
CHECK_DEADLOCK FALSE
