\* Two clients, one connection may break.
SPECIFICATION FieldsFairSpec
CONSTANTS
    Client = {c1, c2}
    Field = {f1}
    MaxCalls = 2
    MaxCloses = 1
INVARIANTS Consistent KnownFresh
PROPERTY Answered
\* All calls have been made.
CHECK_DEADLOCK FALSE
