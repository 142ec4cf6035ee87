\* Two subscriptions, and two values of each; disconnect() is called again with
\* at most three messages under way.
SPECIFICATION ObservableSpec
CONSTANTS
    Streams = 2
    MaxNext = 2
    MaxUnderway = 4
\* Everything may have been said.
CHECK_DEADLOCK FALSE
INVARIANTS Complete NoErrors NoneLeftOver
PROPERTY Observed
