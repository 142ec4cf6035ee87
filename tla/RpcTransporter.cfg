\* Three calls, so three sockets: one that was connected, one attempt, one more.
SPECIFICATION Spec
CONSTANTS
    Calls = 3
    None = None
\* Everything may have been said.
CHECK_DEADLOCK FALSE
INVARIANTS ConnectedUntilCrossed OneSocket
PROPERTIES AuthenticatedFirst ConversationStays CallsLeave
