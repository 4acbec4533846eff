SPECIFICATION ConversationsSpec
CONSTANTS
    People = {u1}
    Sessions = {s1}
    Cellarman = {w1}
    Slots = {r1, r2}
    ContextTurns = 1
    MaxSends = 2
INVARIANT ChatLogsErased
CHECK_DEADLOCK FALSE
