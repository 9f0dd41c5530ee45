SPECIFICATION Spec
CONSTANTS
    Senders = {s1, s2}
    Adapters = {a1, a2}
    Kept = {a1}
    Levels = {0, 5, 7}
    Loglevel = 5
    ChanLen = 2
    MaxMsgs = 3
INVARIANTS WrittenOnce OrderKept FatalIsWritten  LoggedIsKept
PROPERTY CatchesUp
CHECK_DEADLOCK FALSE
