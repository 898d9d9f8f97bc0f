CONSTANTS
    Lo = 20
    Hi = 3
    Times = {15, 22}
    Delays = {}
    MaxGap = 1
    MaxCalls = 1
SPECIFICATION TimerSpec
INVARIANTS
    TriggeredWhenReached
