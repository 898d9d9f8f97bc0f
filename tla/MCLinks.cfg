CONSTANTS
    MaxPath = 9
    Radix = 4
    MaxRest = 3
    Capacity = 19
    Size = 4
    WriteLasts = 3
    WriteGap = 2
    ReadGap = 3
    MaxBytes = 2
    Slow = 3
    SystemClock = 50000000
    Bauds = {921600, 115200, 1200}
    Modulus = 256
    Places = 3
    Nibbles = 2
    Programs <- MCPrograms
    MaxSizes = {1, 3}
    MaxTyped = 3
    Lo = 20
    Hi = 3
    Times = {0, 19, 20, 37, 38, 39}
    Delays = {0, 1, 13}
    MaxGap = 2
    MaxCalls = 2
SPECIFICATION LinksSpec
INVARIANTS
    AnswersInStep
    QueueInOrder
    TransfersWhole
    MessagesReadable
    CountersWhole
PROPERTY
    StartUpAnswered
