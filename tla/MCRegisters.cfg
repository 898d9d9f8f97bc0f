CONSTANTS
    Track = {1, 2}
    Timeout = 1
    MaxWrites = 6
    LoopGap = 2
    MaxGap = 3
    MaxRise = 4
    LongPress = 6
    MaxPresses = 2
    NoTmp = NoTmp
SPECIFICATION RegistersSpec
INVARIANTS
    LatestDone
    SilencedFirst
    LatchMeansPress
PROPERTIES
    StartsWithoutDrive
    ButtonObeyed
