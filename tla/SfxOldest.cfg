CONSTANTS
    NChan = 2
    hit = hit
    horn = horn
    hum = hum
    Sound = {hit, horn, hum}
    SizeOf <- MCSizeOf
    Halves = {horn, hum}
    FifoSize = 2
    TickMod = 16
    MaxCommands = 3
SPECIFICATION Spec
PROPERTIES
    OldestTaken
