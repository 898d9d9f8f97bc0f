CONSTANTS
    NChan = 2
    hit = hit
    horn = horn
    hum = hum
    Sound = {hit, horn, hum}
    SizeOf <- MCSizeOf
    Halves = {horn, hum}
    FifoSize = 2
    TickMod = 3
    MaxCommands = 2
SPECIFICATION Spec
INVARIANTS
    Inv
PROPERTIES
    NoNeedlessSteal
    SoundsEnd
