CONSTANTS
    CLK_INC = 7
    Ratios = {7, 8, 11, 13, 14, 20, 23, 36, 49}
    Width = 49
    Ring = 28
    Block = 8
    Ahead = 2
    Quarter = 3
    Burst = 1
    Size = 2
    Pitches = {0, 1, 3}
    Period = 3
    LookGap = 2
    Chans = 3
    Slow = {1}
    MaxSteps = 2
    Bits = 3
    PerBit = 2
    MinTick = 3
SPECIFICATION SoundSpec
INVARIANT
    NoDrift
PROPERTIES
    MusicInOrder
    MusicGoesOn
    EffectsInOrder
    PairsInOrder
