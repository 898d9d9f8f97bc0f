CONSTANTS
    Slots = {0, 1, 48, 49, 50, 52}
    Counts = {1, 80, 144}
    MaxBlocks = 2
    MaxFrame = 2
    Values = {0, 1}
    MaxRun = 3
    MaxFile = 5
    Files = 2
    Start = 2
    Unit = 256
    Versions = {"v1", "v2"}
    Args = {0, 1, 2, 4}
    Windows <- MCWindows
    FileSizes <- MCFileSizes
    Animations <- MCAnimations
    Factors = {21, 32, 64, 96, 128}
    Offsets = {0, 5, 63}
    Block = {0, 1}
    Loads = {2, 53}
    Track = {1}
    Own = {71}
    MaxCommands = 4
SPECIFICATION DataSpec
INVARIANTS
    BlocksAndTable
    FilesWhole
    SavesKept
    PictureScaled
    PortAndFilesKept
