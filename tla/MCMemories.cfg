CONSTANTS
    MemTime = 2
    Words = 4
    CpuAddress = {0, 3}
    Hold = 7
    Gap = 2
    Longs = 2
    Delays = {0, 1}
SPECIFICATION MemoriesSpec
INVARIANTS
    ProcessorAccesses
    ConsoleReads
PROPERTIES
    OwnMemoryWhole
    ProcessorServed
