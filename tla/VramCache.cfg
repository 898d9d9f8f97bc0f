CONSTANTS
    NSlots = 4
    MaxBudget = 3
    Block = {b1, b2, b3, b4}
    NoBlock = NoBlock
    AgeMod = 3
    BlockCost = 2
    DmaMod = 8
    DmaBudget = 5
    DmaTotals = {0, 2, 7}
    MaxFrame = 5
    b1 = b1
    b2 = b2
    b3 = b3
    b4 = b4
SYMMETRY BlockSymmetry
SPECIFICATION Spec
INVARIANTS
    Coherent
    StagingFits
PROPERTIES
    EvictsOldest
