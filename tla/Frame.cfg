CONSTANTS
    NSlots = 3
    MaxBudget = 2
    Block = {b1, b2, b3}
    NoBlock = NoBlock
    AgeMod = 8
    BlockCost = 2
    DmaMod = 8
    DmaBudget = 5
    DmaTotals = {0, 3}
    MaxFrame = 4
    b1 = b1
    b2 = b2
    b3 = b3
    Obj = {o1}
    Anim = {walk, jump, bad}
    ValidAnim = {walk, jump}
    Anim0 = walk
    NoAnim = NoAnim
    walk = walk
    jump = jump
    bad = bad
    Number <- MCNumber
    Offset = {1, 2, 3}
    First <- MCFirst
    More = {1}
    Following <- MCFollowing
    LoopTo <- MCLoopTo
    Sprites <- MCSprites
    AnimOf <- MCAnimOf
    Budgets = {2}
    OwnSprites = {0, 1}
    MaxDraw = 1
    MaxChanges = 1
SPECIFICATION FairFrameSpec
INVARIANTS
    FrameInv
    ScreenHasBlocks
    AnimationUnlessStarved
PROPERTIES
    FrameTerminates
