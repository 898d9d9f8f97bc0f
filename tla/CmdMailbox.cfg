CONSTANTS
    Op = {op00, opA}
    Arg = {arg00, argAA, argFF, argX}
    Op00 = op00
    Arg00 = arg00
    ArgAA = argAA
    ArgFF = argFF
    MaxCmds = 2
SPECIFICATION FairSpec
INVARIANTS
    FreeMeansDone
PROPERTIES
    ImplementsChannel
    NobodyWaits
