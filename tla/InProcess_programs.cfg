SPECIFICATION ProgramSpec
CONSTANTS
    r1 = r1
    r2 = r2
    r3 = r3
    world = world
    sub = sub
    s1 = s1
    s2 = s2
    NoRank = NoRank
    Ranks <- ThreeRanks
    Groups <- TwoGroups
    Members <- MCMembers
    Signatures <- MCSignatures
    MaxExecution = 1
    MaxSequence = 2
    Allocations = {1, 2, 3}
    MaxTombstones = 0
    MaxOperations = 12
    Plan <- PlanPrograms
    Starts = {0}
    MayAbort = FALSE
INVARIANTS
    RendezvousComplete
PROPERTIES
    ProgramsFinish
CHECK_DEADLOCK FALSE
