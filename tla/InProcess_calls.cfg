SPECIFICATION FairSpec
CONSTANTS
    r1 = r1
    r2 = r2
    r3 = r3
    world = world
    sub = sub
    s1 = s1
    s2 = s2
    NoRank = NoRank
    Ranks <- TwoRanks
    Groups <- OneGroup
    Members <- MCMembers
    Signatures <- MCSignatures
    MaxExecution = 2
    MaxSequence = 2
    Allocations = {1, 2, 3}
    MaxTombstones = 0
    MaxOperations = 6
    Plan <- PlanAborted
    Starts = {0, 3}
    MayAbort = TRUE
INVARIANTS
    LeasesOwned
    NoLostWakeup
    RendezvousAgrees
    SlotsOwned
    EntriesReaped
    EntryOutlivesRanks
PROPERTIES
    AbortDrains
    ComponentSpecs
CHECK_DEADLOCK FALSE
