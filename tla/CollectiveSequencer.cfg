SPECIFICATION SequencerSpec
CONSTANTS
    r1 = r1
    r2 = r2
    world = world
    sub = sub
    s1 = s1
    s2 = s2
    Ranks <- MCRanks
    Groups <- MCGroups
    Members <- MCMembers
    Signatures = {s1}
    MaxExecution = 2
    MaxSequence = 1
INVARIANTS
    AgreedOrder
    SlotLifecycle
CHECK_DEADLOCK FALSE
