SPECIFICATION Spec
CONSTANTS
    t1 = t1
    t2 = t2
    NoThread = NoThread
    Threads <- TwoThreads
    Capacity = 6
    Sizes <- MCSizes
SYMMETRY ThreadSymmetry
INVARIANTS
    LeasesBacked
    MachineConserved
    NothingStranded
