SPECIFICATION RegistrySpec
CONSTANTS
    Allocations = {1, 2, 3}
    MaxTombstones = 2
    MaxOperations = 3
INVARIANTS
    NoConflictingActiveLeases
PROPERTIES
    FreedForever
    ReleasedOnlyAtTerminal
