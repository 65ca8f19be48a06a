CONSTANTS
  Devices <- OneDevice
  InitReclaimable <- OneReclaimable
  Capacity = 2
  FixedCharge = 1
  AgingCap = 2
  MailboxCapacity = 2
  Sizes = {1, 2}
  Priorities = {0}
  Ops <- AllOps
  MaxRequests = 2
  MaxGeneration = 1
SPECIFICATION FairSpec
INVARIANTS
  LedgerConserved
  CancelNotLost
  CancelApplies
  NoLostWakeup
PROPERTIES
  ClaimIsFinal
  VerdictIsDelivered
