CONSTANTS
  Devices <- NoDevice
  InitReclaimable <- NothingReclaimable
  Capacity = 2
  FixedCharge = 0
  AgingCap = 2
  MailboxCapacity = 2
  Sizes = {1, 2, 3}
  Priorities = {0, 1}
  Ops <- CoreOps
  MaxRequests = 3
  MaxGeneration = 0
SPECIFICATION Spec
PROPERTY MaturedNotOvertaken
