SPECIFICATION FairSpec
CONSTANTS
  Sizes = {0, 1, 3}
  BlockNumbers = 3
  MaxRetries = 1
  MaxFaults = 1
  MaxTransfers = 2
INVARIANTS DeliverySound RetriesSuffice
PROPERTIES TransferEnds
CHECK_DEADLOCK FALSE
