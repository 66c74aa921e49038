SPECIFICATION Spec
CONSTANTS
  BtThreads = {bt1}
  BridgeThreads = {br1}
  NumPieces = 2
  MaxFlush = 3
INVARIANTS TypeOK ActiveSlotComplete IntactUnlessOverrun MappedFileIsBacked
PROPERTIES ActiveSlotUntouched ImplementsSnapshot
CHECK_DEADLOCK FALSE
